------------------------ MODULE KioskViewCacheProofs -------------------------
(***************************************************************************)
(* KioskWindow implements ViewCache, for any dashboards, lists and limit:  *)
(* what it is for a sequence to list a set in an order, what the operators *)
(* on views do to the sequence ViewOrder, and then one step of ViewCache   *)
(* for every step of the window.                                           *)
(***************************************************************************)
EXTENDS KioskViewCache, KioskWindowProofs, FunctionTheorems

-----------------------------------------------------------------------------
(* Sequences and orders.                                                   *)

\* How many elements of V are at or before v.
Rank(R, V, v) == Cardinality({u \in V : <<u, v>> \in R})

\* s lists the elements of V, each once, in the order R.
Enumerates(s, R, V) ==
  /\ s \in Seq(V)
  /\ \A v \in V : \E n \in DOMAIN s : s[n] = v
  /\ \A m, n \in DOMAIN s : <<s[m], s[n]>> \in R <=> m <= n

\* The sequence of the elements by rank.
Ranked(R, V) ==
  [n \in 1..Cardinality(V) |-> CHOOSE v \in V : Rank(R, V, v) = n]

\* In a finite order each element has a rank of its own, from 1 to the number
\* of elements, and greater ranks are later elements.
LEMMA RankOrders ==
  ASSUME NEW V, NEW R, Ordered(R, V), IsFiniteSet(V)
  PROVE  /\ \A v \in V : Rank(R, V, v) \in 1..Cardinality(V)
         /\ \A u, v \in V : <<u, v>> \in R <=> Rank(R, V, u) <= Rank(R, V, v)
         /\ \A u, v \in V : Rank(R, V, u) = Rank(R, V, v) => u = v
<1> DEFINE Down(v) == {u \in V : <<u, v>> \in R}
<1>1. \A v \in V : IsFiniteSet(Down(v)) /\ Cardinality(Down(v)) \in Nat
  <2> TAKE v \in V
  <2>1. Down(v) \in SUBSET V
    OBVIOUS
  <2> HIDE DEF Down
  <2> QED
    BY <2>1, FS_Subset, FS_CardinalityType
<1>2. \A v \in V : Cardinality(Down(v)) \in 1..Cardinality(V)
  <2> TAKE v \in V
  <2>1. Down(v) \in SUBSET V /\ {v} \in SUBSET Down(v)
    BY DEF Ordered
  <2> HIDE DEF Down
  <2>2. Cardinality(Down(v)) <= Cardinality(V) /\ Cardinality({v}) <= Cardinality(Down(v))
    BY <1>1, <2>1, FS_Subset
  <2>3. Cardinality({v}) = 1 /\ Cardinality(V) \in Nat
    BY FS_Singleton, FS_CardinalityType
  <2> QED
    BY <1>1, <2>2, <2>3
<1>3. \A u, v \in V : <<u, v>> \in R => Cardinality(Down(u)) <= Cardinality(Down(v))
  <2> TAKE u, v \in V
  <2> HAVE <<u, v>> \in R
  <2>1. Down(u) \in SUBSET Down(v)
    BY DEF Ordered
  <2> HIDE DEF Down
  <2> QED
    BY <1>1, <2>1, FS_Subset
<1>4. \A u, v \in V : <<u, v>> \in R /\ Cardinality(Down(u)) = Cardinality(Down(v))
                        => u = v
  <2> TAKE u, v \in V
  <2> HAVE <<u, v>> \in R /\ Cardinality(Down(u)) = Cardinality(Down(v))
  <2>1. Down(u) \in SUBSET Down(v) /\ v \in Down(v)
    BY DEF Ordered
  <2>2. v \in Down(u) => u = v
    BY DEF Ordered
  <2> HIDE DEF Down
  <2>3. Down(u) = Down(v)
    BY <1>1, <2>1, FS_Subset
  <2> QED
    BY <2>1, <2>2, <2>3
<1>5. \A u, v \in V : <<u, v>> \in R \/ <<v, u>> \in R
  BY DEF Ordered
<1>6. \A v \in V : Rank(R, V, v) = Cardinality(Down(v))
  BY DEF Rank
<1> HIDE DEF Down
<1>7. \A u, v \in V : Rank(R, V, u) = Rank(R, V, v) => u = v
  BY <1>4, <1>5, <1>6
<1>8. \A u, v \in V : <<u, v>> \in R <=> Rank(R, V, u) <= Rank(R, V, v)
  <2> TAKE u, v \in V
  <2>1. CASE <<u, v>> \in R
    BY <1>3, <1>6, <2>1
  <2>2. CASE <<u, v>> \notin R
    <3>1. <<v, u>> \in R /\ u # v
      BY <1>5, <2>2
    <3>2. Rank(R, V, v) <= Rank(R, V, u) /\ Rank(R, V, v) # Rank(R, V, u)
      BY <1>3, <1>6, <1>7, <3>1
    <3> QED
      BY <1>1, <1>6, <2>2, <3>2
  <2> QED
    BY <2>1, <2>2
<1> QED
  BY <1>2, <1>6, <1>7, <1>8

\* So every rank up to the number of elements is taken, and the sequence by
\* rank lists the order.
LEMMA RankedEnumerates ==
  ASSUME NEW V, NEW R, Ordered(R, V), IsFiniteSet(V)
  PROVE  Enumerates(Ranked(R, V), R, V)
<1> DEFINE N == Cardinality(V)
           rank == [v \in V |-> Rank(R, V, v)]
           s == Ranked(R, V)
<1>1. N \in Nat /\ IsFiniteSet(1..N) /\ Cardinality(1..N) = N
  BY FS_CardinalityType, FS_Interval
<1>2. rank \in [V -> 1..N] /\ \A u, v \in V : rank[u] = rank[v] => u = v
  BY RankOrders
<1>3. rank \in Injection(V, 1..N)
  <2> HIDE DEF rank, N
  <2> QED
    BY <1>2, Fun_IsInj
<1>4. rank \in Surjection(V, 1..N)
  <2> HIDE DEF rank
  <2> QED
    BY <1>1, <1>3, FS_Injection
<1>5. \A n \in 1..N : \E v \in V : Rank(R, V, v) = n
  <2>1. \A n \in 1..N : \E v \in V : rank[v] = n
    <3> HIDE DEF rank, N
    <3> QED
      BY <1>4, Fun_SurjectionProperties
  <2> QED
    BY <2>1
<1>6. \A n \in 1..N : s[n] \in V /\ Rank(R, V, s[n]) = n
  <2> TAKE n \in 1..N
  <2>1. s[n] = CHOOSE v \in V : Rank(R, V, v) = n
    BY DEF Ranked
  <2> QED
    BY <1>5, <2>1
<1>7. DOMAIN s = 1..N /\ s \in [1..N -> V]
  BY <1>6 DEF Ranked
<1> HIDE DEF N, s
<1>8. s \in Seq(V)
  BY <1>1, <1>7
<1>9. \A v \in V : \E n \in DOMAIN s : s[n] = v
  <2> TAKE v \in V
  <2>1. Rank(R, V, v) \in 1..N
    BY RankOrders DEF N
  <2>2. s[Rank(R, V, v)] = v
    BY <1>6, <2>1, RankOrders
  <2> QED
    BY <1>7, <2>1, <2>2
<1>10. \A m, n \in DOMAIN s : <<s[m], s[n]>> \in R <=> m <= n
  BY <1>6, <1>7, RankOrders
<1> QED
  BY <1>8, <1>9, <1>10 DEF Enumerates, s

\* In any listing of an order, the place of an element is its rank.
LEMMA PlaceIsRank ==
  ASSUME NEW V, NEW R, NEW s, Enumerates(s, R, V)
  PROVE  /\ IsFiniteSet(V)
         /\ Len(s) = Cardinality(V)
         /\ \A n \in DOMAIN s : Rank(R, V, s[n]) = n
<1>1. /\ s \in Seq(V) /\ Len(s) \in Nat /\ DOMAIN s = 1..Len(s)
      /\ \A m \in 1..Len(s) : s[m] \in V
  BY DEF Enumerates
<1>2. \A v \in V : \E n \in 1..Len(s) : s[n] = v
  BY <1>1 DEF Enumerates
<1>3. \A m, n \in 1..Len(s) : <<s[m], s[n]>> \in R <=> m <= n
  BY <1>1 DEF Enumerates
<1>4. \A m, n \in 1..Len(s) : s[m] = s[n] => m = n
  <2> TAKE m, n \in 1..Len(s)
  <2> HAVE s[m] = s[n]
  <2>1. m \in Nat /\ n \in Nat /\ m <= m /\ n <= n
    BY <1>1
  <2>2. m <= n /\ n <= m
    BY <1>3, <2>1
  <2> QED
    BY <2>1, <2>2
<1>5. s \in Bijection(1..Len(s), V)
  <2>1. s \in [1..Len(s) -> V]
    BY <1>1
  <2> QED
    BY <1>2, <1>4, <2>1, Fun_IsBij
<1>6. IsFiniteSet(V) /\ Len(s) = Cardinality(V)
  <2>1. ExistsBijection(1..Len(s), V)
    BY <1>5 DEF ExistsBijection
  <2> QED
    BY <1>1, <2>1, FS_NatBijection, FS_CountingElements
<1>7. ASSUME NEW n \in 1..Len(s) PROVE Rank(R, V, s[n]) = n
  <2> DEFINE Down == {u \in V : <<u, s[n]>> \in R}
             f == [m \in 1..n |-> s[m]]
  <2>1. n \in Nat /\ 1..n \subseteq 1..Len(s)
    BY <1>1
  <2>2. f \in [1..n -> Down]
    BY <1>1, <1>3, <2>1
  <2>3. \A a, b \in 1..n : f[a] = f[b] => a = b
    BY <1>4, <2>1
  <2>4. \A u \in Down : \E m \in 1..n : f[m] = u
    <3> TAKE u \in Down
    <3>1. PICK m \in 1..Len(s) : s[m] = u
      BY <1>2
    <3>2. m \in 1..n
      BY <1>1, <1>3, <3>1
    <3> QED
      BY <3>1, <3>2
  <2>5. Rank(R, V, s[n]) = Cardinality(Down)
    BY DEF Rank
  <2> HIDE DEF Down, f
  <2>6. f \in Bijection(1..n, Down)
    BY <2>2, <2>3, <2>4, Fun_IsBij
  <2>7. ExistsBijection(1..n, Down)
    BY <2>6 DEF ExistsBijection
  <2> QED
    BY <2>1, <2>5, <2>7, FS_CountingElements
<1> QED
  BY <1>1, <1>6, <1>7

\* There is one listing of an order.
LEMMA EnumerationUnique ==
  ASSUME NEW V, NEW R, NEW s, Ordered(R, V), Enumerates(s, R, V)
  PROVE  s = Ranked(R, V)
<1>1. /\ s \in Seq(V) /\ IsFiniteSet(V) /\ Len(s) = Cardinality(V)
      /\ \A n \in DOMAIN s : Rank(R, V, s[n]) = n
  BY PlaceIsRank DEF Enumerates
<1>2. DOMAIN s = 1..Cardinality(V) /\ \A n \in DOMAIN s : s[n] \in V
  BY <1>1
<1>3. \A n \in 1..Cardinality(V) : s[n] = CHOOSE v \in V : Rank(R, V, v) = n
  <2> TAKE n \in 1..Cardinality(V)
  <2>1. s[n] \in V /\ Rank(R, V, s[n]) = n
    BY <1>1, <1>2
  <2>2. \A v \in V : Rank(R, V, v) = n => v = s[n]
    BY <1>1, <2>1, RankOrders
  <2> QED
    BY <2>1, <2>2
<1>4. s = [n \in 1..Cardinality(V) |-> s[n]]
  BY <1>1, <1>2
<1> QED
  BY <1>3, <1>4 DEF Ranked

\* Kept lists what is left of an order.
LEMMA KeptEnumerates ==
  ASSUME NEW V, NEW R, NEW s, Enumerates(s, R, V), NEW S, NEW Q,
         \A x, y \in V \cap S : <<x, y>> \in Q <=> <<x, y>> \in R
  PROVE  Enumerates(Cache!Kept(s, S), Q, V \cap S)
<1> DEFINE K == {n \in DOMAIN s : s[n] \in S}
           leq == {p \in K \X K : p[1] <= p[2]}
           at == Ranked(leq, K)
           t == Cache!Kept(s, S)
<1>1. /\ s \in Seq(V) /\ Len(s) \in Nat /\ DOMAIN s = 1..Len(s)
      /\ \A n \in DOMAIN s : s[n] \in V /\ n \in Nat
  BY DEF Enumerates
<1>2. K \subseteq 1..Len(s) /\ IsFiniteSet(K)
  <2>1. IsFiniteSet(1..Len(s)) /\ K \in SUBSET (1..Len(s))
    BY <1>1, FS_Interval
  <2> QED
    BY <2>1, FS_Subset
<1>3. \A n \in K : n \in Nat /\ n \in DOMAIN s /\ s[n] \in V \cap S
  BY <1>1
<1>4. \A v \in V \cap S : \E n \in K : s[n] = v
  BY DEF Enumerates
<1>5. \A m, n \in K : <<s[m], s[n]>> \in Q <=> m <= n
  BY <1>3 DEF Enumerates
<1>6. \A k \in K : {j \in K : j <= k} = {j \in K : <<j, k>> \in leq}
  OBVIOUS
<1>7. t = [n \in 1..Cardinality(K) |->
             s[CHOOSE k \in K : Cardinality({j \in K : j <= k}) = n]]
  BY DEF Cache!Kept, Cache!Cardinality, Cardinality
<1> HIDE DEF K
<1>8. Ordered(leq, K)
  BY <1>3 DEF Ordered
<1>9. \A j, k \in K : <<j, k>> \in leq <=> j <= k
  OBVIOUS
<1>10. t = [n \in 1..Cardinality(K) |-> s[at[n]]]
  <2>1. \A n \in 1..Cardinality(K) :
          at[n] = CHOOSE k \in K : Cardinality({j \in K : <<j, k>> \in leq}) = n
    BY DEF Ranked, Rank
  <2>2. \A n \in 1..Cardinality(K) :
          at[n] = CHOOSE k \in K : Cardinality({j \in K : j <= k}) = n
    BY <1>6, <2>1
  <2> QED
    BY <1>7, <2>2
<1> HIDE DEF leq
<1>11. Enumerates(at, leq, K)
  BY <1>2, <1>8, RankedEnumerates
<1>12. Len(at) = Cardinality(K) /\ Cardinality(K) \in Nat
  BY <1>2, <1>11, PlaceIsRank, FS_CardinalityType
<1>13. DOMAIN at = 1..Cardinality(K) /\ \A n \in DOMAIN at : at[n] \in K
  BY <1>11, <1>12 DEF Enumerates
<1> HIDE DEF at, t
<1>14. t \in Seq(V \cap S) /\ DOMAIN t = DOMAIN at
  <2>1. t \in [1..Cardinality(K) -> V \cap S]
    BY <1>3, <1>10, <1>13
  <2> QED
    BY <1>12, <1>13, <2>1
<1>15. \A v \in V \cap S : \E n \in DOMAIN t : t[n] = v
  <2> TAKE v \in V \cap S
  <2>1. PICK k \in K : s[k] = v
    BY <1>4
  <2>2. PICK n \in DOMAIN at : at[n] = k
    BY <1>11 DEF Enumerates
  <2> QED
    BY <1>10, <1>13, <1>14, <2>1, <2>2
<1>16. \A m, n \in DOMAIN t : <<t[m], t[n]>> \in Q <=> m <= n
  <2> TAKE m, n \in DOMAIN t
  <2>1. t[m] = s[at[m]] /\ t[n] = s[at[n]] /\ at[m] \in K /\ at[n] \in K
    BY <1>10, <1>13, <1>14
  <2>2. <<t[m], t[n]>> \in Q <=> <<at[m], at[n]>> \in leq
    BY <1>5, <1>9, <2>1
  <2> QED
    BY <1>11, <1>14, <2>2 DEF Enumerates
<1> QED
  BY <1>14, <1>15, <1>16 DEF Enumerates, t

\* A new greatest element comes at the end.
LEMMA AppendEnumerates ==
  ASSUME NEW V, NEW R, NEW s, Enumerates(s, R, V), NEW i, i \notin V, NEW Q,
         \A x, y \in V : <<x, y>> \in Q <=> <<x, y>> \in R,
         \A x \in V \cup {i} : <<x, i>> \in Q,
         \A x \in V : <<i, x>> \notin Q
  PROVE  Enumerates(Append(s, i), Q, V \cup {i})
<1> DEFINE t == Append(s, i)
           L == Len(s)
<1>1. /\ s \in Seq(V) /\ L \in Nat /\ DOMAIN s = 1..L
      /\ \A n \in 1..L : s[n] \in V
  BY DEF Enumerates
<1>2. /\ t \in Seq(V \cup {i}) /\ DOMAIN t = 1..(L + 1)
      /\ t[L + 1] = i /\ \A n \in 1..L : t[n] = s[n]
  <2>1. s \in Seq(V \cup {i})
    BY <1>1
  <2> QED
    BY <1>1, <2>1
<1> HIDE DEF t, L
<1>3. \A v \in V \cup {i} : \E n \in DOMAIN t : t[n] = v
  <2> TAKE v \in V \cup {i}
  <2>1. CASE v = i
    BY <1>1, <1>2, <2>1
  <2>2. CASE v \in V
    <3>1. PICK n \in 1..L : s[n] = v
      BY <1>1, <2>2 DEF Enumerates
    <3> QED
      BY <1>1, <1>2, <3>1
  <2> QED
    BY <2>1, <2>2
<1>4. \A m, n \in DOMAIN t : <<t[m], t[n]>> \in Q <=> m <= n
  <2> TAKE m, n \in DOMAIN t
  <2>1. m \in 1..L \/ m = L + 1
    BY <1>1, <1>2
  <2>2. n \in 1..L \/ n = L + 1
    BY <1>1, <1>2
  <2>3. CASE m \in 1..L /\ n \in 1..L
    BY <1>1, <1>2, <2>3 DEF Enumerates
  <2>4. CASE n = L + 1
    <3>1. t[m] \in V \cup {i}
      BY <1>1, <1>2, <2>1
    <3> QED
      BY <1>1, <1>2, <2>1, <2>4, <3>1
  <2>5. CASE m = L + 1 /\ n \in 1..L
    BY <1>1, <1>2, <2>5
  <2> QED
    BY <2>1, <2>2, <2>3, <2>4, <2>5
<1> QED
  BY <1>2, <1>3, <1>4 DEF Enumerates, t

\* Without its least element the order is listed by the tail.
LEMMA TailEnumerates ==
  ASSUME NEW V, NEW R, NEW s, Enumerates(s, R, V), s # <<>>, NEW Q,
         \A x, y \in V \ {s[1]} : <<x, y>> \in Q <=> <<x, y>> \in R
  PROVE  /\ s[1] \in V
         /\ Enumerates(Tail(s), Q, V \ {s[1]})
<1> DEFINE t == Tail(s)
           L == Len(s)
<1>1. /\ s \in Seq(V) /\ L \in Nat \ {0} /\ DOMAIN s = 1..L
      /\ \A n \in 1..L : s[n] \in V
  BY DEF Enumerates
<1>2. /\ t \in Seq(V) /\ DOMAIN t = 1..(L - 1)
      /\ \A n \in 1..(L - 1) : t[n] = s[n + 1]
  BY <1>1
<1>3. \A m, n \in 1..L : <<s[m], s[n]>> \in R <=> m <= n
  BY <1>1 DEF Enumerates
<1> HIDE DEF t, L
<1>4. \A n \in 2..L : s[n] \in V \ {s[1]}
  <2> TAKE n \in 2..L
  <2>1. n \in 1..L /\ 1 \in 1..L /\ ~ (n <= 1)
    BY <1>1
  <2>2. <<s[n], s[1]>> \notin R /\ <<s[1], s[1]>> \in R
    BY <1>3, <2>1
  <2> QED
    BY <1>1, <2>1, <2>2
<1>5. \A n \in 1..(L - 1) : n + 1 \in 2..L /\ n + 1 \in 1..L /\ n \in Nat
  BY <1>1
<1>6. t \in Seq(V \ {s[1]})
  <2>1. t \in [1..(L - 1) -> V \ {s[1]}]
    BY <1>2, <1>4, <1>5
  <2>2. L - 1 \in Nat
    BY <1>1
  <2> QED
    BY <2>1, <2>2
<1>7. \A v \in V \ {s[1]} : \E n \in DOMAIN t : t[n] = v
  <2> TAKE v \in V \ {s[1]}
  <2>1. PICK n \in 1..L : s[n] = v
    BY <1>1 DEF Enumerates
  <2>2. n - 1 \in 1..(L - 1) /\ (n - 1) + 1 = n
    BY <1>1, <2>1
  <2> QED
    BY <1>2, <2>1, <2>2
<1>8. \A m, n \in DOMAIN t : <<t[m], t[n]>> \in Q <=> m <= n
  <2> TAKE m, n \in DOMAIN t
  <2>1. /\ t[m] = s[m + 1] /\ t[n] = s[n + 1]
        /\ t[m] \in V \ {s[1]} /\ t[n] \in V \ {s[1]}
        /\ m + 1 \in 1..L /\ n + 1 \in 1..L /\ m \in Nat /\ n \in Nat
    BY <1>2, <1>4, <1>5
  <2>2. <<t[m], t[n]>> \in Q <=> m + 1 <= n + 1
    BY <1>3, <2>1
  <2> QED
    BY <2>1, <2>2
<1>9. s[1] \in V
  BY <1>1
<1> QED
  BY <1>6, <1>7, <1>8, <1>9 DEF Enumerates, t

-----------------------------------------------------------------------------
(* The sequence ViewOrder under the operators on views.                    *)

LEMMA ViewOrderEnumerates ==
  ASSUME NEW w, Ordered(w.order, w.views), IsFiniteSet(w.views)
  PROVE  Enumerates(ViewOrder(w), w.order, w.views)
<1>1. ViewOrder(w) = Ranked(w.order, w.views)
  BY DEF ViewOrder, Ranked, Rank
<1> QED
  BY <1>1, RankedEnumerates

LEMMA ViewOrderUnique ==
  ASSUME NEW w, Ordered(w.order, w.views), NEW s,
         Enumerates(s, w.order, w.views)
  PROVE  s = ViewOrder(w)
<1>1. ViewOrder(w) = Ranked(w.order, w.views)
  BY DEF ViewOrder, Ranked, Rank
<1> QED
  BY <1>1, EnumerationUnique

\* _touch moves the dashboard to the end of the list.
LEMMA TouchOrder ==
  ASSUME NEW w \in Window, NEW i \in Ids, NEW V \in SUBSET Ids,
         Ordered(w.order, V)
  PROVE  \A x, y \in V \cup {i} :
           <<x, y>> \in Touch(w, i).order
             <=> y = i \/ (x # i /\ y # i /\ <<x, y>> \in w.order)
<1> DEFINE O == {p \in w.order : i # p[1] /\ i # p[2]}
                  \cup {<<v, i>> : v \in {u \in Ids : <<u, u>> \in w.order} \cup {i}}
<1>1. Touch(w, i).order = O
  BY DEF Touch, Window
<1>2. {u \in Ids : <<u, u>> \in w.order} = V
  BY DEF Ordered
<1>3. O = {p \in w.order : i # p[1] /\ i # p[2]} \cup {<<v, i>> : v \in V \cup {i}}
  BY <1>2
<1> HIDE DEF O
<1> QED
  BY <1>1, <1>3

LEMMA TouchEnumerates ==
  ASSUME NEW w \in Window, NEW i \in Ids, NEW V \in SUBSET Ids,
         Ordered(w.order, V), NEW s, Enumerates(s, w.order, V)
  PROVE  Enumerates(Append(Cache!Kept(s, Ids \ {i}), i),
                    Touch(w, i).order, V \cup {i})
<1> DEFINE O == Touch(w, i).order
           k == Cache!Kept(s, Ids \ {i})
<1>1. \A x, y \in V \cup {i} :
        <<x, y>> \in O <=> y = i \/ (x # i /\ y # i /\ <<x, y>> \in w.order)
  BY TouchOrder
<1> HIDE DEF O
<1>2. V \cap (Ids \ {i}) = V \ {i} /\ (V \ {i}) \cup {i} = V \cup {i}
  OBVIOUS
<1>3. Enumerates(k, O, V \ {i})
  <2>1. \A x, y \in V \cap (Ids \ {i}) : <<x, y>> \in O <=> <<x, y>> \in w.order
    BY <1>1
  <2>2. Enumerates(k, O, V \cap (Ids \ {i}))
    BY <2>1, KeptEnumerates
  <2> QED
    BY <1>2, <2>2
<1> HIDE DEF k
<1>4. Enumerates(Append(k, i), O, (V \ {i}) \cup {i})
  BY <1>1, <1>3, AppendEnumerates
<1> QED
  BY <1>2, <1>4 DEF O, k

\* _view_for, with the eviction of the page shown longest ago.
LEMMA ViewForOrder ==
  ASSUME NEW w \in Window, ViewsInv(w), HasCurrent(w), NEW i \in Ids,
         i = Current(w)
  PROVE  ViewOrder(ViewFor(w, i)) = Cache!Shown(ViewOrder(w), i)
<1> DEFINE V == w.views
           s == ViewOrder(w)
           m == Append(Cache!Kept(s, Ids \ {i}), i)
<1>1. /\ V \in SUBSET Ids /\ Ordered(w.order, V) /\ IsFiniteSet(V)
      /\ Cardinality(V) <= MaxLive /\ w.loading \subseteq V
      /\ MaxLive \in Nat \ {0}
  BY WindowAssumption
     DEF Window, ViewsInv, OrderOfViews, Listed, WithinLimit
<1>2. Enumerates(s, w.order, V)
  BY <1>1, ViewOrderEnumerates
<1>3. Cache!Shown(s, i) = IF Len(m) > MaxLive THEN Tail(m) ELSE m
  BY DEF Cache!Shown
<1>4. CASE i \in V
  <2> DEFINE n == Touch(w, i)
  <2>1. ViewFor(w, i) = n
    BY <1>4 DEF ViewFor
  <2>2. V \cup {i} = V
    BY <1>4
  <2>3. n.views = V /\ Ordered(n.order, V)
    BY <1>1, <2>2, TouchLemma
  <2>4. Enumerates(m, n.order, V)
    <3>1. Enumerates(m, n.order, V \cup {i})
      BY <1>1, <1>2, TouchEnumerates
    <3> HIDE DEF m, n
    <3> QED
      BY <2>2, <3>1
  <2> HIDE DEF n, m, s, V
  <2>5. m = ViewOrder(n)
    BY <2>3, <2>4, ViewOrderUnique
  <2>6. Len(m) = Cardinality(V) /\ Cardinality(V) \in Nat
    BY <1>1, <2>4, PlaceIsRank, FS_CardinalityType
  <2> QED
    BY <1>1, <1>3, <2>1, <2>5, <2>6 DEF s
<1>5. CASE i \notin V
  <2> DEFINE a == NewView(w, i)
             t == Touch(a, i)
  <2>1. a \in Window /\ Frame(a, w) /\ a.views = V \cup {i}
        /\ a.loading = w.loading \cup {i} /\ a.order = w.order
    BY DEF NewView, Window, Frame, PageState
  <2>2. ViewFor(w, i) = EvictSurplus(t)
    BY <1>5 DEF ViewFor
  <2> HIDE DEF a
  <2>3. /\ t \in Window /\ Frame(t, a) /\ t.views = V \cup {i}
        /\ t.loading = a.loading
        /\ Ordered(t.order, t.views)
        /\ \A v \in t.views : <<v, i>> \in t.order
    <3>1. /\ t \in Window /\ Frame(t, a) /\ t.views = a.views
          /\ t.loading = a.loading /\ Ordered(t.order, V \cup {i})
          /\ \A v \in V \cup {i} : <<v, i>> \in t.order
      BY <1>1, <2>1, TouchLemma
    <3> HIDE DEF t, V
    <3> QED
      BY <2>1, <3>1
  <2>4. Enumerates(m, t.order, t.views)
    <3>1. Ordered(a.order, V) /\ Enumerates(s, a.order, V)
      <4> HIDE DEF V, s
      <4> QED
        BY <1>1, <1>2, <2>1
    <3>2. Enumerates(m, t.order, V \cup {i})
      BY <1>1, <2>1, <3>1, TouchEnumerates
    <3> HIDE DEF m, t, V
    <3> QED
      BY <2>3, <3>2
  <2>5. t.loading \subseteq t.views
    BY <1>1, <2>1, <2>3
  <2>6. Evictable(t) = V
    <3>1. HasCurrent(t) /\ Current(t) = i
      BY <2>1, <2>3 DEF Frame, HasCurrent, Current
    <3> HIDE DEF t
    <3> QED
      BY <1>5, <2>3, <3>1 DEF Evictable, Ordered
  <2>7. IsFiniteSet(t.views) /\ Len(m) = Cardinality(t.views)
        /\ Cardinality(t.views) = Cardinality(V) + 1
    <3>1. IsFiniteSet(V \cup {i}) /\ Cardinality(V \cup {i}) = Cardinality(V) + 1
      BY <1>1, <1>5, FS_AddElement
    <3> HIDE DEF V, m, t
    <3> QED
      BY <2>3, <2>4, <3>1, PlaceIsRank
  <2>8. Cardinality(V) \in Nat
    BY <1>1, FS_CardinalityType
  <2>9. m \in Seq(t.views) /\ Len(m) \in Nat
    BY <2>4 DEF Enumerates
  <2> HIDE DEF V, s
  <2>10. CASE ~ (Len(m) > MaxLive)
    <3>1. EvictSurplus(t) = t
      BY <2>7, <2>10 DEF EvictSurplus
    <3>2. m = ViewOrder(t)
      BY <2>3, <2>4, ViewOrderUnique
    <3> QED
      BY <1>3, <2>2, <2>10, <3>1, <3>2 DEF s
  <2>11. CASE Len(m) > MaxLive
    <3> DEFINE v == Oldest(t, V)
               r == Release(t, {v})
    <3>1. V # {} /\ Cardinality(V) # 0
      <4>1. Cardinality(V) # 0
        BY <1>1, <2>7, <2>8, <2>11
      <4> QED
        BY <4>1, FS_EmptySet
    <3>2. EvictSurplus(t) = r
      BY <2>6, <2>7, <2>11, <3>1 DEF EvictSurplus
    <3>3. V \in SUBSET t.views
      BY <2>3
    <3>4. v \in V /\ \A u \in V : <<v, u>> \in t.order
      BY <1>1, <2>3, <3>1, <3>3, OldestExists
    <3>5. m # <<>> /\ 1 \in DOMAIN m /\ Len(m) \in DOMAIN m /\ m[Len(m)] = i
      <4>1. Len(m) # 0
        BY <2>7, <2>8
      <4>2. Cache!Kept(s, Ids \ {i}) \in Seq(V)
        <5>1. V \cap (Ids \ {i}) \subseteq V
          OBVIOUS
        <5>2. Enumerates(Cache!Kept(s, Ids \ {i}), w.order, V \cap (Ids \ {i}))
          BY <1>2, KeptEnumerates DEF V, s
        <5>3. Cache!Kept(s, Ids \ {i}) \in Seq(V \cap (Ids \ {i}))
          BY <5>2 DEF Enumerates
        <5> QED
          BY <5>1, <5>3
      <4>3. m[Len(m)] = i
        BY <4>2
      <4> HIDE DEF m
      <4> QED
        BY <2>9, <4>1, <4>3
    <3> HIDE DEF v, m, t
    <3>6. m[1] = v
      <4>1. \A x, y \in DOMAIN m : <<m[x], m[y]>> \in t.order <=> x <= y
        BY <2>4 DEF Enumerates
      <4>2. m[1] \in t.views /\ i \in t.views /\ v \in t.views
        BY <2>3, <2>9, <3>4, <3>5
      <4>3. m[1] # i
        <5>1. ~ (Len(m) <= 1)
          BY <1>1, <2>9, <2>11
        <5>2. <<m[Len(m)], m[1]>> \notin t.order
          BY <3>5, <4>1, <5>1
        <5> QED
          BY <2>3, <3>5, <4>2, <5>2
      <4>4. <<v, m[1]>> \in t.order
        BY <2>3, <3>4, <4>2, <4>3
      <4>5. <<m[1], v>> \in t.order
        <5>1. PICK y \in DOMAIN m : m[y] = v
          BY <2>4, <4>2 DEF Enumerates
        <5>2. 1 <= y
          BY <2>9
        <5> QED
          BY <3>5, <4>1, <5>1, <5>2
      <4> QED
        BY <2>3, <4>2, <4>4, <4>5 DEF Ordered
    <3>7. r.views = t.views \ {v} /\ Ordered(r.order, r.views)
      <4>1. {v} \in SUBSET Ids
        BY <1>1, <3>4
      <4>2. r = Release(t, {v})
        OBVIOUS
      <4> HIDE DEF r
      <4> QED
        BY <2>3, <2>5, <2>7, <4>1, <4>2, ReleaseLemma
    <3>8. \A x, y \in t.views \ {v} : <<x, y>> \in r.order <=> <<x, y>> \in t.order
      BY <2>3 DEF Release, Window
    <3> HIDE DEF r
    <3>9. Enumerates(Tail(m), r.order, t.views \ {v})
      BY <2>4, <3>5, <3>6, <3>8, TailEnumerates
    <3>10. Tail(m) = ViewOrder(r)
      BY <3>7, <3>9, ViewOrderUnique
    <3> QED
      BY <1>3, <2>2, <2>11, <3>2, <3>10 DEF s
  <2> QED
    BY <2>10, <2>11
<1> QED
  BY <1>4, <1>5

\* What ViewOrder and the list are made of.
SameCache(n, w) ==
  /\ n.dashboards = w.dashboards
  /\ n.views = w.views
  /\ n.order = w.order

LEMMA SameOrder ==
  ASSUME NEW w, NEW n, SameCache(n, w)
  PROVE  /\ ListIds(n.dashboards) = ListIds(w.dashboards)
         /\ ViewOrder(n) = ViewOrder(w)
BY DEF SameCache, ViewOrder

LEMMA NoneInOrder ==
  ASSUME NEW w, w.views = {}
  PROVE  ViewOrder(w) = <<>>
<1>1. Cardinality(w.views) = 0
  BY FS_EmptySet
<1>2. ViewOrder(w) \in [1..0 -> {}] /\ 1..0 = {}
  BY <1>1 DEF ViewOrder
<1>3. <<>> \in [1..0 -> {}]
  OBVIOUS
<1> QED
  BY <1>2, <1>3

LEMMA NoneKept ==
  ASSUME NEW S
  PROVE  Cache!Kept(<<>>, S) = <<>>
<1>1. Enumerates(<<>>, {}, {})
  BY DEF Enumerates
<1>2. Enumerates(Cache!Kept(<<>>, S), {}, {} \cap S)
  BY <1>1, KeptEnumerates
<1>3. Cache!Kept(<<>>, S) \in Seq({})
  BY <1>2 DEF Enumerates
<1> QED
  BY <1>3

\* show_index shows one of the dashboards and leaves the list as it is.
LEMMA ShowOrder ==
  ASSUME NEW w \in Window, ViewsInv(w), w.dashboards # <<>>, NEW index \in Int
  PROVE  LET n == ShowIndex(w, index)
         IN  \E i \in ListIds(w.dashboards) :
               ViewOrder(n) = Cache!Shown(ViewOrder(w), i)
<1> DEFINE L == Len(w.dashboards)
           k == index % L
           i == w.dashboards[k + 1]
           c == [w EXCEPT !.current = k]
           n == ViewFor(c, i)
           s == SyncLoading([n EXCEPT !.visible = i])
<1>1. w.dashboards \in Seq(Ids) /\ L \in Nat \ {0}
  BY DEF Window
<1>2. k \in 0..(L - 1)
  <2> HIDE DEF L
  <2> QED
    BY <1>1
<1> HIDE DEF k
<1>3. k \in Int /\ k + 1 \in DOMAIN w.dashboards
  BY <1>1, <1>2
<1>4. i \in Ids /\ i \in ListIds(w.dashboards)
  BY <1>1, <1>3 DEF ListIds
<1>5. ShowIndex(w, index) = s
  BY DEF ShowIndex, k
<1>6. /\ c \in Window /\ c.current = k /\ SameCache(c, w)
      /\ c.loading = w.loading
  BY <1>3 DEF Window, SameCache
<1> HIDE DEF c
<1>7. ViewsInv(c) /\ HasCurrent(c) /\ Current(c) = i
  BY <1>2, <1>6, <1>3
     DEF ViewsInv, OrderOfViews, Listed, WithinLimit, HasCurrent, Current, SameCache
<1>8. ViewOrder(n) = Cache!Shown(ViewOrder(c), i) /\ n \in Window
  BY <1>4, <1>6, <1>7, ViewForOrder, ViewForLemma DEF SameCache
<1> HIDE DEF n, i
<1>9. SameCache(s, n)
  BY <1>8 DEF SyncLoading, Window, SameCache
<1> HIDE DEF s
<1> QED
  BY <1>4, <1>5, <1>6, <1>8, <1>9, SameOrder

\* _drop_stale_views keeps what is still allowed, in its order.
LEMMA DropOrder ==
  ASSUME NEW w \in Window, Ordered(w.order, w.views), IsFiniteSet(w.views),
         w.loading \subseteq w.views, NEW S
  PROVE  ViewOrder(DropStaleViews(w, S)) = Cache!Kept(ViewOrder(w), S)
<1> DEFINE V == w.views
           n == Release(w, V \ S)
<1>1. V \ S \in SUBSET Ids /\ V \ (V \ S) = V \cap S
  BY DEF Window
<1>2. n.views = V \ (V \ S) /\ Ordered(n.order, n.views)
  BY <1>1, ReleaseLemma
<1>3. n.views = V \cap S
  BY <1>1, <1>2
<1>4. \A x, y \in V \cap S : <<x, y>> \in n.order <=> <<x, y>> \in w.order
  BY DEF Release, Window
<1>5. DropStaleViews(w, S) = n
  BY DEF DropStaleViews
<1> HIDE DEF n
<1>6. Enumerates(Cache!Kept(ViewOrder(w), S), n.order, V \cap S)
  BY <1>4, ViewOrderEnumerates, KeptEnumerates
<1>7. Enumerates(Cache!Kept(ViewOrder(w), S), n.order, n.views)
  <2> HIDE DEF V
  <2> QED
    BY <1>3, <1>6
<1> QED
  BY <1>2, <1>5, <1>7, ViewOrderUnique

\* set_dashboards: nothing is left, or what is still allowed and one shown.
LEMMA SetDashboardsOrder ==
  ASSUME NEW w, WindowInv(w), ~ w.needsSetup, NEW list \in Seq(Ids)
  PROVE  LET n == SetDashboards(w, list)
         IN  IF list = <<>>
               THEN ViewOrder(n) = <<>>
               ELSE \E i \in ListIds(list) :
                      ViewOrder(n)
                        = Cache!Shown(Cache!Kept(ViewOrder(w), ListIds(list)), i)
<1> DEFINE a == AssignList(w, list)
           d == DropStaleViews(a, ListIds(list))
           n == SetDashboards(w, list)
<1>1. WindowInv(n) /\ n.dashboards = list
  BY SetDashboardsKeeps
<1>2. /\ w \in Window /\ Ordered(w.order, w.views) /\ IsFiniteSet(w.views)
      /\ Cardinality(w.views) <= MaxLive /\ w.loading \subseteq w.views
  BY DEF WindowInv, ViewsInv, OrderOfViews, Listed, WithinLimit
<1>3. /\ a \in Window /\ a.dashboards = list /\ a.views = w.views
      /\ a.order = w.order /\ a.loading = w.loading
  BY <1>2, AssignListLemma
<1>4. CASE list = <<>>
  <2>1. n.views = {}
    BY <1>1, <1>4 DEF WindowInv, OnScreen
  <2> QED
    BY <1>4, <2>1, NoneInOrder
<1>5. CASE list # <<>>
  <2>1. \E index \in Int : n = ShowIndex(d, index)
    <3>1. ASSUME HasCurrent(w), Current(w) \in ListIds(list)
          PROVE  FirstIndex(list, Current(w)) \in Int
      BY <3>1, FirstIndexExists
    <3> QED
      BY <1>5, <3>1 DEF SetDashboards
  <2> HIDE DEF a, n
  <2>2. ViewOrder(d) = Cache!Kept(ViewOrder(w), ListIds(list))
    <3>1. ViewOrder(a) = ViewOrder(w)
      BY <1>3 DEF ViewOrder
    <3>2. ViewOrder(d) = Cache!Kept(ViewOrder(a), ListIds(list))
      BY <1>2, <1>3, DropOrder
    <3> QED
      BY <3>1, <3>2
  <2>3. d \in Window /\ ViewsInv(d) /\ d.dashboards = list
    <3>1. a.views \ ListIds(list) \in SUBSET Ids
      BY <1>3 DEF Window
    <3>2. d = Release(a, a.views \ ListIds(list))
      BY DEF DropStaleViews
    <3> HIDE DEF d
    <3>3. /\ d \in Window /\ Frame(d, a)
          /\ d.views = a.views \ (a.views \ ListIds(list))
          /\ d.loading \subseteq d.views /\ Ordered(d.order, d.views)
          /\ IsFiniteSet(d.views) /\ Cardinality(d.views) <= Cardinality(a.views)
      BY <1>2, <1>3, <3>1, <3>2, ReleaseLemma
    <3>4. Cardinality(d.views) <= MaxLive
      <4>1. /\ Cardinality(d.views) \in Nat /\ Cardinality(w.views) \in Nat
            /\ MaxLive \in Nat
        BY <1>2, <3>3, FS_CardinalityType, WindowAssumption
      <4> QED
        BY <1>2, <1>3, <3>3, <4>1
    <3> QED
      BY <1>3, <3>3, <3>4
         DEF ViewsInv, OrderOfViews, Listed, WithinLimit, Frame
  <2> HIDE DEF d
  <2> QED
    BY <1>5, <2>1, <2>2, <2>3, ShowOrder DEF n
<1> QED
  BY <1>4, <1>5

-----------------------------------------------------------------------------
(* Steps of ViewCache.                                                     *)

\* From window w to window n, ViewCache takes a step or none.
Stays(w, n) ==
  ListIds(n.dashboards) = ListIds(w.dashboards) /\ ViewOrder(n) = ViewOrder(w)

Shows(w, n) ==
  /\ ListIds(n.dashboards) = ListIds(w.dashboards)
  /\ \E i \in ListIds(w.dashboards) :
       ViewOrder(n) = Cache!Shown(ViewOrder(w), i)

Restricts(w, n) ==
  /\ ListIds(n.dashboards) \subseteq Ids
  /\ \E i \in ListIds(n.dashboards) :
       ViewOrder(n)
         = Cache!Shown(Cache!Kept(ViewOrder(w), ListIds(n.dashboards)), i)

Begins(w, n) ==
  /\ ViewOrder(w) = <<>>
  /\ ListIds(n.dashboards) \subseteq Ids
  /\ \E i, j \in ListIds(n.dashboards) :
       ViewOrder(n) = Cache!Shown(Cache!Shown(<<>>, i), j)

Withdraws(n) == ListIds(n.dashboards) = {} /\ ViewOrder(n) = <<>>

CacheStep(w, n) ==
  Stays(w, n) \/ Shows(w, n) \/ Restricts(w, n) \/ Begins(w, n) \/ Withdraws(n)

LEMMA ShowStep ==
  ASSUME NEW w, WindowInv(w), NEW index \in Int
  PROVE  Stays(w, ShowIndex(w, index)) \/ Shows(w, ShowIndex(w, index))
<1>1. CASE w.dashboards = <<>>
  BY <1>1 DEF ShowIndex, Stays
<1>2. CASE w.dashboards # <<>>
  <2>1. ShowIndex(w, index).dashboards = w.dashboards
    BY ShowKeeps DEF SameList
  <2>2. w \in Window /\ ViewsInv(w)
    BY DEF WindowInv
  <2> QED
    BY <1>2, <2>1, <2>2, ShowOrder DEF Shows
<1> QED
  BY <1>1, <1>2

\* _apply is one step: a restriction, a beginning with one or two dashboards
\* shown, a withdrawal of all, or nothing while the setup screen is up.
LEMMA ApplyListStep ==
  ASSUME NEW w, WindowInv(w), NEW list \in Seq(Ids), NEW wanted
  PROVE  CacheStep(w, ApplyList(w, list, wanted))
<1> DEFINE s == SetDashboards(w, list)
           n == SelectStart(s, wanted)
<1>1. ListIds(list) \subseteq Ids
  BY DEF ListIds
<1>2. CASE w.needsSetup
  <2>1. w.dashboards = <<>> /\ s = w
    BY <1>2 DEF WindowInv, OnScreen, SetDashboards
  <2>2. n = w
    BY <2>1 DEF SelectStart, ListIds
  <2> QED
    BY <2>1, <2>2 DEF ApplyList, CacheStep, Stays
<1>3. CASE ~ w.needsSetup
  <2>1. WindowInv(s) /\ s.dashboards = list
    BY <1>3, SetDashboardsKeeps
  <2>2. CASE list = <<>>
    <3>1. ViewOrder(s) = <<>> /\ ListIds(s.dashboards) = {}
      <4>1. ViewOrder(s) = <<>>
        BY <1>3, <2>2, SetDashboardsOrder
      <4> HIDE DEF s
      <4> QED
        BY <2>1, <2>2, <4>1 DEF ListIds
    <3>2. n = s
      BY <3>1 DEF SelectStart
    <3> QED
      BY <3>1, <3>2 DEF ApplyList, CacheStep, Withdraws
  <2>3. CASE list # <<>>
    <3>1. PICK i \in ListIds(list) :
            ViewOrder(s)
              = Cache!Shown(Cache!Kept(ViewOrder(w), ListIds(list)), i)
      BY <1>3, <2>3, SetDashboardsOrder
    <3>2. Restricts(w, s)
      BY <1>1, <2>1, <3>1 DEF Restricts
    <3>3. CASE w.dashboards # <<>> \/ wanted \notin ListIds(s.dashboards)
      BY <3>2, <3>3 DEF ApplyList, SelectStart, CacheStep
    <3>4. CASE w.dashboards = <<>> /\ wanted \in ListIds(s.dashboards)
      <4>1. w.views = {}
        BY <3>4 DEF WindowInv, OnScreen
      <4>2. ViewOrder(w) = <<>> /\ ViewOrder(s) = Cache!Shown(<<>>, i)
        BY <3>1, <4>1, NoneInOrder, NoneKept
      <4>3. FirstIndex(list, wanted) \in Int
        BY <2>1, <3>4, FirstIndexExists
      <4> HIDE DEF s
      <4>4. n = ShowIndex(s, FirstIndex(list, wanted))
        BY <2>1, <3>4 DEF SelectStart
      <4> HIDE DEF n
      <4>5. n.dashboards = list
        BY <2>1, <4>3, <4>4, ShowKeeps DEF SameList
      <4>6. PICK j \in ListIds(list) : ViewOrder(n) = Cache!Shown(ViewOrder(s), j)
        BY <2>1, <2>3, <4>3, <4>4, ShowOrder DEF WindowInv
      <4>7. Begins(w, n)
        BY <1>1, <4>2, <4>5, <4>6 DEF Begins
      <4> QED
        BY <3>4, <4>7 DEF ApplyList, CacheStep, n, s
    <3> QED
      BY <3>3, <3>4
  <2> QED
    BY <2>2, <2>3
<1> QED
  BY <1>2, <1>3

\* The chooser, the toast and the overlays are no step; a key that shows a
\* dashboard is one.
LEMMA ToastStep ==
  ASSUME NEW w, NEW n \in Window, CacheStep(w, n)
  PROVE  CacheStep(w, Toast(n))
<1>1. SameCache(Toast(n), n)
  BY DEF Toast, Window, SameCache
<1>2. ListIds(Toast(n).dashboards) = ListIds(n.dashboards)
      /\ ViewOrder(Toast(n)) = ViewOrder(n)
  BY <1>1, SameOrder
<1> QED
  BY <1>2 DEF CacheStep, Stays, Shows, Restricts, Begins, Withdraws

LEMMA AfterStays ==
  ASSUME NEW w, NEW m, Stays(w, m), NEW n, CacheStep(m, n)
  PROVE  CacheStep(w, n)
BY DEF CacheStep, Stays, Shows, Restricts, Begins, Withdraws

LEMMA SurfaceStays ==
  ASSUME NEW w, NEW n, SameSurface(n, w)
  PROVE  Stays(w, n)
BY SameOrder DEF SameSurface, SameCache, Stays

LEMMA ChooserStays ==
  ASSUME NEW w, WindowInv(w), NEW delta \in Int
  PROVE  /\ Stays(w, MenuClose(w))
         /\ Stays(w, MenuOpen(w))
         /\ Stays(w, MenuMove(w, delta))
<1>1. w \in Window /\ w.current \in Int /\ w.selected \in Int
  BY DEF WindowInv, Window
<1>2. SameSurface(w, w)
  BY DEF SameSurface
<1>3. Stays(w, MenuClose(w))
  BY MenuCloseKeeps, SurfaceStays
<1>4. Stays(w, MenuOpen(w))
  <2> DEFINE m == Select(w, w.current)
  <2>1. m \in Window /\ SameSurface(m, w)
    BY <1>1, SelectLemma
  <2>2. MenuOpen(w) = w \/ MenuOpen(w) = [m EXCEPT !.menuOpen = TRUE]
    BY DEF MenuOpen
  <2> HIDE DEF m
  <2>3. SameSurface([m EXCEPT !.menuOpen = TRUE], w)
    BY <2>1 DEF Window, SameSurface
  <2> QED
    BY <1>2, <2>2, <2>3, SurfaceStays
<1>5. Stays(w, MenuMove(w, delta))
  <2>1. CASE w.dashboards = <<>>
    BY <1>2, <2>1, SurfaceStays DEF MenuMove
  <2>2. CASE w.dashboards # <<>>
    <3> DEFINE L == Len(w.dashboards)
               k == (w.selected + delta) % L
    <3>1. L \in Nat \ {0}
      BY <1>1, <2>2 DEF Window
    <3> HIDE DEF L
    <3>2. k \in Int
      BY <1>1, <3>1
    <3>3. MenuMove(w, delta) = Select(w, k)
      BY <2>2 DEF MenuMove, L
    <3> HIDE DEF k
    <3> QED
      BY <1>1, <3>2, <3>3, SelectLemma, SurfaceStays
  <2> QED
    BY <2>1, <2>2
<1> QED
  BY <1>3, <1>4, <1>5

LEMMA ActivateStep ==
  ASSUME NEW w, WindowInv(w), NEW index \in Int
  PROVE  CacheStep(w, MenuActivate(w, index))
<1>1. WindowInv(MenuClose(w)) /\ Stays(w, MenuClose(w))
  BY MenuCloseKeeps, SurfaceStays
<1>2. CacheStep(MenuClose(w), ShowIndex(MenuClose(w), index))
  BY <1>1, ShowStep DEF CacheStep
<1> QED
  BY <1>1, <1>2, AfterStays DEF MenuActivate

\* handle_action: at most one dashboard is shown for a key.
LEMMA KeysStep ==
  ASSUME NEW w, WindowInv(w), NEW delta \in Int, NEW digit \in 0..9
  PROVE  /\ CacheStep(w, MenuToggle(w))
         /\ CacheStep(w, MenuClose(w))
         /\ CacheStep(w, MenuStep(w, delta))
         /\ CacheStep(w, Activate(w))
         /\ CacheStep(w, Step(w, delta))
         /\ CacheStep(w, JumpToDigit(w, digit))
         /\ CacheStep(w, ReloadCurrent(w))
<1>1. w \in Window /\ w.current \in Int /\ w.selected \in Int
  BY DEF WindowInv, Window
<1>2. /\ CacheStep(w, w) /\ CacheStep(w, MenuClose(w))
      /\ CacheStep(w, MenuOpen(w)) /\ CacheStep(w, MenuMove(w, delta))
  BY ChooserStays DEF CacheStep, Stays
<1>3. CacheStep(w, MenuToggle(w)) /\ CacheStep(w, MenuStep(w, delta))
  BY <1>2 DEF MenuToggle, MenuStep
<1>4. CacheStep(w, Activate(w))
  BY <1>1, <1>2, ActivateStep DEF Activate
<1>5. CacheStep(w, Step(w, delta))
  <2>1. WindowInv(ShowIndex(w, w.current + delta))
        /\ CacheStep(w, ShowIndex(w, w.current + delta))
    BY <1>1, ShowKeeps, ShowStep DEF CacheStep
  <2>2. CacheStep(w, Toast(ShowIndex(w, w.current + delta)))
    BY <2>1, ToastStep DEF WindowInv
  <2> QED
    BY <1>2, <2>2 DEF Step
<1>6. CacheStep(w, JumpToDigit(w, digit))
  <2> DEFINE index == IF digit > 0 THEN digit - 1 ELSE 9
             n == MenuActivate(w, index)
  <2>1. index \in Int
    OBVIOUS
  <2>2. JumpToDigit(w, digit) = w \/ JumpToDigit(w, digit) = Toast(n)
    BY DEF JumpToDigit, MenuActivate
  <2> HIDE DEF index
  <2>3. WindowInv(n) /\ CacheStep(w, n)
    BY <2>1, MenuActivateKeeps, ActivateStep
  <2> HIDE DEF n
  <2>4. CacheStep(w, Toast(n))
    BY <2>3, ToastStep DEF WindowInv
  <2> QED
    BY <1>2, <2>2, <2>4
<1>7. CacheStep(w, ReloadCurrent(w))
  <2>1. CacheStep(w, Toast(w))
    BY <1>1, <1>2, ToastStep
  <2> QED
    BY <1>2, <2>1 DEF ReloadCurrent
<1> QED
  BY <1>2, <1>3, <1>4, <1>5, <1>6, <1>7

LEMMA SignalsStay ==
  ASSUME NEW w \in Window, NEW i \in w.views
  PROVE  /\ Stays(w, OnLoadStarted(w, i))
         /\ Stays(w, OnLoadFinished(w, i))
         /\ Stays(w, OnLoadFailed(w, i))
<1>1. SameCache(OnLoadStarted(w, i), w)
  BY DEF OnLoadStarted, SyncLoading, Window, SameCache
<1>2. SameCache(OnLoadFinished(w, i), w)
  BY DEF OnLoadFinished, SyncLoading, Window, SameCache
<1>3. SameCache(OnLoadFailed(w, i), w)
  BY DEF OnLoadFailed, SyncLoading, Toast, Window, SameCache
<1> QED
  BY <1>1, <1>2, <1>3, SameOrder DEF Stays

LEMMA LeaveSetupStays ==
  ASSUME NEW w \in Window
  PROVE  Stays(w, LeaveSetup(w))
<1>1. SameCache(LeaveSetup(w), w)
  BY DEF LeaveSetup, Window, SameCache
<1> QED
  BY <1>1, SameOrder DEF Stays

LEMMA NextStep ==
  ASSUME WindowInv(win), [Next]_win
  PROVE  CacheStep(win, win')
<1>1. CASE Apply
  BY <1>1, ApplyListStep, WindowAssumption DEF Apply
<1>2. CASE SetupDone
  BY <1>2, LeaveSetupStays DEF SetupDone, WindowInv, CacheStep
<1>3. CASE KeyMenu
  <2>1. 1 \in Int /\ -1 \in Int /\ 0 \in 0..9
    OBVIOUS
  <2> QED
    BY <1>3, <2>1, KeysStep DEF KeyMenu
<1>4. CASE KeyShow
  <2>1. 1 \in Int /\ -1 \in Int /\ 0 \in Int /\ 0 \in 0..9
    OBVIOUS
  <2>2. \A n \in {Step(win, 1), Step(win, -1), ReloadCurrent(win),
                  ShowIndex(win, 0)} : CacheStep(win, n)
    BY <2>1, KeysStep, ShowStep DEF CacheStep
  <2>3. \A digit \in 0..9 : CacheStep(win, JumpToDigit(win, digit))
    BY <2>1, KeysStep
  <2> QED
    BY <1>4, <2>2, <2>3 DEF KeyShow
<1>5. CASE RowActivated
  <2>1. PICK k \in DOMAIN win.dashboards : win' = MenuActivate(win, k - 1)
    BY <1>5 DEF RowActivated
  <2>2. k - 1 \in Int
    BY DEF WindowInv, Window
  <2> QED
    BY <2>1, <2>2, ActivateStep
<1>6. CASE KeyChrome \/ HideToast
  <2>1. SameCache(win', win)
    BY <1>6 DEF KeyChrome, HideToast, WindowInv, Window, SameCache
  <2> QED
    BY <2>1, SameOrder DEF Stays, CacheStep
<1>7. CASE LoadStarted \/ LoadFinished \/ LoadFailed
  BY <1>7, SignalsStay
     DEF LoadStarted, LoadFinished, LoadFailed, WindowInv, CacheStep
<1>8. CASE win' = win
  BY <1>8 DEF Stays, CacheStep
<1> QED
  BY <1>1, <1>2, <1>3, <1>4, <1>5, <1>6, <1>7, <1>8 DEF Next

\* CacheStep says what it is meant to.
LEMMA CacheStepImplements ==
  ASSUME CacheStep(win, win')
  PROVE  Cache!Next \/ UNCHANGED <<ListIds(win.dashboards), ViewOrder(win)>>
<1>1. /\ ListIds(win.dashboards)' = ListIds(win'.dashboards)
      /\ ViewOrder(win)' = ViewOrder(win')
  BY DEF ListIds, ViewOrder
<1>2. CASE Stays(win, win')
  BY <1>1, <1>2 DEF Stays
<1>3. CASE Shows(win, win')
  BY <1>1, <1>3 DEF Shows, Cache!Next, Cache!Show
<1>4. CASE Restricts(win, win')
  BY <1>1, <1>4 DEF Restricts, Cache!Next, Cache!Restrict
<1>5. CASE Begins(win, win')
  BY <1>1, <1>5 DEF Begins, Cache!Next, Cache!Begin
<1>6. CASE Withdraws(win')
  BY <1>1, <1>6 DEF Withdraws, Cache!Next, Cache!WithdrawAll
<1> QED
  BY <1>2, <1>3, <1>4, <1>5, <1>6 DEF CacheStep

-----------------------------------------------------------------------------
\* The live pages are, at all times and for any limit, those of the last
\* max_live_views distinct dashboards shown and still allowed, and the page
\* given up is the one shown longest ago (_touch, _evict_surplus,
\* _drop_stale_views).
THEOREM WindowImplementsCache == Spec => ImplementsViewCache
<1> DEFINE allowed == ListIds(win.dashboards)
           recent == ViewOrder(win)
<1>1. Init => Cache!Init
  <2> SUFFICES ASSUME Init PROVE Cache!Init
    OBVIOUS
  <2>1. win.dashboards = <<>> /\ win.views = {}
    BY DEF Init, NewWindow
  <2>2. ListIds(win.dashboards) = {}
    BY <2>1 DEF ListIds
  <2> QED
    BY <2>1, <2>2, NoneInOrder DEF Cache!Init
<1>2. IInv /\ [Next]_win => [Cache!Next]_<<allowed, recent>>
  BY NextStep, CacheStepImplements DEF IInv
<1> QED
  BY <1>1, <1>2, WindowInvariant, PTL DEF Spec, ImplementsViewCache, Cache!Spec
=============================================================================
