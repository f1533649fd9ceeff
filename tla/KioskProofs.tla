----------------------------- MODULE KioskProofs -----------------------------
(***************************************************************************)
(* Kiosk for any dashboards, payloads, keys and interval: the sort and the *)
(* cache first, then the window under every key, and the carousel's clock  *)
(* against the viewer's choice.                                            *)
(***************************************************************************)
EXTENDS KioskPages, KioskViewCacheProofs

-----------------------------------------------------------------------------
(* sort_dashboards.                                                        *)

\* Before is a strict and total order of the entries that are used.
LEMMA BeforeOrders ==
  ASSUME NEW p \in Payload
  PROVE  LET U == Usable(p)
         IN  /\ \A j \in U : ~ Before(p, j, j)
             /\ \A j, k \in U : j # k => Before(p, j, k) \/ Before(p, k, j)
             /\ \A j, k \in U : Before(p, j, k) => ~ Before(p, k, j)
             /\ \A i, j, k \in U :
                  Before(p, i, j) /\ Before(p, j, k) => Before(p, i, k)
<1> DEFINE U == Usable(p)
<1>1. \A k \in U : k \in Nat /\ p.entries[k].name \in Nat
                   /\ Order(p.entries[k]) \in Int
  <2> TAKE k \in U
  <2>1. k \in Nat /\ p.entries[k] \in Entry
    BY DEF Usable, Payload
  <2> QED
    BY <2>1 DEF Entry, Order
<1> HIDE DEF U
<1> QED
  BY <1>1 DEF Before, U

LEMMA UsableFinite ==
  ASSUME NEW p \in Payload
  PROVE  IsFiniteSet(Usable(p)) /\ Cardinality(Usable(p)) \in Nat
<1>1. Len(p.entries) \in Nat /\ Usable(p) \subseteq 1..Len(p.entries)
  BY DEF Payload, Usable
<1>2. IsFiniteSet(1..Len(p.entries))
  BY <1>1, FS_Interval
<1> QED
  BY <1>1, <1>2, FS_Subset, FS_CardinalityType

\* The sorted list holds the entries that are used, in order.
LEMMA SortedLemma ==
  ASSUME NEW p \in Payload
  PROVE  LET U == Usable(p)
             N == Cardinality(U)
         IN  \E at \in [1..N -> U] :
               /\ Sorted(p) = [n \in 1..N |-> p.entries[at[n]]]
               /\ \A m, n \in 1..N : m < n => Before(p, at[m], at[n])
<1> DEFINE U == Usable(p)
           N == Cardinality(U)
           Down(k) == {j \in U : Before(p, j, k)}
           rank == [k \in U |-> Cardinality(Down(k))]
           at == [n \in 1..N |-> CHOOSE k \in U : Cardinality(Down(k)) = n - 1]
<1>1. IsFiniteSet(U) /\ N \in Nat
  BY UsableFinite
<1>2. /\ \A j \in U : ~ Before(p, j, j)
      /\ \A j, k \in U : j # k => Before(p, j, k) \/ Before(p, k, j)
      /\ \A i, j, k \in U :
           Before(p, i, j) /\ Before(p, j, k) => Before(p, i, k)
  BY BeforeOrders
<1> HIDE DEF U
<1>3. \A k \in U : IsFiniteSet(Down(k)) /\ Cardinality(Down(k)) \in Nat
  <2> TAKE k \in U
  <2>1. Down(k) \in SUBSET U
    OBVIOUS
  <2> HIDE DEF Down
  <2> QED
    BY <1>1, <2>1, FS_Subset, FS_CardinalityType
<1>4. \A k \in U : Cardinality(Down(k)) + 1 <= N
  <2> TAKE k \in U
  <2>1. Down(k) \cup {k} \in SUBSET U /\ k \notin Down(k)
    BY <1>2
  <2> HIDE DEF Down
  <2>2. Cardinality(Down(k) \cup {k}) = Cardinality(Down(k)) + 1
    BY <1>3, <2>1, FS_AddElement
  <2>3. Cardinality(Down(k) \cup {k}) <= N
    BY <1>1, <2>1, FS_Subset
  <2> QED
    BY <2>2, <2>3
<1>5. \A j, k \in U : Before(p, j, k) => Cardinality(Down(j)) < Cardinality(Down(k))
  <2> TAKE j, k \in U
  <2> HAVE Before(p, j, k)
  <2>1. Down(j) \cup {j} \in SUBSET Down(k) /\ j \notin Down(j)
    BY <1>2
  <2> HIDE DEF Down
  <2>2. Cardinality(Down(j) \cup {j}) = Cardinality(Down(j)) + 1
    BY <1>3, <2>1, FS_AddElement
  <2>3. Cardinality(Down(j) \cup {j}) <= Cardinality(Down(k))
    BY <1>3, <2>1, FS_Subset
  <2> QED
    BY <1>3, <2>2, <2>3
<1> HIDE DEF Down
<1>6. rank \in [U -> 0..(N - 1)]
  BY <1>1, <1>3, <1>4
<1>7. \A j, k \in U : rank[j] = rank[k] => j = k
  BY <1>2, <1>3, <1>5
<1>8. IsFiniteSet(0..(N - 1)) /\ Cardinality(0..(N - 1)) = N
  BY <1>1, FS_Interval
<1>9. rank \in Injection(U, 0..(N - 1))
  <2> HIDE DEF rank, N
  <2> QED
    BY <1>6, <1>7, Fun_IsInj
<1>10. rank \in Surjection(U, 0..(N - 1))
  <2> HIDE DEF rank
  <2> QED
    BY <1>1, <1>8, <1>9, FS_Injection
<1>11. \A r \in 0..(N - 1) : \E k \in U : rank[k] = r
  <2> HIDE DEF rank, N
  <2> QED
    BY <1>10, Fun_SurjectionProperties
<1>12. \A n \in 1..N : at[n] \in U /\ Cardinality(Down(at[n])) = n - 1
  <2> TAKE n \in 1..N
  <2>1. n - 1 \in 0..(N - 1)
    BY <1>1
  <2>2. \E k \in U : Cardinality(Down(k)) = n - 1
    BY <1>11, <2>1
  <2> QED
    BY <2>2
<1>13. at \in [1..N -> U]
  BY <1>12
<1>14. \A m, n \in 1..N : m < n => Before(p, at[m], at[n])
  <2> TAKE m, n \in 1..N
  <2> HAVE m < n
  <2>1. /\ at[m] \in U /\ Cardinality(Down(at[m])) = m - 1
        /\ at[n] \in U /\ Cardinality(Down(at[n])) = n - 1
    BY <1>12
  <2>2. m \in Int /\ n \in Int
    BY <1>1
  <2> HIDE DEF at
  <2> QED
    BY <1>2, <1>5, <2>1, <2>2
<1>15. Sorted(p) = [n \in 1..N |-> p.entries[at[n]]]
  BY DEF Sorted, Down, U
<1> QED
  BY <1>13, <1>14, <1>15 DEF U

\* What is shown is a stable sort: every entry that is used is listed once,
\* by order, then by name, and entries that have both in common stay in the
\* sequence in which the server sent them (sort_dashboards).
THEOREM SortIsStable ==
  ASSUME NEW p \in Payload
  PROVE  LET N == Cardinality(Usable(p))
             s == Sorted(p)
         IN  \E at \in Bijection(1..N, Usable(p)) :
               /\ s = [n \in 1..N |-> p.entries[at[n]]]
               /\ \A m, n \in 1..N : m < n =>
                    /\ Order(s[m]) <= Order(s[n])
                    /\ Order(s[m]) = Order(s[n]) => s[m].name <= s[n].name
                    /\ Order(s[m]) = Order(s[n]) /\ s[m].name = s[n].name
                         => at[m] < at[n]
<1> DEFINE U == Usable(p)
           N == Cardinality(U)
           s == Sorted(p)
<1>1. IsFiniteSet(U) /\ N \in Nat
  BY UsableFinite
<1>2. PICK at \in [1..N -> U] :
        /\ s = [n \in 1..N |-> p.entries[at[n]]]
        /\ \A m, n \in 1..N : m < n => Before(p, at[m], at[n])
  BY SortedLemma
<1>3. \A j \in U : ~ Before(p, j, j)
  BY BeforeOrders
<1>4. \A k \in U : Order(p.entries[k]) \in Int /\ p.entries[k].name \in Nat
  <2> TAKE k \in U
  <2>1. p.entries[k] \in Entry
    BY DEF Usable, Payload
  <2> QED
    BY <2>1 DEF Entry, Order
<1> HIDE DEF U, s
<1>5. \A m, n \in 1..N : at[m] = at[n] => m = n
  <2> TAKE m, n \in 1..N
  <2>1. m \in Int /\ n \in Int /\ at[m] \in U /\ at[n] \in U
    BY <1>1, <1>2
  <2> HIDE DEF N
  <2> QED
    BY <1>2, <1>3, <2>1
<1>6. at \in Bijection(1..N, U)
  <2>1. IsFiniteSet(1..N) /\ Cardinality(1..N) = N
    BY <1>1, FS_Interval
  <2>2. at \in Injection(1..N, U)
    BY <1>2, <1>5, Fun_IsInj
  <2>3. at \in Surjection(1..N, U)
    BY <1>1, <2>1, <2>2, FS_Injection
  <2> QED
    BY <2>2, <2>3 DEF Bijection
<1>7. \A m, n \in 1..N : m < n =>
        /\ Order(s[m]) <= Order(s[n])
        /\ Order(s[m]) = Order(s[n]) => s[m].name <= s[n].name
        /\ Order(s[m]) = Order(s[n]) /\ s[m].name = s[n].name => at[m] < at[n]
  <2> HIDE DEF N
  <2> TAKE m, n \in 1..N
  <2> HAVE m < n
  <2>1. Before(p, at[m], at[n]) /\ s[m] = p.entries[at[m]] /\ s[n] = p.entries[at[n]]
    BY <1>2
  <2>2. /\ Order(s[m]) \in Int /\ s[m].name \in Nat
        /\ Order(s[n]) \in Int /\ s[n].name \in Nat
    BY <1>2, <1>4, <2>1
  <2> QED
    BY <2>1, <2>2 DEF Before
<1> QED
  BY <1>2, <1>6, <1>7 DEF U, s

LEMMA ListOfType ==
  ASSUME NEW p \in Payload
  PROVE  /\ Sorted(p) \in Seq(Entry)
         /\ Len(Sorted(p)) = Cardinality(Usable(p))
         /\ DOMAIN Sorted(p) = 1..Cardinality(Usable(p))
         /\ \A n \in DOMAIN Sorted(p) : Sorted(p)[n].id \in Ids
         /\ ListOf(p) \in Seq(Ids)
<1> DEFINE U == Usable(p)
           N == Cardinality(U)
           s == Sorted(p)
<1>1. N \in Nat
  BY UsableFinite
<1>2. \A k \in U : p.entries[k] \in Entry /\ p.entries[k].id \in Ids
  <2> TAKE k \in U
  <2>1. p.entries[k] \in Entry /\ p.entries[k].id # NoId
    BY DEF Usable, Payload
  <2> QED
    BY <2>1 DEF Entry
<1>3. PICK at \in [1..N -> U] : s = [n \in 1..N |-> p.entries[at[n]]]
  BY SortedLemma
<1>4. DOMAIN s = 1..N /\ \A n \in 1..N : s[n] \in Entry /\ s[n].id \in Ids
  BY <1>2, <1>3
<1> HIDE DEF U, N, s
<1>5. s \in [1..N -> Entry]
  BY <1>3, <1>4
<1>6. [n \in DOMAIN s |-> s[n].id] \in [1..N -> Ids]
  BY <1>4
<1> QED
  BY <1>1, <1>4, <1>5, <1>6 DEF ListOf, s, N, U

\* What ConfigCache.load makes of what ConfigCache.save kept is the list as
\* it was shown: entries lost their flags and were put in order, and sorting
\* them again changes nothing (parse_client_config, sort_dashboards).
THEOREM CacheKeepsOrder ==
  ASSUME NEW p \in Payload
  PROVE  Saved(p) \in Payload /\ ListOf(Saved(p)) = ListOf(p)
<1> DEFINE U == Usable(p)
           N == Cardinality(U)
           s == Sorted(p)
           q == Saved(p)
           Kept(n) == [s[n] EXCEPT !.order = Order(s[n]), !.enabled = "absent"]
<1>1. N \in Nat
  BY UsableFinite
<1>2. DOMAIN s = 1..N /\ \A n \in 1..N : s[n] \in Entry /\ s[n].id \in Ids
  BY ListOfType
<1>3. \A n \in 1..N :
        /\ Kept(n) \in Entry /\ Kept(n).id = s[n].id /\ Kept(n).name = s[n].name
        /\ Kept(n).enabled = "absent" /\ Kept(n).order = Order(s[n])
        /\ Order(s[n]) \in Int /\ s[n].name \in Nat
  <2>1. \A e \in Entry :
          LET f == [e EXCEPT !.order = Order(e), !.enabled = "absent"]
          IN  /\ f \in Entry /\ f.id = e.id /\ f.name = e.name
              /\ f.enabled = "absent" /\ f.order = Order(e)
              /\ Order(e) \in Int /\ e.name \in Nat
    <3> TAKE e \in Entry
    <3>1. Order(e) \in Int
      BY DEF Entry, Order
    <3> QED
      BY <3>1 DEF Entry
  <2> QED
    BY <1>2, <2>1
<1>4. q.entries = [n \in 1..N |-> Kept(n)] /\ q.default = p.default
      /\ DOMAIN q = {"entries", "default"}
  BY <1>2 DEF Saved
<1>5. q \in Payload
  <2>1. [n \in 1..N |-> Kept(n)] \in Seq(Entry)
    <3>1. [n \in 1..N |-> Kept(n)] \in [1..N -> Entry]
      BY <1>3
    <3> HIDE DEF Kept, N
    <3> QED
      BY <1>1, <3>1
  <2>2. p.default \in Ids \cup {NoId}
    BY DEF Payload
  <2>3. q = [entries |-> [n \in 1..N |-> Kept(n)], default |-> p.default]
    BY <1>2 DEF Saved
  <2> HIDE DEF q, Kept, N
  <2> QED
    BY <2>1, <2>2, <2>3 DEF Payload
<1>6. \A n \in 1..N : Order(q.entries[n]) = Order(s[n])
                      /\ q.entries[n].name = s[n].name
                      /\ q.entries[n].id = s[n].id
                      /\ q.entries[n].enabled = "absent"
  <2>1. NoOrder \notin Int
    BY KioskAssumption
  <2> HIDE DEF q, Kept, s, N
  <2> QED
    BY <1>3, <1>4, <2>1 DEF Order
<1>7. Usable(q) = 1..N
  <2>1. DOMAIN q.entries = 1..N
    BY <1>4
  <2>2. \A n \in 1..N : q.entries[n].id # NoId /\ q.entries[n].enabled # "no"
    <3>1. NoId \notin Ids
      BY WindowAssumption
    <3> HIDE DEF q, Kept, s, N
    <3> QED
      BY <1>2, <1>6, <3>1
  <2> HIDE DEF q, N
  <2> QED
    BY <2>1, <2>2 DEF Usable
<1>8. Cardinality(Usable(q)) = N
  <2>1. Cardinality(1..N) = N
    BY <1>1, FS_Interval
  <2> HIDE DEF q, N
  <2> QED
    BY <1>7, <2>1
<1>9. \A m, n \in 1..N : m < n => Before(q, m, n)
  <2>1. PICK at \in [1..N -> U] :
          /\ s = [n \in 1..N |-> p.entries[at[n]]]
          /\ \A m, n \in 1..N : m < n => Before(p, at[m], at[n])
    BY SortedLemma
  <2> HIDE DEF q, s, N, Kept
  <2> TAKE m, n \in 1..N
  <2> HAVE m < n
  <2>2. Before(p, at[m], at[n]) /\ s[m] = p.entries[at[m]] /\ s[n] = p.entries[at[n]]
    BY <2>1
  <2>3. Order(s[m]) \in Int /\ Order(s[n]) \in Int
        /\ s[m].name \in Nat /\ s[n].name \in Nat
    BY <1>3
  <2> QED
    BY <1>6, <2>2, <2>3 DEF Before
<1> HIDE DEF q
<1>10. \A j, n \in 1..N : Before(q, j, n) <=> j < n
  <2>1. /\ \A j \in 1..N : ~ Before(q, j, j)
        /\ \A j, k \in 1..N : Before(q, j, k) => ~ Before(q, k, j)
    BY <1>5, <1>7, BeforeOrders
  <2> HIDE DEF N
  <2> QED
    BY <1>1, <1>9, <2>1
<1>11. \A n \in 1..N : Cardinality({j \in Usable(q) : Before(q, j, n)}) = n - 1
  <2> TAKE n \in 1..N
  <2>1. {j \in Usable(q) : Before(q, j, n)} = 1..(n - 1)
    <3> HIDE DEF N
    <3> QED
      BY <1>1, <1>7, <1>10
  <2>2. Cardinality(1..(n - 1)) = n - 1
    BY <1>1, FS_Interval
  <2> QED
    BY <2>1, <2>2
<1>12. \A n \in 1..N : (CHOOSE k \in Usable(q) :
         Cardinality({j \in Usable(q) : Before(q, j, k)}) = n - 1) = n
  <2> TAKE n \in 1..N
  <2> DEFINE Place(k) == Cardinality({j \in Usable(q) : Before(q, j, k)})
  <2>1. \A k \in 1..N : Place(k) = k - 1
    BY <1>11
  <2> HIDE DEF Place, N
  <2>2. \A k \in 1..N : Place(k) = n - 1 <=> k = n
    BY <1>1, <2>1
  <2>3. (CHOOSE k \in 1..N : Place(k) = n - 1) = n
    BY <2>2
  <2> QED
    BY <1>7, <2>3 DEF Place
<1>13. Sorted(q) = [n \in 1..N |-> q.entries[n]]
  <2> DEFINE At(n) == CHOOSE k \in Usable(q) :
                        Cardinality({j \in Usable(q) : Before(q, j, k)}) = n - 1
  <2>1. Sorted(q) = [n \in 1..Cardinality(Usable(q)) |-> q.entries[At(n)]]
    BY DEF Sorted
  <2>2. \A n \in 1..N : At(n) = n
    BY <1>12
  <2> HIDE DEF N, At
  <2> QED
    BY <1>8, <2>1, <2>2
<1>14. ListOf(q) = ListOf(p)
  <2> HIDE DEF N, s
  <2>1. ListOf(q) = [n \in 1..N |-> q.entries[n].id]
    BY <1>13 DEF ListOf
  <2>2. ListOf(p) = [n \in 1..N |-> s[n].id]
    BY <1>2 DEF ListOf, s
  <2> QED
    BY <1>6, <2>1, <2>2
<1> QED
  BY <1>5, <1>14 DEF q

-----------------------------------------------------------------------------
(* Keys.                                                                   *)

\* A digit that is asked for is one of the ten.
DigitOk(a) == a.kind = "digit" => a.digit \in 0..9

LEMMA ActionForDigit ==
  /\ \A code \in Nat : DigitOk(ActionFor(code))
  /\ \A name : DigitOk(ActionForKeyName(name))
<1>1. \A k : k # "digit" => DigitOk(Act(k))
  BY DEF DigitOk, Act
<1>2. \A d \in 0..9 : DigitOk(Digit(d))
  BY DEF DigitOk, Digit
<1>3. \A code \in 32..41 : code - 32 \in 0..9
  OBVIOUS
<1>4. \A name : (\E d \in DOMAIN Digits : Digits[d] = name) =>
                  (CHOOSE d \in DOMAIN Digits : Digits[d] = name) \in 0..9
  BY DEF Digits
<1> HIDE DEF DigitOk, Act, Digit
<1>5. ASSUME NEW code \in Nat
      PROVE  DigitOk(ActionFor(code))
  BY <1>1, <1>2, <1>3 DEF ActionFor
<1>6. ASSUME NEW name
      PROVE  DigitOk(ActionForKeyName(name))
  <2> DEFINE isDigit == \E d \in DOMAIN Digits : Digits[d] = name
             digit == CHOOSE d \in DOMAIN Digits : Digits[d] = name
  <2>1. isDigit => digit \in 0..9
    BY <1>4
  <2>2. \/ ActionForKeyName(name) = Digit(0)
        \/ isDigit /\ ActionForKeyName(name) = Digit(digit)
        \/ \E k : k # "digit" /\ ActionForKeyName(name) = Act(k)
    BY DEF ActionForKeyName
  <2> HIDE DEF isDigit, digit
  <2> QED
    BY <1>1, <1>2, <2>1, <2>2
<1> QED
  BY <1>5, <1>6

\* Whatever is pressed, the window stays in order and the list is the same.
LEMMA HandleKeeps ==
  ASSUME NEW w, WindowInv(w), NEW a, DigitOk(a)
  PROVE  WindowInv(Handle(w, a)) /\ Handle(w, a).dashboards = w.dashboards
<1> DEFINE Good(n) == WindowInv(n) /\ n.dashboards = w.dashboards
<1>1. w \in Window /\ w.current \in Int /\ -1 \in Int /\ 1 \in Int /\ 0 \in Int
  BY DEF WindowInv, Window
<1>2. \A n : WindowInv(n) => WindowInv(Toast(n)) /\ Toast(n).dashboards = n.dashboards
  BY ToastKeeps DEF Toast, WindowInv, Window
<1>3. Good(w)
  OBVIOUS
<1>4. \A delta \in {-1, 1} : Good(MenuMove(w, delta)) /\ Good(Step(w, delta))
  <2> TAKE delta \in {-1, 1}
  <2>1. Good(MenuMove(w, delta))
    BY <1>1, MenuKeysList, MenuMoveKeeps
  <2>2. WindowInv(ShowIndex(w, w.current + delta))
        /\ ShowIndex(w, w.current + delta).dashboards = w.dashboards
    <3> DEFINE index == w.current + delta
    <3>1. index \in Int
      BY <1>1
    <3> HIDE DEF index
    <3>2. WindowInv(ShowIndex(w, index)) /\ SameList(ShowIndex(w, index), w)
      BY <3>1, ShowKeeps
    <3> QED
      BY <3>2 DEF SameList, index
  <2> QED
    BY <1>2, <2>1, <2>2 DEF Step
<1>5. Good(MenuOpen(w)) /\ Good(MenuClose(w)) /\ Good(MenuActivate(w, w.selected))
  <2>1. w.selected \in Int
    BY <1>1 DEF Window
  <2> QED
    BY <2>1, MenuKeysList, MenuOpenKeeps, MenuCloseKeeps, MenuActivateKeeps
<1>6. a.kind = "digit" => Good(JumpToDigit(w, a.digit))
  <2> SUFFICES ASSUME NEW d \in 0..9 PROVE Good(JumpToDigit(w, d))
    BY DEF DigitOk
  <2> DEFINE index == IF d > 0 THEN d - 1 ELSE 9
  <2>1. index \in Int
    OBVIOUS
  <2>2. JumpToDigit(w, d) = w
        \/ JumpToDigit(w, d) = Toast(ShowIndex(MenuClose(w), index))
    BY DEF JumpToDigit
  <2> HIDE DEF index
  <2>3. Good(ShowIndex(MenuClose(w), index))
    BY <1>5, <2>1, ShowKeeps DEF SameList
  <2> QED
    BY <1>2, <2>2, <2>3
<1>7. Good(ReloadCurrent(w)) /\ Good(ShowIndex(w, 0))
  BY <1>1, <1>2, ShowKeeps DEF ReloadCurrent, SameList
<1>8. \A b : Good([w EXCEPT !.info = ~ @]) /\ (b \in BOOLEAN => Good([w EXCEPT !.blank = b]))
  <2> SUFFICES ASSUME NEW n \in Window, SameSurface(n, w), n.selected = w.selected
               PROVE  Good(n)
    BY <1>1 DEF Window, SameSurface
  <2> QED
    BY SurfaceKeeps DEF WindowInv, SelectionInList, SameSurface
<1> HIDE DEF Good
<1>9. Good(Handle(w, a))
  BY <1>3, <1>4, <1>5, <1>6, <1>7, <1>8 DEF Handle, MenuToggle, MenuStep, Activate
<1> QED
  BY <1>9 DEF Good

-----------------------------------------------------------------------------
(* What does not come from a key.                                          *)

\* The dashboards, the one on screen and the chooser over them.
SamePlace(n, w) == SameList(n, w) /\ n.current = w.current

\* The overlays, leaving setup and the signals of the pages do not move the
\* viewer.
LEMMA OtherKeeps ==
  ASSUME WindowInv(win),
         \/ SetupDone \/ LoadStarted \/ LoadFinished \/ LoadFailed \/ HideToast
         \/ win' = Toast(win)
         \/ \E b \in BOOLEAN : win' = [win EXCEPT !.blank = b]
  PROVE  WindowInv(win') /\ SamePlace(win', win)
<1>1. win \in Window
  BY DEF WindowInv
<1>2. CASE SetupDone
  BY <1>1, <1>2, LeaveSetupKeeps
     DEF SetupDone, LeaveSetup, Window, SamePlace, SameList
<1>3. CASE LoadStarted \/ LoadFinished \/ LoadFailed
  <2>1. \A i \in win.views : i \in Ids
    BY <1>1 DEF Window
  <2>2. ASSUME NEW i \in win.views
        PROVE  /\ SamePlace(OnLoadStarted(win, i), win)
               /\ SamePlace(OnLoadFinished(win, i), win)
               /\ SamePlace(OnLoadFailed(win, i), win)
    BY <1>1, <2>1
       DEF OnLoadStarted, OnLoadFinished, OnLoadFailed, SyncLoading, Toast,
           Window, SamePlace, SameList
  <2> QED
    BY <1>3, <2>2, SignalsKeep DEF LoadStarted, LoadFinished, LoadFailed
<1>4. CASE \/ HideToast \/ win' = Toast(win)
           \/ \E b \in BOOLEAN : win' = [win EXCEPT !.blank = b]
  <2>1. /\ win' \in Window /\ SameSurface(win', win)
        /\ win'.selected = win.selected /\ win'.menuOpen = win.menuOpen
    BY ZenonT(40), <1>1, <1>4 DEF HideToast, Toast, Window, SameSurface
  <2> QED
    BY <2>1, SurfaceKeeps
       DEF WindowInv, SelectionInList, SameSurface, SamePlace, SameList
<1> QED
  BY <1>2, <1>3, <1>4

\* A start, with or without a cached list.
LEMMA AttachKeeps ==
  ASSUME NEW b \in BOOLEAN, NEW c \in Payload, Attach(b, c)
  PROVE  WindowInv(win') /\ (win'.dashboards # <<>> => win'.dashboards = ListOf(c))
<1>1. WindowInv(NewWindow(b)) /\ NewWindow(b).dashboards = <<>>
      /\ NewWindow(b).needsSetup = b
  BY NewWindowKeeps DEF NewWindow
<1>2. ListOf(c) \in Seq(Ids)
  BY ListOfType
<1>3. CASE ListOf(c) = <<>>
  BY <1>1, <1>3 DEF Attach
<1>4. CASE ListOf(c) # <<>>
  <2>1. win' = ApplyList(NewWindow(b), ListOf(c), Wanted(c))
    BY <1>4 DEF Attach
  <2>2. WindowInv(win') /\ (~ b => win'.dashboards = ListOf(c))
    BY <1>1, <1>2, <2>1, ApplyListKeeps
  <2>3. b => win' = NewWindow(b)
    <3>1. b => SetDashboards(NewWindow(b), ListOf(c)) = NewWindow(b)
      BY <1>1 DEF SetDashboards
    <3>2. SelectStart(NewWindow(b), Wanted(c)) = NewWindow(b)
      BY <1>1 DEF SelectStart, ListIds
    <3> QED
      BY <1>1, <2>1, <3>1, <3>2 DEF ApplyList
  <2> QED
    BY <1>1, <2>2, <2>3
<1> QED
  BY <1>3, <1>4

-----------------------------------------------------------------------------
(* The invariant.                                                          *)

\* What the remote chose is still there, told by the fields it lies in.
Chosen(w, h) ==
  /\ h.page # NoId => HasCurrent(w) /\ Current(w) = h.page
  /\ h.row # NoId =>
       /\ w.menuOpen /\ w.selected < Len(w.dashboards)
       /\ w.dashboards[w.selected + 1] = h.row

\* The clock has run at least as long as the choice has stood: a turn of the
\* carousel finds no choice that may not be changed.
ChoiceInv ==
  /\ left > 0 => Chosen(win, held)
  /\ left > 0 /\ clock # NoClock => left <= clock

ListInv ==
  /\ cache \in Payload /\ ListOf(cache) = known
  /\ win.dashboards # <<>> => win.dashboards = known

CarouselInv ==
  /\ rotating \in BOOLEAN /\ clock \in {NoClock} \cup 0..Interval
  /\ ClockIffOn

ChoiceType ==
  held \in [page : Ids \cup {NoId}, row : Ids \cup {NoId}] /\ left \in 0..Interval

KioskInv ==
  WindowInOrder /\ ListInv /\ CarouselInv /\ ChoiceType /\ ChoiceInv

LEMMA ClaimChosen ==
  ASSUME NEW w, WindowInv(w)
  PROVE  Chosen(w, Claim(w)) /\ Claim(w) \in [page : Ids \cup {NoId}, row : Ids \cup {NoId}]
<1>1. w.dashboards \in Seq(Ids) /\ w.current \in Int /\ w.selected \in Nat
  BY DEF WindowInv, Window
<1>2. HasCurrent(w) => Current(w) \in Ids
  BY <1>1 DEF HasCurrent, Current
<1>3. w.selected < Len(w.dashboards) => w.dashboards[w.selected + 1] \in Ids
  BY <1>1
<1> QED
  BY <1>2, <1>3 DEF Chosen, Claim

LEMMA ChosenSame ==
  ASSUME NEW w, NEW n, SamePlace(n, w), NEW h, Chosen(w, h)
  PROVE  Chosen(n, h)
BY DEF Chosen, SamePlace, SameList, HasCurrent, Current

LEMMA ClockTimes ==
  ASSUME CarouselInv
  PROVE  /\ \A on \in BOOLEAN : Clock(on) \in {NoClock, Interval}
         /\ \A on \in BOOLEAN : (Clock(on) # NoClock) = (on /\ Interval > 0)
         /\ RestartClock(clock) \in {NoClock, Interval}
         /\ (RestartClock(clock) # NoClock) = (rotating /\ Interval > 0)
<1>1. Interval \in Nat /\ Interval # NoClock
  BY KioskAssumption DEF NoClock
<1> QED
  BY <1>1 DEF CarouselInv, ClockIffOn, Clock, RestartClock, NoClock

LEMMA KioskInitInv == KioskInit => KioskInv
<1> SUFFICES ASSUME KioskInit PROVE KioskInv
  OBVIOUS
<1>1. Interval \in Nat /\ Interval # NoClock /\ NoClock \notin Nat
  BY KioskAssumption DEF NoClock
<1>2. PICK b \in BOOLEAN : win = NewWindow(b)
  BY DEF KioskInit
<1>3. WindowInOrder /\ win.dashboards = <<>>
  BY <1>2, NewWindowKeeps DEF WindowInOrder, NewWindow
<1>4. NoPayload \in Payload /\ ListOf(NoPayload) = <<>>
  <2>1. NoPayload \in Payload
    BY DEF NoPayload, Payload
  <2>2. Usable(NoPayload) = {}
    BY DEF Usable, NoPayload
  <2>3. DOMAIN Sorted(NoPayload) = 1..0
    BY <2>1, <2>2, ListOfType, FS_EmptySet
  <2>4. DOMAIN ListOf(NoPayload) = 1..0 /\ ListOf(NoPayload) \in Seq(Ids)
    BY <2>1, <2>3, ListOfType DEF ListOf
  <2>5. Len(ListOf(NoPayload)) = 0
    BY <2>4
  <2> QED
    BY <2>1, <2>4, <2>5
<1>5. ListInv
  BY <1>3, <1>4 DEF KioskInit, ListInv
<1>6. CarouselInv
  BY <1>1 DEF KioskInit, CarouselInv, ClockIffOn, Clock
<1>7. ChoiceType /\ ChoiceInv
  BY <1>1 DEF KioskInit, ChoiceType, ChoiceInv, NoClaim
<1> QED
  BY <1>3, <1>5, <1>6, <1>7 DEF KioskInv

\* A key of the remote.
LEMMA RemoteKeeps ==
  ASSUME KioskInv, NEW code \in Codes, Remote(code)
  PROVE  KioskInv'
<1>1. Interval \in Nat /\ code \in Nat
  BY KioskAssumption
<1>2. CASE Toggle
  <2>1. WindowInOrder' /\ SamePlace(win', win)
    BY <1>2, OtherKeeps DEF Toggle, KioskInv, WindowInOrder
  <2>2. /\ rotating' \in BOOLEAN /\ clock' \in {clock, NoClock, Interval}
        /\ clock' \in {NoClock} \cup 0..Interval /\ ClockIffOn'
        /\ held' = held /\ left' = left /\ cache' = cache /\ known' = known
    <3>1. CarouselInv /\ NoClock \notin Nat
      BY DEF KioskInv, NoClock
    <3>2. CASE Interval = 0
      BY <1>2, <3>1, <3>2 DEF Toggle, carousel, choice, CarouselInv, ClockIffOn
    <3>3. CASE Interval # 0
      <4>1. PICK on \in BOOLEAN : on = ~ rotating
        OBVIOUS
      <4>2. rotating' = on /\ clock' = Clock(on)
        BY <1>2, <3>3, <4>1 DEF Toggle
      <4>3. Clock(on) \in {NoClock, Interval}
            /\ (Clock(on) # NoClock) = (on /\ Interval > 0)
        BY <3>1, ClockTimes
      <4>4. ClockIffOn'
        BY <4>2, <4>3 DEF ClockIffOn
      <4>5. held' = held /\ left' = left /\ cache' = cache /\ known' = known
        BY <1>2 DEF Toggle, choice
      <4> QED
        BY <1>1, <4>2, <4>3, <4>4, <4>5
    <3> QED
      BY <3>2, <3>3
  <2>3. ListInv' /\ CarouselInv' /\ ChoiceType'
    BY <2>1, <2>2 DEF KioskInv, ListInv, CarouselInv, ChoiceType, SamePlace, SameList
  <2>4. ChoiceInv'
    <3>1. left > 0 => Chosen(win', held)
      BY <2>1, ChosenSame DEF KioskInv, ChoiceInv
    <3>2. left <= Interval
      BY <1>1 DEF KioskInv, ChoiceType
    <3> QED
      BY <2>2, <3>1, <3>2 DEF KioskInv, ChoiceInv
  <2> QED
    BY <2>1, <2>3, <2>4 DEF KioskInv
<1>3. CASE Navigate(ActionFor(code))
  <2> DEFINE a == ActionFor(code)
  <2>1. WindowInv(Handle(win, a)) /\ Handle(win, a).dashboards = win.dashboards
    BY <1>1, ActionForDigit, HandleKeeps DEF KioskInv, WindowInOrder
  <2> HIDE DEF a
  <2>2. /\ win' = Handle(win, a) /\ clock' = RestartClock(clock)
        /\ held' = Claim(win') /\ left' = Interval
        /\ rotating' = rotating /\ cache' = cache /\ known' = known
    BY <1>3 DEF Navigate, a
  <2>3. WindowInOrder' /\ ListInv'
    BY <2>1, <2>2 DEF KioskInv, WindowInOrder, ListInv
  <2>4. RestartClock(clock) \in {NoClock, Interval}
        /\ (RestartClock(clock) # NoClock) = (rotating /\ Interval > 0)
    BY ClockTimes DEF KioskInv
  <2>5. CarouselInv'
    BY <1>1, <2>2, <2>4 DEF KioskInv, CarouselInv, ClockIffOn
  <2>6. Chosen(win', Claim(win')) /\ Claim(win') \in [page : Ids \cup {NoId}, row : Ids \cup {NoId}]
    BY <2>1, <2>2, ClaimChosen
  <2>7. ChoiceType' /\ ChoiceInv'
    BY <1>1, <2>2, <2>4, <2>6 DEF ChoiceType, ChoiceInv
  <2> QED
    BY <2>3, <2>5, <2>7 DEF KioskInv
<1> QED
  BY <1>2, <1>3 DEF Remote

\* Steps that leave the carousel and the server's list alone, and the choice
\* as it is or forget it.
LEMMA QuietKeeps ==
  ASSUME KioskInv, WindowInv(win'), win'.dashboards = win.dashboards,
         UNCHANGED <<carousel, cache, known>>,
         \/ held' = held /\ left' = left /\ SamePlace(win', win)
         \/ held' = NoClaim /\ left' = 0
  PROVE  KioskInv'
<1>1. Interval \in Nat
  BY KioskAssumption
<1>2. WindowInOrder' /\ ListInv'
  BY DEF KioskInv, WindowInOrder, ListInv
<1>3. CarouselInv' /\ clock' = clock
  BY DEF KioskInv, CarouselInv, ClockIffOn, carousel
<1>4. CASE held' = held /\ left' = left /\ SamePlace(win', win)
  <2>1. left > 0 => Chosen(win', held)
    BY <1>4, ChosenSame DEF KioskInv, ChoiceInv
  <2>2. ChoiceType' /\ ChoiceInv'
    BY <1>3, <1>4, <2>1 DEF KioskInv, ChoiceType, ChoiceInv
  <2> QED
    BY <1>2, <1>3, <2>2 DEF KioskInv
<1>5. CASE held' = NoClaim /\ left' = 0
  <2>1. ChoiceType' /\ ChoiceInv'
    BY <1>1, <1>5 DEF ChoiceType, ChoiceInv, NoClaim
  <2> QED
    BY <1>2, <1>3, <2>1 DEF KioskInv
<1> QED
  BY <1>4, <1>5

LEMMA TimeKeeps ==
  ASSUME KioskInv, Tick \/ Rotate
  PROVE  KioskInv'
<1>1. Interval \in Nat /\ NoClock \notin Nat /\ NoClock = -1
  BY KioskAssumption DEF NoClock
<1>2. rotating \in BOOLEAN /\ clock \in {NoClock} \cup 0..Interval /\ left \in 0..Interval
      /\ WindowInv(win)
  BY DEF KioskInv, CarouselInv, ChoiceType, WindowInOrder
<1>3. CASE Tick
  <2>1. /\ win' = win /\ rotating' = rotating /\ cache' = cache /\ known' = known
        /\ clock' = (IF clock = NoClock THEN clock ELSE clock - 1)
        /\ left' = (IF left > 0 THEN left - 1 ELSE 0)
        /\ held' = (IF left' > 0 THEN held ELSE NoClaim)
        /\ clock > 0 \/ clock = NoClock
    BY <1>3 DEF Tick
  <2>2. WindowInOrder' /\ ListInv'
    BY <2>1 DEF KioskInv, WindowInOrder, ListInv
  <2>3. clock' \in {NoClock} \cup 0..Interval /\ (clock' = NoClock <=> clock = NoClock)
    BY <1>1, <1>2, <2>1
  <2>4. CarouselInv'
    BY <2>1, <2>3 DEF KioskInv, CarouselInv, ClockIffOn
  <2>5. left' \in 0..Interval /\ (left' > 0 => left > 0 /\ left' = left - 1)
    BY <1>1, <1>2, <2>1
  <2>6. ChoiceType'
    BY <2>1, <2>5 DEF KioskInv, ChoiceType, NoClaim
  <2>7. ChoiceInv'
    <3>1. left' > 0 => Chosen(win', held')
      BY <2>1, <2>5 DEF KioskInv, ChoiceInv
    <3>2. left' > 0 /\ clock' # NoClock => left' <= clock'
      BY <1>1, <1>2, <2>1, <2>3, <2>5 DEF KioskInv, ChoiceInv
    <3> QED
      BY <3>1, <3>2 DEF ChoiceInv
  <2> QED
    BY <2>2, <2>4, <2>6, <2>7 DEF KioskInv
<1>4. CASE Rotate
  <2>1. /\ clock = 0 /\ win' = Step(win, 1) /\ clock' = Interval
        /\ rotating' = rotating /\ cache' = cache /\ known' = known
        /\ held' = held /\ left' = left
    BY <1>4 DEF Rotate, choice
  <2>2. left = 0
    BY <1>1, <1>2, <2>1 DEF KioskInv, ChoiceInv
  <2>3. WindowInv(Step(win, 1)) /\ Step(win, 1).dashboards = win.dashboards
    <3>1. Handle(win, Act("dashboard.next")) = Step(win, 1)
      BY DEF Handle, Act
    <3>2. DigitOk(Act("dashboard.next"))
      BY DEF DigitOk, Act
    <3> QED
      BY <1>2, <3>1, <3>2, HandleKeeps
  <2>4. WindowInOrder' /\ ListInv'
    BY <2>1, <2>3 DEF KioskInv, WindowInOrder, ListInv
  <2>5. CarouselInv'
    BY <1>1, <2>1 DEF KioskInv, CarouselInv, ClockIffOn
  <2>6. ChoiceType' /\ ChoiceInv'
    BY <1>1, <2>1, <2>2 DEF KioskInv, ChoiceType, ChoiceInv
  <2> QED
    BY <2>4, <2>5, <2>6 DEF KioskInv
<1> QED
  BY <1>3, <1>4

\* A list from the server: what it still allows stays on screen, and a list
\* that is the same leaves the highlight where it was.
LEMMA FetchKeeps ==
  ASSUME KioskInv, NEW p \in Payloads, Fetch(p)
  PROVE  KioskInv'
<1> DEFINE list == ListOf(p)
<1>1. p \in Payload /\ list \in Seq(Ids)
  BY KioskAssumption, ListOfType
<1>2. Saved(p) \in Payload /\ ListOf(Saved(p)) = list
  BY <1>1, CacheKeepsOrder
<1>3. /\ win' = ApplyList(win, list, Wanted(p))
      /\ cache' = Saved(p) /\ known' = list
      /\ held' = [page |-> IF held.page \in ListIds(win'.dashboards) THEN held.page ELSE NoId,
                  row |-> IF win'.dashboards = win.dashboards THEN held.row ELSE NoId]
      /\ rotating' = rotating /\ clock' = clock /\ left' = left
  BY DEF Fetch, carousel
<1> HIDE DEF list
<1>4. WindowInv(win)
  BY DEF KioskInv, WindowInOrder
<1>5. /\ WindowInv(win')
      /\ ~ win.needsSetup => win'.dashboards = list
      /\ win.dashboards = list => SameList(win', win)
  BY <1>1, <1>3, <1>4, ApplyListKeeps
<1>6. CASE win.needsSetup
  <2>1. win' = win /\ win.dashboards = <<>>
    <3>1. win.dashboards = <<>>
      BY <1>4, <1>6 DEF WindowInv, OnScreen
    <3>2. SetDashboards(win, list) = win
      BY <1>6 DEF SetDashboards
    <3>3. SelectStart(win, Wanted(p)) = win
      BY <3>1 DEF SelectStart, ListIds
    <3> QED
      BY <1>3, <3>1, <3>2, <3>3 DEF ApplyList
  <2>2. WindowInOrder' /\ ListInv' /\ CarouselInv' /\ ChoiceType'
    BY <1>2, <1>3, <2>1
       DEF KioskInv, WindowInOrder, ListInv, CarouselInv, ClockIffOn, ChoiceType
  <2>3. ChoiceInv'
    BY <1>3, <2>1 DEF KioskInv, ChoiceInv, Chosen
  <2> QED
    BY <2>2, <2>3 DEF KioskInv
<1>7. CASE ~ win.needsSetup
  <2>1. WindowInOrder' /\ ListInv' /\ CarouselInv' /\ ChoiceType'
    BY <1>2, <1>3, <1>5, <1>7
       DEF KioskInv, WindowInOrder, ListInv, CarouselInv, ClockIffOn, ChoiceType
  <2>2. ASSUME left > 0, held'.page # NoId
        PROVE  HasCurrent(win') /\ Current(win') = held'.page
    <3>1. held'.page = held.page /\ held.page \in ListIds(list)
      BY <1>3, <1>5, <1>7, <2>2
    <3>2. HasCurrent(win) /\ Current(win) = held.page
      BY <2>2, <3>1 DEF KioskInv, ChoiceInv, Chosen
    <3>3. win'.visible = win.visible
      BY <1>1, <1>3, <1>4, <3>1, <3>2, RefreshKeeps
    <3>4. win.visible = held.page
      <4>1. win.dashboards # <<>>
        BY <1>4, <3>2 DEF HasCurrent, WindowInv, Window
      <4> QED
        BY <1>4, <3>2, <4>1 DEF WindowInv, OnScreen
    <3>5. win'.dashboards # <<>>
      BY <1>5, <1>7, <3>1 DEF ListIds
    <3> QED
      BY <1>5, <3>1, <3>3, <3>4, <3>5 DEF WindowInv, OnScreen
  <2>3. ASSUME left > 0, held'.row # NoId
        PROVE  /\ win'.menuOpen /\ win'.selected < Len(win'.dashboards)
               /\ win'.dashboards[win'.selected + 1] = held'.row
    <3>1. held'.row = held.row /\ win.dashboards = list
      BY <1>3, <1>5, <1>7, <2>3
    <3>2. SameList(win', win)
      BY <1>5, <3>1
    <3> QED
      BY <2>3, <3>1, <3>2 DEF KioskInv, ChoiceInv, Chosen, SameList
  <2>4. ChoiceInv'
    BY <1>3, <2>2, <2>3 DEF KioskInv, ChoiceInv, Chosen
  <2> QED
    BY <2>1, <2>4 DEF KioskInv
<1> QED
  BY <1>6, <1>7

LEMMA RestartKeeps ==
  ASSUME KioskInv, Restart
  PROVE  KioskInv'
<1>1. Interval \in Nat /\ NoClock \notin Nat
  BY KioskAssumption DEF NoClock
<1>2. PICK b \in {win.needsSetup, FALSE} : Attach(b, cache)
  BY DEF Restart
<1>3. b \in BOOLEAN /\ cache \in Payload /\ ListOf(cache) = known
  BY DEF KioskInv, WindowInOrder, WindowInv, Window, ListInv
<1>4. WindowInv(win') /\ (win'.dashboards # <<>> => win'.dashboards = ListOf(cache))
  BY <1>2, <1>3, AttachKeeps
<1>5. /\ rotating' = (Interval > 0) /\ clock' = Clock(rotating')
      /\ held' = NoClaim /\ left' = 0 /\ cache' = cache /\ known' = known
  BY <1>2 DEF Attach, Restart
<1>6. WindowInOrder' /\ ListInv'
  BY <1>3, <1>4, <1>5 DEF WindowInOrder, ListInv
<1>7. CarouselInv'
  BY <1>1, <1>5 DEF CarouselInv, ClockIffOn, Clock
<1>8. ChoiceType' /\ ChoiceInv'
  BY <1>1, <1>5 DEF ChoiceType, ChoiceInv, NoClaim
<1> QED
  BY <1>6, <1>7, <1>8 DEF KioskInv

LEMMA KioskStepInv == KioskInv /\ [KioskNext]_kioskVars => KioskInv'
<1> SUFFICES ASSUME KioskInv, [KioskNext]_kioskVars PROVE KioskInv'
  OBVIOUS
<1>1. WindowInv(win)
  BY DEF KioskInv, WindowInOrder
<1>2. ASSUME NEW name \in KeyNames, Keyboard(name)
      PROVE  KioskInv'
  <2>1. win' = Handle(win, ActionForKeyName(name)) /\ UNCHANGED <<carousel, cache, known>>
        /\ held' = NoClaim /\ left' = 0
    BY <1>2 DEF Keyboard
  <2>2. WindowInv(win') /\ win'.dashboards = win.dashboards
    BY <1>1, <2>1, ActionForDigit, HandleKeeps
  <2> QED
    BY <2>1, <2>2, QuietKeeps
<1>3. CASE Row
  <2>1. PICK k \in DOMAIN win.dashboards : win' = MenuActivate(win, k - 1)
    BY <1>3 DEF Row, RowActivated
  <2>2. k - 1 \in Int
    BY <1>1 DEF WindowInv, Window
  <2>3. WindowInv(win') /\ win'.dashboards = win.dashboards
    BY <1>1, <2>1, <2>2, MenuCloseKeeps, ShowKeeps DEF MenuActivate, SameList, SameSurface
  <2> QED
    BY <1>3, <2>3, QuietKeeps DEF Row
<1>4. CASE Standby \/ Other
  <2>1. WindowInv(win') /\ SamePlace(win', win)
    BY <1>1, <1>4, OtherKeeps DEF Standby, Other
  <2>2. UNCHANGED <<carousel, cache, known>> /\ held' = held /\ left' = left
    BY <1>4 DEF Standby, Other, choice
  <2> QED
    BY <2>1, <2>2, QuietKeeps DEF SamePlace, SameList
<1>5. CASE UNCHANGED kioskVars
  <2>1. win' = win /\ UNCHANGED <<carousel, cache, known>> /\ held' = held /\ left' = left
    BY <1>5 DEF kioskVars, choice
  <2> QED
    BY <1>1, <2>1, QuietKeeps DEF SamePlace, SameList
<1> QED
  BY <1>2, <1>3, <1>4, <1>5, RemoteKeeps, FetchKeeps, TimeKeeps, RestartKeeps
     DEF KioskNext

-----------------------------------------------------------------------------
(* The theorems.                                                           *)

LEMMA KioskInvariant == KioskSpec => []KioskInv
BY KioskInitInv, KioskStepInv, PTL DEF KioskSpec

\* Every part of the kiosk keeps its type: the window, the clock, the cache
\* and what the remote chose.
THEOREM KioskTypeCorrect == KioskSpec => []KioskTypeOK
<1>1. ListOf(cache) = known /\ cache \in Payload => known \in Seq(Ids)
  BY ListOfType
<1>2. KioskInv => KioskTypeOK
  BY <1>1 DEF KioskInv, WindowInOrder, WindowInv, ListInv, CarouselInv, ChoiceType, KioskTypeOK
<1> QED
  BY <1>2, KioskInvariant, PTL

\* All that KioskWindow proves of the window holds of it in the kiosk, under
\* the carousel, the cached lists and restarts as well.
THEOREM WindowAlwaysInOrder == KioskSpec => []WindowInOrder
<1>1. KioskInv => WindowInOrder
  BY DEF KioskInv
<1> QED
  BY <1>1, KioskInvariant, PTL

\* Exactly one source turns the carousel while it is on, and none while it is
\* off (_apply_rotation, _toggle_rotation, _restart_rotation_clock).
THEOREM ClockAlwaysIffOn == KioskSpec => []ClockIffOn
<1>1. KioskInv => ClockIffOn
  BY DEF KioskInv, CarouselInv
<1> QED
  BY <1>1, KioskInvariant, PTL

\* What the remote chose stays for an interval (_dispatch).
THEOREM ChoiceAlwaysStays == KioskSpec => []RemoteChoiceStays
<1>1. KioskInv => RemoteChoiceStays
  <2> SUFFICES ASSUME KioskInv, left > 0 PROVE
        /\ held.page # NoId => win.visible = held.page
        /\ held.row # NoId =>
             win.menuOpen /\ win.dashboards[win.selected + 1] = held.row
    BY DEF RemoteChoiceStays
  <2>1. Chosen(win, held) /\ WindowInv(win)
    BY DEF KioskInv, ChoiceInv, WindowInOrder
  <2>2. HasCurrent(win) => win.visible = Current(win)
    BY <2>1 DEF WindowInv, OnScreen, HasCurrent, Window
  <2> QED
    BY <2>1, <2>2 DEF Chosen
<1> QED
  BY <1>1, KioskInvariant, PTL

\* A start shows the list that was shown before it (ConfigCache, attach).
THEOREM StartAlwaysShowsSame == KioskSpec => []RestartShowsSame
<1>1. KioskInv => RestartShowsSame
  BY DEF KioskInv, ListInv, RestartShowsSame
<1> QED
  BY <1>1, KioskInvariant, PTL

-----------------------------------------------------------------------------
(* The pages.                                                              *)

\* Whatever is pressed, at most one dashboard is shown for it.
LEMMA HandleStep ==
  ASSUME NEW w, WindowInv(w), NEW a, DigitOk(a)
  PROVE  CacheStep(w, Handle(w, a))
<1>1. CacheStep(w, w)
  BY DEF CacheStep, Stays
<1>2. \A delta \in {-1, 1} : CacheStep(w, MenuStep(w, delta)) /\ CacheStep(w, Step(w, delta))
  <2>1. -1 \in Int /\ 1 \in Int /\ 0 \in 0..9
    OBVIOUS
  <2> QED
    BY <2>1, KeysStep
<1>3. /\ CacheStep(w, MenuToggle(w)) /\ CacheStep(w, MenuClose(w))
      /\ CacheStep(w, Activate(w)) /\ CacheStep(w, ReloadCurrent(w))
  <2>1. 1 \in Int /\ 0 \in 0..9
    OBVIOUS
  <2> QED
    BY <2>1, KeysStep
<1>4. a.kind = "digit" => CacheStep(w, JumpToDigit(w, a.digit))
  <2>1. 1 \in Int
    OBVIOUS
  <2> QED
    BY <2>1, KeysStep DEF DigitOk
<1>5. CacheStep(w, ShowIndex(w, 0))
  <2>1. 0 \in Int
    OBVIOUS
  <2> QED
    BY <2>1, ShowStep DEF CacheStep
<1>6. /\ CacheStep(w, [w EXCEPT !.info = ~ @])
      /\ \A b \in BOOLEAN : CacheStep(w, [w EXCEPT !.blank = b])
  <2>1. /\ SameCache([w EXCEPT !.info = ~ @], w)
        /\ \A b \in BOOLEAN : SameCache([w EXCEPT !.blank = b], w)
    BY DEF WindowInv, Window, SameCache
  <2> QED
    BY <2>1, SameOrder DEF CacheStep, Stays
<1> HIDE DEF CacheStep
<1> QED
  BY <1>1, <1>2, <1>3, <1>4, <1>5, <1>6 DEF Handle

\* Every step but a restart is one of ViewCache, or none.
LEMMA PagesStep ==
  ASSUME KioskInv, [KioskNext]_kioskVars, ~ Restart
  PROVE  CacheStep(win, win')
<1>1. WindowInv(win) /\ win \in Window
  BY DEF KioskInv, WindowInOrder, WindowInv
<1>2. ASSUME NEW code \in Codes, Remote(code)
      PROVE  CacheStep(win, win')
  <2>1. CASE win' = Handle(win, ActionFor(code))
    BY <1>1, <2>1, ActionForDigit, HandleStep, KioskAssumption
  <2>2. CASE win' = Toast(win)
    BY <1>1, <2>2, ToastStep DEF CacheStep, Stays
  <2> QED
    BY <1>2, <2>1, <2>2 DEF Remote, Toggle, Navigate
<1>3. ASSUME NEW name \in KeyNames, Keyboard(name)
      PROVE  CacheStep(win, win')
  BY <1>1, <1>3, ActionForDigit, HandleStep DEF Keyboard
<1>4. ASSUME NEW p \in Payloads, Fetch(p)
      PROVE  CacheStep(win, win')
  <2>1. ListOf(p) \in Seq(Ids)
    BY KioskAssumption, ListOfType
  <2> QED
    BY <1>1, <1>4, <2>1, ApplyListStep DEF Fetch
<1>5. CASE Standby
  <2>1. SameCache(win', win)
    BY <1>1, <1>5 DEF Standby, Window, SameCache
  <2> QED
    BY <2>1, SameOrder DEF CacheStep, Stays
<1>6. CASE Row \/ Other
  <2>1. Next
    BY <1>6 DEF Row, Other, Next
  <2> QED
    BY <1>1, <2>1, NextStep
<1>7. CASE Tick \/ UNCHANGED kioskVars
  BY <1>7 DEF Tick, kioskVars, CacheStep, Stays
<1>8. CASE Rotate
  <2>1. 1 \in Int /\ 0 \in 0..9
    OBVIOUS
  <2> QED
    BY <1>1, <1>8, <2>1, KeysStep DEF Rotate
<1> QED
  BY <1>2, <1>3, <1>4, <1>5, <1>6, <1>7, <1>8 DEF KioskNext

\* A start shows at most two dashboards in a window that has no page.
LEMMA RestartStep ==
  ASSUME KioskInv, Restart
  PROVE  Afresh
<1>1. PICK b \in BOOLEAN : Attach(b, cache)
  BY DEF Restart, KioskInv, WindowInOrder, WindowInv, Window
<1> DEFINE w == NewWindow(b)
<1>2. WindowInv(w) /\ w.dashboards = <<>> /\ w.views = {}
  BY NewWindowKeeps DEF NewWindow
<1>3. ViewOrder(w) = <<>> /\ ListIds(w.dashboards) = {}
  BY <1>2, NoneInOrder DEF ListIds
<1>4. ListOf(cache) \in Seq(Ids)
  BY ListOfType DEF KioskInv, ListInv
<1>5. CacheStep(w, win')
  <2>1. win' = w \/ win' = ApplyList(w, ListOf(cache), Wanted(cache))
    BY <1>1 DEF Attach
  <2> HIDE DEF w
  <2> QED
    BY <1>2, <1>4, <2>1, ApplyListStep DEF CacheStep, Stays
<1> HIDE DEF w
<1>6. \A S : Cache!Kept(<<>>, S) = <<>>
  BY NoneKept
<1>7. /\ ListIds(win.dashboards)' = ListIds(win'.dashboards)
      /\ ViewOrder(win)' = ViewOrder(win')
  BY DEF ListIds, ViewOrder
<1> QED
  BY <1>3, <1>5, <1>6, <1>7
     DEF CacheStep, Stays, Shows, Restricts, Begins, Withdraws, Afresh

\* Under the remote, the keyboard, rows, the carousel, lists and restarts, for
\* any limit: the live pages are those of the dashboards shown last
\* (_touch, _evict_surplus, _drop_stale_views, attach).
THEOREM PagesAlwaysRecent == KioskSpec => LivePagesAreRecent
<1> DEFINE allowed == ListIds(win.dashboards)
           recent == ViewOrder(win)
<1>1. KioskInv /\ [KioskNext]_kioskVars =>
        [Cache!Next \/ (Restart /\ Afresh)]_<<allowed, recent>>
  <2> SUFFICES ASSUME KioskInv, [KioskNext]_kioskVars
               PROVE  \/ Cache!Next \/ (Restart /\ Afresh)
                      \/ UNCHANGED <<allowed, recent>>
    OBVIOUS
  <2>1. CASE Restart
    BY <2>1, RestartStep
  <2>2. CASE ~ Restart
    BY <2>2, PagesStep, CacheStepImplements
  <2> QED
    BY <2>1, <2>2
<1> QED
  BY <1>1, KioskInvariant, PTL DEF KioskSpec, LivePagesAreRecent

=============================================================================
