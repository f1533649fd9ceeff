-------------------------- MODULE KioskWindowProofs --------------------------
(***************************************************************************)
(* KioskWindow for any dashboards, any lists and any limit.  WindowInv is  *)
(* inductive: a lemma for each operator says what it preserves, and the    *)
(* theorems at the end put the actions together.                           *)
(***************************************************************************)
EXTENDS KioskWindow, FiniteSetTheorems, NaturalsInduction, TLAPS

\* A finite non-empty set of views in order has a first element.
LEMMA OldestExists ==
  ASSUME NEW w \in Window, NEW S \in SUBSET w.views,
         Ordered(w.order, w.views), IsFiniteSet(S), S # {}
  PROVE  /\ Oldest(w, S) \in S
         /\ \A u \in S : <<Oldest(w, S), u>> \in w.order
<1> DEFINE Before(v) == {u \in S : <<u, v>> \in w.order}
           Down == {Before(v) : v \in S}
<1>1. IsWellFoundedOn(StrictSubsetOrdering(S), FiniteSubsetsOf(S))
  BY FS_StrictSubsetOrderingWellFounded
<1>2. Down \subseteq FiniteSubsetsOf(S)
  BY FS_FiniteSubsetsOfFinite
<1>3. Down # {}
  OBVIOUS
<1> HIDE DEF Down
<1>4. PICK D \in Down : \A E \in Down : <<E, D>> \notin StrictSubsetOrdering(S)
  BY <1>1, <1>2, <1>3, WFMin, Zenon
<1>5. PICK v \in S : D = Before(v)
  BY <1>4 DEF Down
<1>6. ASSUME NEW u \in S PROVE <<v, u>> \in w.order
  <2>1. SUFFICES ASSUME <<v, u>> \notin w.order PROVE FALSE
    OBVIOUS
  <2>2. <<u, v>> \in w.order
    BY <2>1 DEF Ordered
  <2>3. Before(u) \subseteq Before(v)
    BY <2>2 DEF Ordered
  <2>4. v \in Before(v) /\ v \notin Before(u)
    BY <2>1 DEF Ordered
  <2>5. Before(u) \in Down
    BY DEF Down
  <2>6. <<Before(u), D>> \in StrictSubsetOrdering(S)
    BY <1>5, <2>3, <2>4 DEF StrictSubsetOrdering
  <2> QED
    BY <1>4, <2>5, <2>6
<1> QED
  BY <1>6 DEF Oldest

\* A dashboard of a list has a first position in it.
LEMMA FirstIndexExists ==
  ASSUME NEW list \in Seq(Ids), NEW i \in ListIds(list)
  PROVE  /\ FirstIndex(list, i) \in 0..(Len(list) - 1)
         /\ list[FirstIndex(list, i) + 1] = i
<1> DEFINE At == {k \in DOMAIN list : list[k] = i}
<1>1. At \subseteq Nat /\ At # {}
  BY DEF ListIds
<1> HIDE DEF At
<1> DEFINE Less == {p \in Nat \X Nat : p[1] < p[2]}
<1>2. IsWellFoundedOn(Less, Nat)
  BY NatLessThanWellFounded DEF OpToRel
<1>3. \A k, j \in Nat : ~ (<<j, k>> \in Less) => k <= j
  OBVIOUS
<1> HIDE DEF Less
<1>4. PICK k \in At : \A j \in At : ~ (<<j, k>> \in Less)
  BY <1>1, <1>2, WFMin, Zenon
<1>5. k \in DOMAIN list /\ list[k] = i
      /\ \A j \in DOMAIN list : list[j] = i => k <= j
  BY <1>1, <1>3, <1>4 DEF At
<1> QED
  BY <1>5 DEF FirstIndex

-----------------------------------------------------------------------------
(* The views and their order.                                              *)

\* What the operators on views leave alone.
Frame(n, w) ==
  /\ n.needsSetup = w.needsSetup
  /\ n.dashboards = w.dashboards
  /\ n.current = w.current
  /\ n.selected = w.selected
  /\ n.menuOpen = w.menuOpen

LEMMA TouchLemma ==
  ASSUME NEW w \in Window, NEW i \in Ids, NEW V \in SUBSET Ids,
         Ordered(w.order, V)
  PROVE  LET n == Touch(w, i)
         IN  /\ n \in Window
             /\ Frame(n, w)
             /\ n.views = w.views
             /\ n.loading = w.loading
             /\ Ordered(n.order, V \cup {i})
             /\ \A v \in V \cup {i} : <<v, i>> \in n.order
<1> DEFINE O == {p \in w.order : i # p[1] /\ i # p[2]}
                  \cup {<<v, i>> : v \in {u \in Ids : <<u, u>> \in w.order} \cup {i}}
           n == Touch(w, i)
<1>1. n = [w EXCEPT !.order = O]
  BY DEF Touch
<1>2. w.order \in SUBSET (V \X V)
  BY DEF Ordered
<1>3. {u \in Ids : <<u, u>> \in w.order} = V
  BY DEF Ordered
<1>4. O = {p \in w.order : i # p[1] /\ i # p[2]} \cup {<<v, i>> : v \in V \cup {i}}
  BY <1>3
<1>5. \A x, y \in V \cup {i} :
        <<x, y>> \in O <=> y = i \/ (x # i /\ <<x, y>> \in w.order)
  BY <1>4 DEF Ordered
<1>6. O \subseteq (V \cup {i}) \X (V \cup {i})
  <2>1. {p \in w.order : i # p[1] /\ i # p[2]} \subseteq V \X V
    BY <1>2
  <2>2. V \X V \subseteq (V \cup {i}) \X (V \cup {i})
    OBVIOUS
  <2>3. {<<v, i>> : v \in V \cup {i}} \subseteq (V \cup {i}) \X (V \cup {i})
    OBVIOUS
  <2> HIDE DEF O
  <2> QED
    BY <1>4, <2>1, <2>2, <2>3
<1> HIDE DEF O
<1>7. Ordered(O, V \cup {i})
  BY <1>5, <1>6 DEF Ordered
<1>8. O \in SUBSET (Ids \X Ids)
  BY <1>6
<1>9. n \in Window /\ Frame(n, w) /\ n.views = w.views
      /\ n.loading = w.loading /\ n.order = O
  BY <1>1, <1>8 DEF Window, Frame
<1> QED
  BY <1>5, <1>7, <1>9

LEMMA ReleaseLemma ==
  ASSUME NEW w \in Window, NEW S \in SUBSET Ids,
         Ordered(w.order, w.views), IsFiniteSet(w.views),
         w.loading \subseteq w.views
  PROVE  LET n == Release(w, S)
         IN  /\ n \in Window
             /\ Frame(n, w)
             /\ n.visible = w.visible
             /\ n.views = w.views \ S
             /\ n.loading \subseteq n.views
             /\ Ordered(n.order, n.views)
             /\ \A x, y \in n.views : <<x, y>> \in w.order => <<x, y>> \in n.order
             /\ IsFiniteSet(n.views)
             /\ Cardinality(n.views) <= Cardinality(w.views)
<1> DEFINE n == Release(w, S)
<1>1. n \in Window /\ Frame(n, w) /\ n.visible = w.visible
  BY DEF Release, Window, Frame, PageState
<1>2. n.views = w.views \ S /\ n.loading = w.loading \ S
      /\ n.order = {p \in w.order : p[1] \notin S /\ p[2] \notin S}
  BY DEF Release, Window
<1>3. Ordered(n.order, n.views)
      /\ \A x, y \in n.views : <<x, y>> \in w.order => <<x, y>> \in n.order
  BY <1>2 DEF Ordered
<1>4. IsFiniteSet(n.views) /\ Cardinality(n.views) <= Cardinality(w.views)
  BY <1>2, FS_Subset
<1> QED
  BY <1>1, <1>2, <1>3, <1>4

\* _view_for, called by show_index with the dashboard that is now current.
LEMMA ViewForLemma ==
  ASSUME NEW w \in Window, ViewsInv(w), HasCurrent(w), NEW i \in Ids,
         i = Current(w), i \in ListIds(w.dashboards)
  PROVE  LET n == ViewFor(w, i)
         IN  /\ n \in Window
             /\ Frame(n, w)
             /\ ViewsInv(n)
             /\ i \in n.views
             /\ \A v \in n.views : <<v, i>> \in n.order
<1>1. w.views \in SUBSET Ids /\ w.loading \in SUBSET Ids
  BY DEF Window
<1>2. /\ Ordered(w.order, w.views) /\ IsFiniteSet(w.views)
      /\ Cardinality(w.views) <= MaxLive /\ w.loading \subseteq w.views
      /\ w.views \subseteq ListIds(w.dashboards)
  BY DEF ViewsInv, OrderOfViews, Listed, WithinLimit
<1>3. CASE i \in w.views
  <2>1. ViewFor(w, i) = Touch(w, i)
    BY <1>3 DEF ViewFor
  <2>2. w.views \cup {i} = w.views
    BY <1>3
  <2> QED
    BY <1>1, <1>2, <1>3, <2>1, <2>2, TouchLemma
       DEF ViewsInv, OrderOfViews, Listed, WithinLimit, Frame
<1>4. CASE i \notin w.views
  <2> DEFINE m == NewView(w, i)
             t == Touch(m, i)
  <2>1. m \in Window /\ Frame(m, w) /\ m.views = w.views \cup {i}
        /\ m.loading = w.loading \cup {i} /\ m.order = w.order
    BY DEF NewView, Window, Frame, PageState
  <2> HIDE DEF m
  <2>2. /\ t \in Window /\ Frame(t, m) /\ t.views = m.views
        /\ t.loading = m.loading
        /\ Ordered(t.order, w.views \cup {i})
        /\ \A v \in w.views \cup {i} : <<v, i>> \in t.order
    BY <1>1, <1>2, <2>1, TouchLemma
  <2> HIDE DEF t
  <2>3. Frame(t, w)
    BY <2>1, <2>2 DEF Frame
  <2>4. /\ t.views = w.views \cup {i}
        /\ t.loading \subseteq t.views
        /\ t.views \subseteq ListIds(w.dashboards)
    BY <1>2, <2>1, <2>2
  <2>5. IsFiniteSet(t.views) /\ Cardinality(t.views) \in Nat
        /\ Cardinality(t.views) <= MaxLive + 1
    <3>1. MaxLive \in Nat
      BY WindowAssumption
    <3>2. Cardinality(w.views) \in Nat
      BY <1>2, FS_CardinalityType
    <3>3. IsFiniteSet(w.views \cup {i})
          /\ Cardinality(w.views \cup {i}) = Cardinality(w.views) + 1
      BY <1>2, <1>4, FS_AddElement
    <3>4. Cardinality(w.views \cup {i}) = Cardinality(t.views)
      BY <2>4
    <3> QED
      BY <1>2, <2>4, <3>1, <3>2, <3>3, <3>4
  <2>6. HasCurrent(t) /\ Current(t) = i
    BY <2>3 DEF Frame, HasCurrent, Current
  <2>7. ViewFor(w, i) = EvictSurplus(t)
    BY <1>4 DEF ViewFor, m, t
  <2>8. Evictable(t) = t.views \ {i}
    BY <2>2, <2>4, <2>6 DEF Evictable, Ordered
  <2>9. CASE ~ (Cardinality(t.views) > MaxLive /\ Evictable(t) # {})
    <3>1. EvictSurplus(t) = t
      BY <2>9 DEF EvictSurplus
    <3>2. Cardinality(t.views) <= MaxLive
      <4>1. CASE Evictable(t) = {}
        <5>1. t.views = {i}
          BY <2>4, <2>8, <4>1
        <5>2. Cardinality({i}) = 1
          BY FS_Singleton
        <5>3. MaxLive \in Nat /\ MaxLive # 0
          BY WindowAssumption
        <5> QED
          BY <5>1, <5>2, <5>3
      <4>2. CASE ~ (Cardinality(t.views) > MaxLive)
        BY <2>5, <4>2, WindowAssumption
      <4> QED
        BY <2>9, <4>1, <4>2
    <3> QED
      BY <2>2, <2>3, <2>4, <2>5, <2>7, <3>1, <3>2
         DEF ViewsInv, OrderOfViews, Listed, WithinLimit, Frame
  <2>10. CASE Cardinality(t.views) > MaxLive /\ Evictable(t) # {}
    <3> DEFINE v == Oldest(t, Evictable(t))
               r == Release(t, {v})
    <3>1. EvictSurplus(t) = r
      BY <2>10 DEF EvictSurplus
    <3>2. Evictable(t) \in SUBSET t.views /\ IsFiniteSet(Evictable(t))
      BY <2>5, <2>8, FS_Subset
    <3>3. v \in Evictable(t)
      BY <2>2, <2>4, <2>10, <3>2, OldestExists
    <3>4. v \in t.views /\ v # i /\ v \in Ids
      BY <1>1, <2>4, <2>8, <3>3
    <3> HIDE DEF v
    <3>5. /\ r \in Window /\ Frame(r, t) /\ r.views = t.views \ {v}
          /\ r.loading \subseteq r.views /\ Ordered(r.order, r.views)
          /\ \A x, y \in r.views : <<x, y>> \in t.order => <<x, y>> \in r.order
          /\ IsFiniteSet(r.views)
      <4>1. {v} \in SUBSET Ids
        BY <3>4
      <4>2. Ordered(t.order, t.views) /\ t.loading \subseteq t.views
        BY <2>2, <2>4
      <4> HIDE DEF r
      <4>3. r = Release(t, {v})
        BY DEF r
      <4> QED
        BY <2>2, <2>4, <2>5, <4>1, <4>2, <4>3, ReleaseLemma
    <3> HIDE DEF r
    <3>6. Cardinality(r.views) <= MaxLive
      BY <2>5, <3>4, <3>5, FS_RemoveElement, WindowAssumption
    <3>7. Frame(r, w)
      BY <2>3, <3>5 DEF Frame
    <3> QED
      BY <2>2, <2>4, <2>7, <3>1, <3>4, <3>5, <3>6, <3>7
         DEF ViewsInv, OrderOfViews, Listed, WithinLimit, Frame
  <2> QED
    BY <2>9, <2>10
<1> QED
  BY <1>3, <1>4

-----------------------------------------------------------------------------
(* Showing a dashboard.                                                    *)

\* The list and the chooser over it are as they were.
SameList(n, w) ==
  /\ n.dashboards = w.dashboards
  /\ n.menuOpen = w.menuOpen
  /\ n.selected = w.selected

\* show_index establishes the invariant from what the callers leave.
LEMMA ShowIndexLemma ==
  ASSUME NEW w \in Window, ViewsInv(w), SelectionInList(w),
         ~ w.needsSetup, w.dashboards # <<>>, NEW index \in Int
  PROVE  WindowInv(ShowIndex(w, index)) /\ SameList(ShowIndex(w, index), w)
<1> DEFINE L == Len(w.dashboards)
           k == index % L
           i == w.dashboards[k + 1]
           c == [w EXCEPT !.current = k]
           n == ViewFor(c, i)
           v == [n EXCEPT !.visible = i]
           s == SyncLoading(v)
<1>1. w.dashboards \in Seq(Ids) /\ L \in Nat \ {0}
  BY DEF Window
<1> HIDE DEF L
<1>a. k \in 0..(L - 1)
  BY <1>1
<1> HIDE DEF k
<1>2. k \in Int /\ k \in 0..(L - 1) /\ k + 1 \in DOMAIN w.dashboards
  BY <1>1, <1>a DEF L
<1>3. i \in Ids /\ i \in ListIds(w.dashboards)
  BY <1>1, <1>2 DEF ListIds
<1>4. ShowIndex(w, index) = s
  BY DEF ShowIndex, k, L
<1>5. /\ c \in Window /\ c.current = k /\ c.dashboards = w.dashboards
      /\ c.views = w.views /\ c.order = w.order /\ c.loading = w.loading
      /\ c.needsSetup = w.needsSetup /\ c.selected = w.selected
      /\ c.menuOpen = w.menuOpen
  BY <1>2 DEF Window
<1> HIDE DEF c
<1>6. ViewsInv(c) /\ HasCurrent(c) /\ Current(c) = i
  BY <1>1, <1>2, <1>5
     DEF ViewsInv, OrderOfViews, Listed, WithinLimit, HasCurrent, Current
<1>7. /\ n \in Window /\ Frame(n, c) /\ ViewsInv(n) /\ i \in n.views
      /\ \A u \in n.views : <<u, i>> \in n.order
  BY <1>3, <1>5, <1>6, ViewForLemma
<1> HIDE DEF n, i
<1>8. /\ s \in Window /\ s.visible = i /\ Frame(s, n)
      /\ s.views = n.views /\ s.order = n.order /\ s.loading = n.loading
      /\ s.cover = (HasCurrent(v) /\ Current(v) \in v.loading)
      /\ v.loading = n.loading /\ v.current = n.current
      /\ v.dashboards = n.dashboards
  BY <1>3, <1>7 DEF SyncLoading, Window, Frame
<1> HIDE DEF s, v
<1>9. /\ s.dashboards = w.dashboards /\ s.current = k
      /\ s.needsSetup = w.needsSetup /\ s.selected = w.selected
      /\ s.menuOpen = w.menuOpen
      /\ v.dashboards = w.dashboards /\ v.current = k
  BY <1>5, <1>7, <1>8 DEF Frame
<1>10. HasCurrent(s) /\ Current(s) = i /\ HasCurrent(v) /\ Current(v) = i
  BY <1>5, <1>6, <1>9 DEF HasCurrent, Current
<1>11. ViewsInv(s)
  BY <1>7, <1>8, <1>9 DEF ViewsInv, OrderOfViews, Listed, WithinLimit, Frame
<1>12. OnScreen(s)
  BY <1>7, <1>8, <1>9, <1>10 DEF OnScreen
<1>13. SelectionInList(s) /\ Synced(s)
  BY <1>8, <1>9, <1>10 DEF SelectionInList, Synced
<1> QED
  BY <1>4, <1>8, <1>9, <1>11, <1>12, <1>13 DEF WindowInv, SameList

\* With WindowInv for the assumption, whether there are dashboards or not.
LEMMA ShowKeeps ==
  ASSUME NEW w, WindowInv(w), NEW index \in Int
  PROVE  WindowInv(ShowIndex(w, index)) /\ SameList(ShowIndex(w, index), w)
<1>1. CASE w.dashboards = <<>>
  BY <1>1 DEF ShowIndex, SameList
<1>2. CASE w.dashboards # <<>>
  BY <1>2, ShowIndexLemma DEF WindowInv, OnScreen
<1> QED
  BY <1>1, <1>2

-----------------------------------------------------------------------------
(* The chooser and the overlays.                                           *)

\* What the invariant is about, the chooser's selection apart.
SameSurface(n, w) ==
  /\ n.needsSetup = w.needsSetup
  /\ n.dashboards = w.dashboards
  /\ n.current = w.current
  /\ n.views = w.views
  /\ n.order = w.order
  /\ n.visible = w.visible
  /\ n.loading = w.loading
  /\ n.cover = w.cover

LEMMA SurfaceKeeps ==
  ASSUME NEW w, WindowInv(w), NEW n \in Window, SameSurface(n, w),
         SelectionInList(n)
  PROVE  WindowInv(n)
<1>1. ViewsInv(n)
  BY DEF WindowInv, ViewsInv, OrderOfViews, Listed, WithinLimit, SameSurface
<1>2. OnScreen(n)
  BY DEF WindowInv, OnScreen, HasCurrent, Current, SameSurface
<1>3. Synced(n)
  BY DEF WindowInv, Synced, Current, SameSurface
<1> QED
  BY <1>1, <1>2, <1>3 DEF WindowInv

LEMMA SelectLemma ==
  ASSUME NEW w \in Window, NEW index \in Int
  PROVE  /\ Select(w, index) \in Window
         /\ SameSurface(Select(w, index), w)
         /\ SelectionInList(Select(w, index))
         /\ Select(w, index).menuOpen = w.menuOpen
         /\ index = w.selected /\ SelectionInList(w) => Select(w, index).selected = index
<1>1. CASE w.dashboards = <<>>
  BY <1>1 DEF Select, SameSurface, SelectionInList
<1>2. CASE w.dashboards # <<>>
  <2> DEFINE L == Len(w.dashboards)
             k == IF index < 0 THEN 0 ELSE IF index >= L THEN L - 1 ELSE index
  <2>1. L \in Nat \ {0}
    BY <1>2 DEF Window
  <2>2. k \in Nat /\ k < L
        /\ (index = w.selected /\ SelectionInList(w) => k = index)
    BY <1>2, <2>1 DEF Window, SelectionInList
  <2>3. Select(w, index) = [w EXCEPT !.selected = k]
    BY <1>2 DEF Select
  <2> HIDE DEF k
  <2> QED
    BY <2>2, <2>3 DEF Window, SameSurface, SelectionInList
<1> QED
  BY <1>1, <1>2

LEMMA ToastKeeps ==
  ASSUME NEW w, WindowInv(w)
  PROVE  WindowInv(Toast(w))
<1>1. Toast(w) \in Window /\ SameSurface(Toast(w), w)
      /\ Toast(w).selected = w.selected
  BY DEF Toast, WindowInv, Window, SameSurface
<1> QED
  BY <1>1, SurfaceKeeps DEF WindowInv, SelectionInList, SameSurface

LEMMA MenuCloseKeeps ==
  ASSUME NEW w, WindowInv(w)
  PROVE  WindowInv(MenuClose(w)) /\ SameSurface(MenuClose(w), w)
<1>1. MenuClose(w) \in Window /\ SameSurface(MenuClose(w), w)
      /\ MenuClose(w).selected = w.selected
  BY DEF MenuClose, WindowInv, Window, SameSurface
<1> QED
  BY <1>1, SurfaceKeeps DEF WindowInv, SelectionInList, SameSurface

LEMMA MenuOpenKeeps ==
  ASSUME NEW w, WindowInv(w)
  PROVE  WindowInv(MenuOpen(w))
<1> DEFINE m == Select(w, w.current)
           n == [m EXCEPT !.menuOpen = TRUE]
<1>1. w \in Window /\ w.current \in Int
  BY DEF WindowInv, Window
<1>2. m \in Window /\ SameSurface(m, w) /\ SelectionInList(m)
  BY <1>1, SelectLemma
<1> HIDE DEF m
<1>3. n \in Window /\ SameSurface(n, w) /\ SelectionInList(n)
  BY <1>2 DEF Window, SameSurface, SelectionInList
<1>4. MenuOpen(w) = w \/ MenuOpen(w) = n
  BY DEF MenuOpen, m
<1> QED
  BY <1>3, <1>4, SurfaceKeeps

LEMMA MenuMoveKeeps ==
  ASSUME NEW w, WindowInv(w), NEW delta \in Int
  PROVE  WindowInv(MenuMove(w, delta))
<1>1. CASE w.dashboards = <<>>
  BY <1>1 DEF MenuMove
<1>2. CASE w.dashboards # <<>>
  <2> DEFINE L == Len(w.dashboards)
             k == (w.selected + delta) % L
  <2>1. w \in Window /\ L \in Nat \ {0} /\ w.selected \in Nat
    BY <1>2 DEF WindowInv, Window
  <2> HIDE DEF L
  <2>2. k \in Int
    BY <2>1
  <2>3. MenuMove(w, delta) = Select(w, k)
    BY <1>2 DEF MenuMove, L
  <2> HIDE DEF k
  <2> QED
    BY <2>1, <2>2, <2>3, SelectLemma, SurfaceKeeps
<1> QED
  BY <1>1, <1>2

LEMMA MenuActivateKeeps ==
  ASSUME NEW w, WindowInv(w), NEW index \in Int
  PROVE  WindowInv(MenuActivate(w, index))
BY MenuCloseKeeps, ShowKeeps DEF MenuActivate

-----------------------------------------------------------------------------
(* The list the server allows.                                             *)

LEMMA AssignListLemma ==
  ASSUME NEW w \in Window, NEW list \in Seq(Ids)
  PROVE  LET n == AssignList(w, list)
         IN  /\ n \in Window
             /\ n.dashboards = list
             /\ n.needsSetup = w.needsSetup
             /\ n.views = w.views
             /\ n.order = w.order
             /\ n.loading = w.loading
             /\ SelectionInList(n)
             /\ n.menuOpen = w.menuOpen
             /\ list = w.dashboards /\ SelectionInList(w) => n.selected = w.selected
<1> DEFINE m == [w EXCEPT !.dashboards = list]
<1>1. /\ m \in Window /\ m.dashboards = list /\ m.needsSetup = w.needsSetup
      /\ m.menuOpen = w.menuOpen
      /\ m.views = w.views /\ m.order = w.order /\ m.loading = w.loading
      /\ m.selected = w.selected
  <2>1. m \in Window
    BY DEF Window
  <2> QED
    BY <2>1 DEF Window
<1>3. w.selected \in Int
  BY DEF Window
<1>2. AssignList(w, list) = Select(m, m.selected)
  BY DEF AssignList
<1> HIDE DEF m
<1>4. list = w.dashboards /\ SelectionInList(w) => SelectionInList(m)
  BY <1>1 DEF SelectionInList
<1>5. LET n == Select(m, m.selected)
      IN  /\ n \in Window /\ SameSurface(n, m) /\ SelectionInList(n)
          /\ n.menuOpen = m.menuOpen
          /\ SelectionInList(m) => n.selected = m.selected
  BY <1>1, <1>3, SelectLemma
<1> QED
  BY <1>1, <1>2, <1>4, <1>5 DEF SameSurface

LEMMA SetDashboardsKeeps ==
  ASSUME NEW w, WindowInv(w), NEW list \in Seq(Ids)
  PROVE  LET n == SetDashboards(w, list)
         IN  /\ WindowInv(n)
             /\ ~ w.needsSetup => n.dashboards = list
             /\ w.dashboards = list => SameList(n, w)
<1> DEFINE a == AssignList(w, list)
           stale == a.views \ ListIds(list)
           d == Release(a, stale)
           e == Toast([d EXCEPT !.visible = Placeholder, !.current = -1])
<1>1. w \in Window /\ Ordered(w.order, w.views) /\ IsFiniteSet(w.views)
      /\ Cardinality(w.views) <= MaxLive /\ w.loading \subseteq w.views
  BY DEF WindowInv, ViewsInv, OrderOfViews, Listed, WithinLimit
<1>2. /\ a \in Window /\ a.dashboards = list
      /\ a.needsSetup = w.needsSetup /\ a.views = w.views
      /\ a.order = w.order /\ a.loading = w.loading /\ SelectionInList(a)
      /\ (w.dashboards = list => SameList(a, w))
  BY <1>1, AssignListLemma DEF WindowInv, SameList
<1>3. stale \in SUBSET Ids
  BY <1>2 DEF Window
<1>4. d = DropStaleViews(a, ListIds(list))
  BY DEF DropStaleViews
<1> HIDE DEF a
<1>5. /\ d \in Window /\ Frame(d, a) /\ d.views = a.views \ stale
      /\ d.loading \subseteq d.views /\ Ordered(d.order, d.views)
      /\ IsFiniteSet(d.views) /\ Cardinality(d.views) <= Cardinality(a.views)
  BY <1>1, <1>2, <1>3, ReleaseLemma
<1>6. d.views \subseteq ListIds(list)
  BY <1>5
<1> HIDE DEF d, stale
<1>7. d.dashboards = list /\ d.needsSetup = w.needsSetup /\ SelectionInList(d)
      /\ (w.dashboards = list => SameList(d, w))
  BY <1>2, <1>5 DEF Frame, SelectionInList, SameList
<1>8. Cardinality(d.views) <= MaxLive
  <2>1. /\ Cardinality(d.views) \in Nat /\ Cardinality(w.views) \in Nat
        /\ MaxLive \in Nat
    BY <1>1, <1>5, FS_CardinalityType, WindowAssumption
  <2> QED
    BY <1>1, <1>2, <1>5, <2>1
<1>9. ViewsInv(d)
  BY <1>5, <1>6, <1>7, <1>8 DEF ViewsInv, OrderOfViews, Listed, WithinLimit
<1>10. CASE w.needsSetup
  BY <1>10 DEF SetDashboards, SameList
<1>11. CASE ~ w.needsSetup /\ list = <<>>
  <2>1. SetDashboards(w, list) = e
    BY <1>4, <1>11 DEF SetDashboards, a
  <2>2. /\ e \in Window /\ e.current = -1 /\ e.visible = Placeholder
        /\ e.needsSetup = d.needsSetup /\ e.dashboards = d.dashboards
        /\ e.views = d.views /\ e.order = d.order /\ e.loading = d.loading
        /\ SameList(e, d)
    <3> DEFINE f == [d EXCEPT !.visible = Placeholder, !.current = -1]
    <3>1. /\ f \in Window /\ f.current = -1 /\ f.visible = Placeholder
          /\ f.needsSetup = d.needsSetup /\ f.dashboards = d.dashboards
          /\ f.views = d.views /\ f.order = d.order /\ f.loading = d.loading
          /\ SameList(f, d)
      <4>1. d \in Window
        BY <1>5
      <4>2. f \in Window
        <5> DEFINE g == [d EXCEPT !.visible = Placeholder]
        <5>1. g \in Window
          BY <4>1 DEF Window
        <5>2. f = [g EXCEPT !.current = -1]
          OBVIOUS
        <5> HIDE DEF f, g
        <5>3. -1 \in Int
          OBVIOUS
        <5> QED
          BY <5>1, <5>2, <5>3 DEF Window
      <4> QED
        BY <4>1, <4>2 DEF Window, SameList
    <3> HIDE DEF f
    <3>2. e = [f EXCEPT !.toast = TRUE]
      BY DEF Toast, f
    <3> HIDE DEF e
    <3> QED
      BY <3>1, <3>2 DEF Window, SameList
  <2> HIDE DEF e
  <2>3. e.views = {}
    BY <1>6, <1>11, <2>2 DEF ListIds
  <2>4. ViewsInv(e)
    BY <1>7, <1>9, <2>2 DEF ViewsInv, OrderOfViews, Listed, WithinLimit
  <2>5. OnScreen(e) /\ SelectionInList(e) /\ Synced(e)
    BY <1>7, <1>11, <2>2, <2>3 DEF OnScreen, SelectionInList, Synced
  <2> QED
    BY <1>7, <2>1, <2>2, <2>4, <2>5 DEF WindowInv, SameList
<1>12. CASE ~ w.needsSetup /\ list # <<>>
  <2>1. \A index \in Int : WindowInv(ShowIndex(d, index))
                            /\ SameList(ShowIndex(d, index), d)
    BY <1>5, <1>7, <1>9, <1>12, ShowIndexLemma
  <2>2. ASSUME HasCurrent(w), Current(w) \in ListIds(list)
        PROVE  FirstIndex(list, Current(w)) \in Int
    BY <2>2, FirstIndexExists
  <2>3. \E index \in Int : SetDashboards(w, list) = ShowIndex(d, index)
    BY <1>4, <1>12, <2>2 DEF SetDashboards, a
  <2> QED
    BY <1>7, <2>1, <2>3 DEF SameList
<1> QED
  BY <1>10, <1>11, <1>12

LEMMA ApplyListKeeps ==
  ASSUME NEW w, WindowInv(w), NEW list \in Seq(Ids), NEW wanted
  PROVE  LET n == ApplyList(w, list, wanted)
         IN  /\ WindowInv(n)
             /\ ~ w.needsSetup => n.dashboards = list
             /\ w.dashboards = list => SameList(n, w)
<1> DEFINE n == SetDashboards(w, list)
<1>1. /\ WindowInv(n)
      /\ ~ w.needsSetup => n.dashboards = list
      /\ w.dashboards = list => SameList(n, w)
  BY SetDashboardsKeeps
<1> HIDE DEF n
<1>2. WindowInv(SelectStart(n, wanted)) /\ SameList(SelectStart(n, wanted), n)
  <2>1. CASE wanted \in ListIds(n.dashboards)
    <3>1. FirstIndex(n.dashboards, wanted) \in Int
      BY <1>1, <2>1, FirstIndexExists DEF WindowInv, Window
    <3> QED
      BY <1>1, <2>1, <3>1, ShowKeeps DEF SelectStart
  <2>2. CASE wanted \notin ListIds(n.dashboards)
    BY <1>1, <2>2 DEF SelectStart, SameList
  <2> QED
    BY <2>1, <2>2
<1> QED
  BY <1>1, <1>2 DEF ApplyList, SameList, n

\* A list that still allows the dashboard on screen leaves its page, its
\* cover and every page still allowed as they are.
LEMMA RefreshKeeps ==
  ASSUME NEW w, WindowInv(w), HasCurrent(w), NEW list \in Seq(Ids),
         Current(w) \in ListIds(list), NEW wanted
  PROVE  LET n == ApplyList(w, list, wanted)
         IN  /\ n.visible = w.visible
             /\ n.cover = w.cover
             /\ n.views = w.views \cap ListIds(list)
             /\ \A i \in n.views : n.page[i] = w.page[i]
<1> DEFINE c == Current(w)
           k == FirstIndex(list, c)
           a == AssignList(w, list)
           d == Release(a, a.views \ ListIds(list))
           e == [d EXCEPT !.current = k]
           t == Touch(e, c)
           v == [t EXCEPT !.visible = c]
           n == SyncLoading(v)
<1>1. w \in Window /\ w.dashboards # <<>> /\ list # <<>>
  BY DEF WindowInv, Window, HasCurrent, ListIds
<1>2. /\ ~ w.needsSetup /\ c \in w.views /\ w.visible = c
      /\ w.cover = (c \in w.loading)
  BY <1>1 DEF WindowInv, OnScreen, Synced
<1>3. k \in 0..(Len(list) - 1) /\ list[k + 1] = c /\ c \in Ids
  <2>1. c \in Ids
    BY DEF ListIds
  <2> QED
    BY <2>1, FirstIndexExists
<1>4. ApplyList(w, list, wanted) = ShowIndex(d, k)
  BY <1>1, <1>2 DEF ApplyList, SetDashboards, DropStaleViews
<1>5. /\ a \in Window /\ a.dashboards = list /\ a.views = w.views
      /\ a.loading = w.loading
  BY <1>1, AssignListLemma
<1>6. a.page = w.page
  <2> DEFINE m == [w EXCEPT !.dashboards = list]
  <2>1. m.page = w.page /\ a = Select(m, m.selected)
    BY <1>1 DEF AssignList, Window
  <2>2. m \in Window
    BY <1>1 DEF Window
  <2> HIDE DEF m, a
  <2> QED
    BY <2>1, <2>2 DEF Select, Window
<1> HIDE DEF c, k, a
<1>7. /\ d.dashboards = list /\ d.views = w.views \cap ListIds(list)
      /\ d.loading = w.loading \ (w.views \ ListIds(list))
      /\ d.page = [i \in Ids |-> IF i \in w.views \ ListIds(list)
                                 THEN "none" ELSE w.page[i]]
      /\ d \in Window
  <2>1. d \in Window
    BY <1>5 DEF Release, Window, PageState
  <2> QED
    BY <1>5, <1>6, <2>1 DEF Release, Window
<1> HIDE DEF d
<1>8. /\ e \in Window /\ e.dashboards = list /\ e.views = d.views
      /\ e.loading = d.loading /\ e.page = d.page /\ e.current = k
  BY SMTT(30), <1>3, <1>7 DEF Window
<1>9. k % Len(list) = k
  BY <1>3
<1>10. c \in e.views
  BY <1>2, <1>7, <1>8 DEF c
<1>11. ShowIndex(d, k) = n
  BY <1>1, <1>3, <1>7, <1>9, <1>10 DEF ShowIndex, ViewFor
<1> HIDE DEF e
<1>12. /\ v.dashboards = list /\ v.views = d.views /\ v.loading = d.loading
       /\ v.page = d.page /\ v.current = k /\ v.visible = c
  BY <1>8 DEF Touch, Window
<1>13. /\ n.visible = v.visible /\ n.views = v.views /\ n.page = v.page
       /\ n.cover = (HasCurrent(v) /\ Current(v) \in v.loading)
  <2>1. v \in [DOMAIN v -> {v[x] : x \in DOMAIN v}] /\ DOMAIN v = DOMAIN w
    BY ZenonT(40), <1>1, <1>8 DEF Touch, Window
  <2> HIDE DEF v
  <2> QED
    BY <1>1, <2>1 DEF SyncLoading, Window
<1> HIDE DEF v, n
<1>14. HasCurrent(v) /\ Current(v) = c
  BY <1>3, <1>12 DEF HasCurrent, Current
<1>15. n.cover = w.cover
  BY <1>2, <1>7, <1>12, <1>13, <1>14 DEF c
<1>16. \A i \in n.views : n.page[i] = w.page[i]
  <2>1. w.views \subseteq Ids
    BY <1>1 DEF Window
  <2> QED
    BY <1>7, <1>12, <1>13, <2>1
<1> QED
  BY <1>2, <1>4, <1>7, <1>11, <1>12, <1>13, <1>15, <1>16

LEMMA LeaveSetupKeeps ==
  ASSUME NEW w, WindowInv(w)
  PROVE  WindowInv(LeaveSetup(w))
<1> DEFINE n == [w EXCEPT !.needsSetup = FALSE, !.visible = Placeholder]
<1>1. CASE ~ w.needsSetup
  BY <1>1 DEF LeaveSetup
<1>2. CASE w.needsSetup
  <2>1. LeaveSetup(w) = n
    BY <1>2 DEF LeaveSetup
  <2>2. w.dashboards = <<>> /\ w.current = -1 /\ w.views = {}
    BY <1>2 DEF WindowInv, OnScreen
  <2>3. /\ n \in Window /\ ~ n.needsSetup /\ n.visible = Placeholder
        /\ n.dashboards = w.dashboards /\ n.current = w.current
        /\ n.views = w.views /\ n.order = w.order /\ n.loading = w.loading
        /\ n.selected = w.selected
    BY DEF WindowInv, Window
  <2> HIDE DEF n
  <2>4. ViewsInv(n)
    BY <2>3 DEF WindowInv, ViewsInv, OrderOfViews, Listed, WithinLimit
  <2> QED
    BY <2>1, <2>2, <2>3, <2>4 DEF WindowInv, OnScreen, SelectionInList, Synced
<1> QED
  BY <1>1, <1>2

-----------------------------------------------------------------------------
(* Keys.                                                                   *)

LEMMA MenuKeysKeep ==
  ASSUME NEW w, WindowInv(w), NEW delta \in Int
  PROVE  /\ WindowInv(MenuToggle(w))
         /\ WindowInv(MenuStep(w, delta))
         /\ WindowInv(Activate(w))
<1>1. w.selected \in Int
  BY DEF WindowInv, Window
<1> QED
  BY <1>1, MenuCloseKeeps, MenuOpenKeeps, MenuMoveKeeps, MenuActivateKeeps
     DEF MenuToggle, MenuStep, Activate

\* The keys of the chooser leave the list alone.
LEMMA MenuKeysList ==
  ASSUME NEW w, WindowInv(w), NEW delta \in Int
  PROVE  /\ MenuClose(w).dashboards = w.dashboards
         /\ MenuOpen(w).dashboards = w.dashboards
         /\ MenuMove(w, delta).dashboards = w.dashboards
         /\ MenuActivate(w, w.selected).dashboards = w.dashboards
<1>1. w \in Window /\ w.current \in Int /\ w.selected \in Int
  BY DEF WindowInv, Window
<1>2. WindowInv(MenuClose(w)) /\ MenuClose(w).dashboards = w.dashboards
  BY MenuCloseKeeps DEF SameSurface
<1>3. MenuOpen(w).dashboards = w.dashboards
  <2> DEFINE m == Select(w, w.current)
  <2>1. m \in Window /\ m.dashboards = w.dashboards
    BY <1>1, SelectLemma DEF SameSurface
  <2>2. MenuOpen(w) \in {w, [m EXCEPT !.menuOpen = TRUE]}
    BY DEF MenuOpen
  <2> HIDE DEF m
  <2> QED
    BY <2>1, <2>2 DEF Window
<1>4. MenuMove(w, delta).dashboards = w.dashboards
  <2>1. CASE w.dashboards = <<>>
    BY <2>1 DEF MenuMove
  <2>2. CASE w.dashboards # <<>>
    <3> DEFINE L == Len(w.dashboards)
               k == (w.selected + delta) % L
    <3>1. L \in Nat \ {0}
      BY <1>1, <2>2 DEF Window
    <3> HIDE DEF L
    <3>2. k \in Int
      BY <1>1, <3>1
    <3>3. MenuMove(w, delta) = Select(w, k)
      BY <2>2 DEF MenuMove, L
    <3> HIDE DEF k
    <3>4. SameSurface(Select(w, k), w)
      BY <1>1, <3>2, SelectLemma
    <3> QED
      BY <3>3, <3>4 DEF SameSurface
  <2> QED
    BY <2>1, <2>2
<1>5. MenuActivate(w, w.selected).dashboards = w.dashboards
  BY <1>1, <1>2, ShowKeeps DEF MenuActivate, SameList
<1> QED
  BY <1>2, <1>3, <1>4, <1>5

LEMMA ShowKeysKeep ==
  ASSUME NEW w, WindowInv(w), NEW delta \in Int, NEW digit \in 0..9
  PROVE  /\ WindowInv(Step(w, delta))
         /\ WindowInv(JumpToDigit(w, digit))
         /\ WindowInv(ReloadCurrent(w))
<1>1. w.current \in Int
  BY DEF WindowInv, Window
<1>2. WindowInv(ShowIndex(w, w.current + delta))
  BY <1>1, ShowKeeps
<1>3. WindowInv(Step(w, delta))
  BY <1>2, MenuMoveKeeps, ToastKeeps DEF Step
<1>4. WindowInv(JumpToDigit(w, digit))
  <2> DEFINE index == IF digit > 0 THEN digit - 1 ELSE 9
  <2>1. index \in Int
    OBVIOUS
  <2>2. JumpToDigit(w, digit) = w
        \/ JumpToDigit(w, digit) = Toast(ShowIndex(MenuClose(w), index))
    BY DEF JumpToDigit
  <2> HIDE DEF index
  <2> QED
    BY <2>1, <2>2, MenuCloseKeeps, ShowKeeps, ToastKeeps
<1>5. WindowInv(ReloadCurrent(w))
  BY ToastKeeps DEF ReloadCurrent
<1> QED
  BY <1>3, <1>4, <1>5

-----------------------------------------------------------------------------
(* Signals of a view.                                                      *)

\* A change of loading and page followed by _sync_loading.
LEMMA SyncKeeps ==
  ASSUME NEW w, WindowInv(w), NEW L \in SUBSET w.views,
         NEW P \in [Ids -> PageState]
  PROVE  WindowInv(SyncLoading([w EXCEPT !.loading = L, !.page = P]))
<1> DEFINE m == [w EXCEPT !.loading = L, !.page = P]
           c == HasCurrent(m) /\ Current(m) \in m.loading
           n == [m EXCEPT !.cover = c]
<1>1. w \in Window /\ L \in SUBSET Ids
  BY DEF WindowInv, Window
<1>2. m \in Window /\ m.loading = L
      /\ m.needsSetup = w.needsSetup /\ m.dashboards = w.dashboards
      /\ m.current = w.current /\ m.views = w.views /\ m.order = w.order
      /\ m.visible = w.visible /\ m.selected = w.selected
  BY <1>1 DEF Window
<1>3. SyncLoading(m) = n
  BY DEF SyncLoading
<1> HIDE DEF m
<1>4. c \in BOOLEAN
  OBVIOUS
<1>5. /\ n \in Window /\ n.loading = L /\ n.cover = c
      /\ n.needsSetup = w.needsSetup /\ n.dashboards = w.dashboards
      /\ n.current = w.current /\ n.views = w.views /\ n.order = w.order
      /\ n.visible = w.visible /\ n.selected = w.selected
  <2> HIDE DEF c
  <2> QED
    BY <1>2, <1>4 DEF Window
<1> HIDE DEF n
<1>6. ViewsInv(n)
  BY <1>5 DEF WindowInv, ViewsInv, OrderOfViews, Listed, WithinLimit
<1>7. OnScreen(n) /\ SelectionInList(n)
  BY <1>5 DEF WindowInv, OnScreen, HasCurrent, Current, SelectionInList
<1>8. Synced(n)
  BY <1>2, <1>5, <1>7 DEF Synced, OnScreen, HasCurrent, Current
<1> QED
  BY <1>3, <1>5, <1>6, <1>7, <1>8 DEF WindowInv, m

LEMMA SignalsKeep ==
  ASSUME NEW w, WindowInv(w), NEW i \in w.views
  PROVE  /\ WindowInv(OnLoadStarted(w, i))
         /\ WindowInv(OnLoadFinished(w, i))
         /\ WindowInv(OnLoadFailed(w, i))
<1>1. w \in Window /\ w.page \in [Ids -> PageState] /\ i \in Ids
  BY DEF WindowInv, Window
<1>2. w.loading \subseteq w.views
  BY DEF WindowInv, ViewsInv, Listed
<1>3. WindowInv(OnLoadStarted(w, i))
  <2> DEFINE P == [w.page EXCEPT ![i] = IF @ = "first" THEN @ ELSE "again"]
             L == w.loading \cup {i}
  <2>1. P \in [Ids -> PageState] /\ L \in SUBSET w.views
    BY <1>1, <1>2 DEF PageState
  <2>2. OnLoadStarted(w, i) = SyncLoading([w EXCEPT !.loading = L, !.page = P])
    BY <1>1 DEF OnLoadStarted, Window
  <2> HIDE DEF P, L
  <2> QED
    BY <2>1, <2>2, SyncKeeps
<1>4. WindowInv(OnLoadFinished(w, i))
  <2> DEFINE P == [w.page EXCEPT ![i] = IF @ = "failed" THEN @ ELSE "loaded"]
             L == w.loading \ {i}
  <2>1. P \in [Ids -> PageState] /\ L \in SUBSET w.views
    BY <1>1, <1>2 DEF PageState
  <2>2. OnLoadFinished(w, i) = SyncLoading([w EXCEPT !.loading = L, !.page = P])
    BY <1>1 DEF OnLoadFinished, Window
  <2> HIDE DEF P, L
  <2> QED
    BY <2>1, <2>2, SyncKeeps
<1>5. WindowInv(OnLoadFailed(w, i))
  <2> DEFINE P == [w.page EXCEPT ![i] = "failed"]
             L == w.loading \ {Current(w)}
             f == [w EXCEPT !.page[i] = "failed"]
  <2>1. P \in [Ids -> PageState] /\ L \in SUBSET w.views
    BY <1>1, <1>2 DEF PageState
  <2>2. HasCurrent(f) = HasCurrent(w) /\ Current(f) = Current(w)
    BY <1>1 DEF HasCurrent, Current, Window
  <2>3. HasCurrent(w)
    BY DEF WindowInv, OnScreen
  <2>4. OnLoadFailed(w, i)
          = Toast(SyncLoading([f EXCEPT !.loading = @ \ {Current(f)}]))
    BY <2>2, <2>3 DEF OnLoadFailed
  <2>5. [f EXCEPT !.loading = @ \ {Current(f)}]
          = [w EXCEPT !.loading = L, !.page = P]
    BY <1>1, <2>2 DEF Window
  <2> HIDE DEF P, L, f
  <2>6. WindowInv(SyncLoading([w EXCEPT !.loading = L, !.page = P]))
    BY <2>1, SyncKeeps
  <2> QED
    BY <2>4, <2>5, <2>6, ToastKeeps
<1> QED
  BY <1>3, <1>4, <1>5

-----------------------------------------------------------------------------
(* The specification.                                                      *)

LEMMA NewWindowKeeps ==
  ASSUME NEW b \in BOOLEAN
  PROVE  WindowInv(NewWindow(b))
<1> DEFINE n == NewWindow(b)
<1>1. -1 \in Int /\ <<>> \in Seq(Ids)
  OBVIOUS
<1>2. n \in Window
  BY <1>1 DEF NewWindow, Window, PageState
<1>3. ViewsInv(n)
  <2>1. IsFiniteSet({}) /\ Cardinality({}) = 0
    BY FS_EmptySet
  <2> QED
    BY <2>1, WindowAssumption
       DEF NewWindow, ViewsInv, OrderOfViews, Ordered, Listed, WithinLimit
<1>4. OnScreen(n) /\ SelectionInList(n) /\ Synced(n)
  BY DEF NewWindow, OnScreen, SelectionInList, Synced
<1> QED
  BY <1>2, <1>3, <1>4 DEF WindowInv

LEMMA InitInv == Init => IInv
BY NewWindowKeeps DEF Init, IInv

LEMMA NextInv == IInv /\ [Next]_win => IInv'
<1> SUFFICES ASSUME WindowInv(win), [Next]_win PROVE WindowInv(win')
  BY DEF IInv
<1>1. CASE Apply
  BY <1>1, ApplyListKeeps, WindowAssumption DEF Apply
<1>2. CASE SetupDone
  BY <1>2, LeaveSetupKeeps DEF SetupDone
<1>3. CASE KeyMenu
  BY <1>3, MenuKeysKeep, MenuCloseKeeps DEF KeyMenu
<1>4. CASE KeyShow
  <2>1. 1 \in Int /\ -1 \in Int /\ 0 \in Int /\ 0 \in 0..9
    OBVIOUS
  <2>2. \A n \in {Step(win, 1), Step(win, -1), ReloadCurrent(win),
                  ShowIndex(win, 0)} : WindowInv(n)
    BY <2>1, ShowKeysKeep, ShowKeeps
  <2>3. \A digit \in 0..9 : WindowInv(JumpToDigit(win, digit))
    BY <2>1, ShowKeysKeep
  <2> QED
    BY <1>4, <2>2, <2>3 DEF KeyShow
<1>5. CASE RowActivated
  <2>1. PICK k \in DOMAIN win.dashboards : win' = MenuActivate(win, k - 1)
    BY <1>5 DEF RowActivated
  <2>2. k - 1 \in Int
    BY DEF WindowInv, Window
  <2> QED
    BY <2>1, <2>2, MenuActivateKeeps
<1>6. CASE KeyChrome \/ HideToast
  <2>1. win' \in Window /\ SameSurface(win', win) /\ win'.selected = win.selected
    BY ZenonT(40), <1>6 DEF KeyChrome, HideToast, WindowInv, Window, SameSurface
  <2> QED
    BY <2>1, SurfaceKeeps DEF WindowInv, SelectionInList, SameSurface
<1>7. CASE LoadStarted \/ LoadFinished \/ LoadFailed
  BY <1>7, SignalsKeep DEF LoadStarted, LoadFinished, LoadFailed
<1>8. CASE win' = win
  BY <1>8
<1> QED
  BY <1>1, <1>2, <1>3, <1>4, <1>5, <1>6, <1>7, <1>8 DEF Next

\* Only a list from the server changes the list.
LEMMA OthersKeepList ==
  ASSUME WindowInv(win), Next, ~ Apply
  PROVE  win'.dashboards = win.dashboards
<1>1. win \in Window /\ win.current \in Int /\ win.selected \in Int
  BY DEF WindowInv, Window
<1>2. \A n \in Window : Toast(n).dashboards = n.dashboards
  BY DEF Toast, Window
<1>3. CASE SetupDone \/ KeyChrome \/ HideToast
  BY ZenonT(40), <1>1, <1>3 DEF SetupDone, LeaveSetup, KeyChrome, HideToast, Window
<1>4. CASE KeyMenu
  <2>1. -1 \in Int /\ 1 \in Int
    OBVIOUS
  <2> QED
    BY <1>4, <2>1, MenuKeysList DEF KeyMenu, MenuToggle, MenuStep, Activate
<1>5. CASE KeyShow
  <2>1. \A index \in Int : /\ ShowIndex(win, index) \in Window
                          /\ ShowIndex(win, index).dashboards = win.dashboards
    BY ShowKeeps DEF SameList, WindowInv
  <2>2. \A index \in Int :
          /\ ShowIndex(MenuClose(win), index) \in Window
          /\ ShowIndex(MenuClose(win), index).dashboards = win.dashboards
    BY ShowKeeps, MenuCloseKeeps DEF SameList, SameSurface, WindowInv
  <2>3. \A delta \in {-1, 1} : Step(win, delta).dashboards = win.dashboards
    <3> TAKE delta \in {-1, 1}
    <3>1. win.current + delta \in Int /\ delta \in Int
      BY <1>1
    <3> DEFINE index == win.current + delta
    <3>2. ShowIndex(win, index) \in Window
          /\ ShowIndex(win, index).dashboards = win.dashboards
      BY <2>1, <3>1
    <3>3. MenuMove(win, delta).dashboards = win.dashboards
      BY <3>1, MenuKeysList
    <3>4. Step(win, delta) \in {MenuMove(win, delta), Toast(ShowIndex(win, index)), win}
      BY DEF Step
    <3> HIDE DEF index
    <3> QED
      BY <1>2, <3>2, <3>3, <3>4
  <2>4. \A digit \in 0..9 : JumpToDigit(win, digit).dashboards = win.dashboards
    <3> TAKE digit \in 0..9
    <3> DEFINE index == IF digit > 0 THEN digit - 1 ELSE 9
    <3>1. index \in Int
      OBVIOUS
    <3>2. JumpToDigit(win, digit) \in {win, Toast(ShowIndex(MenuClose(win), index))}
      BY DEF JumpToDigit
    <3> HIDE DEF index
    <3> QED
      BY <1>2, <2>2, <3>1, <3>2
  <2>5. ReloadCurrent(win).dashboards = win.dashboards
    BY <1>1, <1>2 DEF ReloadCurrent
  <2>6. ShowIndex(win, 0).dashboards = win.dashboards
    BY <2>1
  <2> QED
    BY <1>5, <2>3, <2>4, <2>5, <2>6 DEF KeyShow
<1>6. CASE RowActivated
  <2>1. PICK k \in DOMAIN win.dashboards : win' = MenuActivate(win, k - 1)
    BY <1>6 DEF RowActivated
  <2>2. k - 1 \in Int
    BY <1>1 DEF Window
  <2>3. WindowInv(MenuClose(win)) /\ MenuClose(win).dashboards = win.dashboards
    BY MenuCloseKeeps DEF SameSurface
  <2> QED
    BY <2>1, <2>2, <2>3, ShowKeeps DEF MenuActivate, SameList
<1>7. CASE LoadStarted \/ LoadFinished \/ LoadFailed
  BY ZenonT(60), <1>1, <1>7 DEF LoadStarted, LoadFinished, LoadFailed, OnLoadStarted,
     OnLoadFinished, OnLoadFailed, SyncLoading, Toast, Window
<1> QED
  BY <1>3, <1>4, <1>5, <1>6, <1>7 DEF Next

\* A call that leaves the window without dashboards leaves the cover as it was.
LEMMA CoverStands ==
  ASSUME WindowInv(win), [Next]_win, win'.dashboards = <<>>
  PROVE  win'.cover = win.cover
<1>1. win \in Window
  BY DEF WindowInv
<1>2. ListIds(<<>>) = {} /\ Len(<<>>) = 0
  BY DEF ListIds
<1>3. CASE Apply
  <2>1. PICK list \in Seq(Ids), wanted \in Ids \cup {NoId} : win' = ApplyList(win, list, wanted)
    BY <1>3, WindowAssumption DEF Apply
  <2>2. CASE win.needsSetup
    <3>1. win.dashboards = <<>>
      BY <2>2 DEF WindowInv, OnScreen
    <3> QED
      BY <1>2, <2>1, <2>2, <3>1 DEF ApplyList, SetDashboards, SelectStart
  <2>3. CASE ~ win.needsSetup
    <3>1. list = <<>>
      BY <2>1, <2>3, ApplyListKeeps
    <3> DEFINE a == [win EXCEPT !.dashboards = <<>>]
               d == DropStaleViews(a, {})
               e == [d EXCEPT !.visible = Placeholder, !.current = -1]
               t == Toast(e)
    <3>2. a.cover = win.cover /\ a.dashboards = <<>> /\ DOMAIN a = DOMAIN win
      BY <1>1 DEF Window
    <3>3. AssignList(win, <<>>) = a
      BY <3>2 DEF AssignList, Select
    <3>4. SetDashboards(win, <<>>) = t
      BY <1>2, <2>3, <3>3 DEF SetDashboards
    <3>5. DOMAIN a = {"needsSetup", "dashboards", "current", "views", "order",
                      "visible", "loading", "cover", "menuOpen", "selected",
                      "toast", "blank", "info", "page"}
      BY <1>1, <3>2 DEF Window
    <3> HIDE DEF a
    <3>6. d.cover = a.cover /\ d.dashboards = a.dashboards /\ DOMAIN d = DOMAIN a
      BY <3>5 DEF DropStaleViews, Release
    <3> HIDE DEF d
    <3>7. e.cover = d.cover /\ e.dashboards = d.dashboards /\ DOMAIN e = DOMAIN d
      BY <3>5, <3>6
    <3> HIDE DEF e
    <3>8. t.cover = e.cover /\ t.dashboards = e.dashboards
      BY <3>5, <3>6, <3>7 DEF Toast
    <3> HIDE DEF t
    <3>9. win' = t
      BY <1>2, <2>1, <3>1, <3>2, <3>4, <3>6, <3>7, <3>8 DEF ApplyList, SelectStart
    <3> QED
      BY <3>2, <3>6, <3>7, <3>8, <3>9
  <2> QED
    BY <2>2, <2>3
<1>4. CASE Next /\ ~ Apply
  <2>1. win.dashboards = <<>>
    BY <1>4, OthersKeepList
  <2>2. win.views = {} /\ ~ HasCurrent(win) /\ DOMAIN win.dashboards = {}
    BY <1>1, <2>1 DEF WindowInv, OnScreen, HasCurrent
  <2>3. CASE SetupDone \/ KeyChrome \/ HideToast
    BY ZenonT(40), <1>1, <2>3 DEF SetupDone, LeaveSetup, KeyChrome, HideToast, Window
  <2>4. CASE KeyMenu
    <3>1. win' \in {win, MenuClose(win)}
      BY <2>1, <2>4 DEF KeyMenu, MenuToggle, MenuStep, Activate, MenuOpen, MenuMove
    <3> QED
      BY <1>1, <3>1 DEF MenuClose, Window
  <2>5. CASE KeyShow
    <3>1. \A digit \in 0..9 : JumpToDigit(win, digit) = win
      BY <1>2, <2>1 DEF JumpToDigit
    <3> QED
      BY <2>1, <2>2, <2>5, <3>1
         DEF KeyShow, Step, MenuMove, ReloadCurrent, ShowIndex
  <2>6. CASE RowActivated \/ LoadStarted \/ LoadFinished \/ LoadFailed
    BY <2>2, <2>6 DEF RowActivated, LoadStarted, LoadFinished, LoadFailed
  <2> QED
    BY <1>4, <2>3, <2>4, <2>5, <2>6 DEF Next
<1> QED
  BY <1>3, <1>4

\* The invariant from which the theorems below follow.
THEOREM WindowInvariant == Spec => []IInv
BY InitInv, NextInv, PTL DEF Spec

\* Every field of the window keeps its type: no path leaves an index, a set
\* or a widget that the next method does not expect.
THEOREM TypeCorrect == Spec => []TypeOK
<1>1. IInv => TypeOK
  BY DEF IInv, WindowInv, TypeOK
<1> QED
  BY <1>1, WindowInvariant, PTL

\* However dashboards are shown, evicted and withdrawn, no more than
\* max_live_views pages are alive between two calls (_evict_surplus).
THEOREM LiveViewsBounded == Spec => []LiveViewBound
<1>1. IInv => LiveViewBound
  BY DEF IInv, WindowInv, ViewsInv, LiveViewBound
<1> QED
  BY <1>1, WindowInvariant, PTL

\* The dashboard on screen is the current one, its page is live and the most
\* recently used, and is never a released or withdrawn one (show_index,
\* set_dashboards, leave_setup).
THEOREM ScreenShowsCurrent == Spec => []ShownIsCurrent
<1>1. IInv => ShownIsCurrent
  BY DEF IInv, WindowInv, ShownIsCurrent
<1> QED
  BY <1>1, WindowInvariant, PTL

\* _view_order stays a list of exactly the live views, from which a victim
\* can always be taken (_touch, _release_view).
THEOREM VictimAlwaysFound == Spec => []RecencyOrder
<1>1. IInv => RecencyOrder
  BY DEF IInv, WindowInv, ViewsInv, RecencyOrder
<1> QED
  BY <1>1, WindowInvariant, PTL

\* No page and no loading entry survives the withdrawal of its dashboard
\* (_drop_stale_views).
THEOREM WithdrawnForgotten == Spec => []OnlyAllowed
<1>1. IInv => OnlyAllowed
  BY DEF IInv, WindowInv, ViewsInv, OnlyAllowed
<1> QED
  BY <1>1, WindowInvariant, PTL

\* After every call the cover is up exactly if the dashboard on screen is in
\* _loading_ids, but for calls that end without any dashboard: those leave it
\* as it was (_sync_loading, and the return of set_dashboards before it).
THEOREM CoverTruthful == Spec => CoverFollowsLoading
<1>1. IInv /\ [Next]_win =>
        [win'.cover = Awaited(win') \/ (win'.dashboards = <<>> /\ win'.cover = win.cover)]_win
  <2> SUFFICES ASSUME IInv, [Next]_win
               PROVE  \/ win'.cover = Awaited(win')
                      \/ win'.dashboards = <<>> /\ win'.cover = win.cover
    OBVIOUS
  <2>1. WindowInv(win')
    BY NextInv DEF IInv
  <2>2. CASE win'.dashboards # <<>>
    BY <2>1, <2>2 DEF WindowInv, OnScreen, Synced, Awaited
  <2>3. CASE win'.dashboards = <<>>
    BY <2>3, CoverStands DEF IInv
  <2> QED
    BY <2>2, <2>3
<1> QED
  BY <1>1, WindowInvariant, PTL DEF Spec, CoverFollowsLoading

\* OK in the chooser always acts on a row (DashboardMenu.set_dashboards).
THEOREM HighlightOnARow == Spec => []HighlightInRange
<1>1. IInv => HighlightInRange
  BY DEF IInv, WindowInv, HighlightInRange
<1> QED
  BY <1>1, WindowInvariant, PTL

\* A refresh is not seen by whoever watches a dashboard it still allows
\* (set_dashboards keeps the current one by its id).
THEOREM RefreshUnseen == Spec => []RefreshIsInvisible
<1>1. IInv => RefreshIsInvisible
  BY RefreshKeeps, WindowAssumption DEF IInv, RefreshIsInvisible
<1> QED
  BY <1>1, WindowInvariant, PTL
=============================================================================
