----------------------------- MODULE KioskWindow -----------------------------
(***************************************************************************)
(* The full-screen surface of ui/kiosk_window.py, its chooser overlay      *)
(* (ui/menu.py) and the two calls KioskController._apply makes on it: the  *)
(* dashboards the server allows, the stack of live WebViews with its       *)
(* least-recently-used eviction, the loading cover, the chooser, the       *)
(* blanking layer, the diagnostics panel and the toast.                    *)
(*                                                                         *)
(* Every method runs on the GTK main loop and to completion, so a method   *)
(* is an operator from one window to the next (ShowIndex(w, i) is window w *)
(* after show_index(i)) and an action applies one of them to the variable  *)
(* win.  The order of the calls in a method is the nesting of operators.   *)
(*                                                                         *)
(* Representation.  A dashboard is its id, since its URL is a function of  *)
(* the id (models.view_url) and its name is wording.  _views is views, the *)
(* set of its keys.  _view_order, a list without repetitions, is order:    *)
(* the pairs <<a, b>> with a at or before b in it, so that a is in the     *)
(* list iff <<a, a>> \in order.  The chooser's copy of the list is         *)
(* assigned in the same call as the window's, and one field stands for     *)
(* both.  page is WebKit's own state of each view, which the code never    *)
(* reads: it only receives the signals at the end of this module.          *)
(***************************************************************************)
EXTENDS Integers, Sequences, FiniteSets

CONSTANTS
  Ids,          \* dashboard ids
  NoId,         \* None, where a dashboard id is optional
  Lists,        \* the dashboard lists the server may allow
  MaxLive,      \* max_live_views
  Placeholder,  \* the "__placeholder__" child of the stack
  Setup         \* the "__setup__" child of the stack

ASSUME WindowAssumption ==
  /\ Lists \subseteq Seq(Ids)
  /\ MaxLive \in Nat \ {0}
  /\ NoId \notin Ids
  /\ Placeholder \notin Ids
  /\ Setup \notin Ids
  /\ Placeholder # Setup

VARIABLE win

\* No page, the first load of a view, a later load, and how a load ended.
PageState == {"none", "first", "again", "loaded", "failed"}

Window ==
  [ needsSetup : BOOLEAN,
    dashboards : Seq(Ids),
    current    : Int,
    views      : SUBSET Ids,
    order      : SUBSET (Ids \X Ids),
    visible    : Ids \cup {Placeholder, Setup},
    loading    : SUBSET Ids,
    cover      : BOOLEAN,
    menuOpen   : BOOLEAN,
    selected   : Nat,
    toast      : BOOLEAN,
    blank      : BOOLEAN,
    info       : BOOLEAN,
    page       : [Ids -> PageState] ]

\* A new window, with or without a server address configured.
NewWindow(needsSetup) ==
  [ needsSetup |-> needsSetup,
    dashboards |-> <<>>,
    current    |-> -1,
    views      |-> {},
    order      |-> {},
    visible    |-> IF needsSetup THEN Setup ELSE Placeholder,
    loading    |-> {},
    cover      |-> FALSE,
    menuOpen   |-> FALSE,
    selected   |-> 0,
    toast      |-> FALSE,
    blank      |-> FALSE,
    info       |-> FALSE,
    page       |-> [i \in Ids |-> "none"] ]

-----------------------------------------------------------------------------
\* Reading the window.

ListIds(list) == {list[k] : k \in DOMAIN list}

\* current_dashboard is not None
HasCurrent(w) == 0 <= w.current /\ w.current < Len(w.dashboards)

Current(w) == w.dashboards[w.current + 1]

\* The first position, from 0, at which the dashboard stands.
FirstIndex(list, i) ==
  (CHOOSE k \in DOMAIN list :
     list[k] = i /\ \A j \in DOMAIN list : list[j] = i => k <= j) - 1

-----------------------------------------------------------------------------
\* WebViews.

\* Mutation: append without removing the earlier entry.
TouchAppends(w, i) ==
  [w EXCEPT !.order = @ \cup {<<v, i>> : v \in {u \in Ids : <<u, u>> \in @} \cup {i}}]

Touch(w, i) ==
  [w EXCEPT !.order =
     {p \in @ : i # p[1] /\ i # p[2]}
       \cup {<<v, i>> : v \in {u \in Ids : <<u, u>> \in w.order} \cup {i}}]

\* _release_view for each id of S that has a view.
Release(w, S) ==
  [w EXCEPT !.views   = @ \ S,
            !.order   = {p \in @ : p[1] \notin S /\ p[2] \notin S},
            !.loading = @ \ S,
            !.page    = [i \in Ids |-> IF i \in S THEN "none" ELSE @[i]]]

\* Mutation: views are left behind.
DropNoViews(w, ids) == w

DropStaleViews(w, ids) == Release(w, w.views \ ids)

Evictable(w) ==
  {i \in w.views : <<i, i>> \in w.order /\ ~ (HasCurrent(w) /\ Current(w) = i)}

\* Mutation: the most recent is taken first.
Newest(w, S) == CHOOSE v \in S : \A u \in S : <<u, v>> \in w.order

Oldest(w, S) == CHOOSE v \in S : \A u \in S : <<v, u>> \in w.order

\* Mutation: one view too many is tolerated.
EvictSurplusLate(w) ==
  IF Cardinality(w.views) > MaxLive + 1 /\ Evictable(w) # {}
    THEN Release(w, {Oldest(w, Evictable(w))})
    ELSE w

\* The while loop of _evict_surplus.  It is entered with one view more than
\* before, so it goes round at most once: LiveViewBound would fail otherwise.
EvictSurplus(w) ==
  IF Cardinality(w.views) > MaxLive /\ Evictable(w) # {}
    THEN Release(w, {Oldest(w, Evictable(w))})
    ELSE w

\* A WebView is created and told to load its page.
NewView(w, i) ==
  [w EXCEPT !.views   = @ \cup {i},
            !.loading = @ \cup {i},
            !.page[i] = "first"]

ViewFor(w, i) ==
  IF i \in w.views
    THEN Touch(w, i)
    ELSE EvictSurplus(Touch(NewView(w, i), i))

SyncLoading(w) ==
  [w EXCEPT !.cover = HasCurrent(w) /\ Current(w) \in w.loading]

ShowIndex(w, index) ==
  IF w.dashboards = <<>>
    THEN w
    ELSE LET k == index % Len(w.dashboards)
             i == w.dashboards[k + 1]
         IN  SyncLoading([ViewFor([w EXCEPT !.current = k], i)
                            EXCEPT !.visible = i])

-----------------------------------------------------------------------------
\* The chooser (DashboardMenu).

Select(w, index) ==
  IF w.dashboards = <<>>
    THEN w
    ELSE [w EXCEPT !.selected =
            IF index < 0 THEN 0
            ELSE IF index >= Len(w.dashboards) THEN Len(w.dashboards) - 1
            ELSE index]

\* menu.open(max(current, 0))
MenuOpen(w) ==
  IF w.dashboards = <<>>
    THEN w
    ELSE [Select(w, w.current) EXCEPT !.menuOpen = TRUE]

MenuClose(w) == [w EXCEPT !.menuOpen = FALSE]

MenuToggle(w) == IF w.menuOpen THEN MenuClose(w) ELSE MenuOpen(w)

MenuMove(w, delta) ==
  IF w.dashboards = <<>>
    THEN w
    ELSE Select(w, (w.selected + delta) % Len(w.dashboards))

\* _on_menu_activate
MenuActivate(w, index) == ShowIndex(MenuClose(w), index)

-----------------------------------------------------------------------------
\* The list the server allows.

Toast(w) == [w EXCEPT !.toast = TRUE]

\* Mutations: the selection is not clamped; or is, but not at 0.
AssignListUnclamped(w, list) == [w EXCEPT !.dashboards = list]

AssignListBelowZero(w, list) ==
  [w EXCEPT !.dashboards = list,
            !.selected = IF @ >= Len(list) THEN Len(list) - 1 ELSE @]

\* self._dashboards and the chooser's copy, which clamps its selection.
AssignList(w, list) ==
  LET n == [w EXCEPT !.dashboards = list]
  IN  Select(n, n.selected)

\* Mutations: the dashboard is kept by its position rather than its id; or
\* nothing but the stack changes when the list is empty.
SetDashboardsByIndex(w, list) ==
  IF w.needsSetup
    THEN w
    ELSE LET n == DropStaleViews(AssignList(w, list), ListIds(list))
         IN  IF list = <<>>
               THEN Toast([n EXCEPT !.visible = Placeholder, !.current = -1])
               ELSE ShowIndex(n, w.current)

SetDashboardsKeepCurrent(w, list) ==
  IF w.needsSetup
    THEN w
    ELSE LET n == DropStaleViews(AssignList(w, list), ListIds(list))
         IN  IF list = <<>>
               THEN Toast([n EXCEPT !.visible = Placeholder])
             ELSE IF HasCurrent(w) /\ Current(w) \in ListIds(list)
               THEN ShowIndex(n, FirstIndex(list, Current(w)))
             ELSE ShowIndex(n, 0)

SetDashboards(w, list) ==
  IF w.needsSetup
    THEN w
    ELSE LET n == DropStaleViews(AssignList(w, list), ListIds(list))
         IN  IF list = <<>>
               THEN Toast([n EXCEPT !.visible = Placeholder, !.current = -1])
             ELSE IF HasCurrent(w) /\ Current(w) \in ListIds(list)
               THEN ShowIndex(n, FirstIndex(list, Current(w)))
             ELSE ShowIndex(n, 0)

\* KioskController._select_start_dashboard
SelectStart(w, wanted) ==
  IF wanted \in ListIds(w.dashboards)
    THEN ShowIndex(w, FirstIndex(w.dashboards, wanted))
    ELSE w

\* KioskController._apply; wanted is the configured start dashboard or else
\* the server's default, NoId when neither is set.
ApplyList(w, list, wanted) ==
  IF w.dashboards = <<>>
    THEN SelectStart(SetDashboards(w, list), wanted)
    ELSE SetDashboards(w, list)

LeaveSetup(w) ==
  IF w.needsSetup
    THEN [w EXCEPT !.needsSetup = FALSE, !.visible = Placeholder]
    ELSE w

-----------------------------------------------------------------------------
\* handle_action: one operator per key of its table.

Step(w, delta) ==
  IF w.menuOpen THEN MenuMove(w, delta)
  ELSE IF w.dashboards # <<>> THEN Toast(ShowIndex(w, w.current + delta))
  ELSE w

MenuStep(w, delta) == IF w.menuOpen THEN MenuMove(w, delta) ELSE MenuOpen(w)

Activate(w) ==
  IF ~ w.menuOpen THEN MenuOpen(w)
  ELSE IF w.dashboards = <<>> THEN w
  ELSE MenuActivate(w, w.selected)

JumpToDigit(w, digit) ==
  LET index == IF digit > 0 THEN digit - 1 ELSE 9
  IN  IF index < Len(w.dashboards)
        THEN Toast(ShowIndex(MenuClose(w), index))
        ELSE w

\* WebKit is asked to load the page again; its signals come later.
ReloadCurrent(w) ==
  IF HasCurrent(w) /\ Current(w) \in w.views THEN Toast(w) ELSE w

-----------------------------------------------------------------------------
\* Signals of a live view.  WebKit may start a page again by itself (a
\* redirect, a refresh), and FINISHED may or may not follow a failure.  A
\* released view is out of the widget tree and signals nothing more.

OnLoadStarted(w, i) ==
  SyncLoading([w EXCEPT !.loading = @ \cup {i},
                        !.page[i] = IF @ = "first" THEN @ ELSE "again"])

\* Mutation: the cover is not updated.
OnLoadFinishedUnsynced(w, i) ==
  [w EXCEPT !.loading = @ \ {i},
            !.page[i] = IF @ = "failed" THEN @ ELSE "loaded"]

OnLoadFinished(w, i) ==
  SyncLoading([w EXCEPT !.loading = @ \ {i},
                        !.page[i] = IF @ = "failed" THEN @ ELSE "loaded"])

\* _on_load_failed clears the entry of the dashboard on screen, whichever
\* view it was that failed.
OnLoadFailed(w, i) ==
  LET f == [w EXCEPT !.page[i] = "failed"]
  IN  Toast(IF HasCurrent(f)
              THEN SyncLoading([f EXCEPT !.loading = @ \ {Current(f)}])
              ELSE f)

-----------------------------------------------------------------------------
Init == win \in {NewWindow(b) : b \in BOOLEAN}

\* The list the server, or the cache at start, allows.
Apply ==
  \E list \in Lists, wanted \in Ids \cup {NoId} :
    win' = ApplyList(win, list, wanted)

SetupDone == win' = LeaveSetup(win)

KeyMenu ==
  win' \in {MenuToggle(win), MenuClose(win), MenuStep(win, -1),
            MenuStep(win, 1), Activate(win)}

KeyShow ==
  \/ win' \in {Step(win, 1), Step(win, -1), ReloadCurrent(win),
               ShowIndex(win, 0)}
  \/ \E digit \in 0..9 : win' = JumpToDigit(win, digit)

\* A row of the open chooser is activated by GTK itself.
RowActivated ==
  /\ win.menuOpen
  /\ \E k \in DOMAIN win.dashboards : win' = MenuActivate(win, k - 1)

\* _toggle_info, and set_blanked from a key or the TV's standby and wake.
KeyChrome ==
  \/ win' = [win EXCEPT !.info = ~ @]
  \/ \E b \in BOOLEAN : win' = [win EXCEPT !.blank = b]

HideToast == win.toast /\ win' = [win EXCEPT !.toast = FALSE]

LoadStarted == \E i \in win.views : win' = OnLoadStarted(win, i)

LoadFinished ==
  \E i \in win.views :
    /\ win.page[i] \in {"first", "again", "failed"}
    /\ win' = OnLoadFinished(win, i)

LoadFailed ==
  \E i \in win.views :
    /\ win.page[i] \in {"first", "again"}
    /\ win' = OnLoadFailed(win, i)

Next ==
  \/ Apply
  \/ SetupDone
  \/ KeyMenu
  \/ KeyShow
  \/ RowActivated
  \/ KeyChrome
  \/ HideToast
  \/ LoadStarted
  \/ LoadFinished
  \/ LoadFailed

Spec == Init /\ [][Next]_win

-----------------------------------------------------------------------------
(* Properties.                                                             *)

\* Every field has its type.
TypeOK == win \in Window

\* order is a list without repetitions of exactly the ids of V.
Ordered(order, V) ==
  /\ order \subseteq V \X V
  /\ \A i \in V : <<i, i>> \in order
  /\ \A i, j \in V : <<i, j>> \in order \/ <<j, i>> \in order
  /\ \A i, j \in V : <<i, j>> \in order /\ <<j, i>> \in order => i = j
  /\ \A i, j, k \in V :
       <<i, j>> \in order /\ <<j, k>> \in order => <<i, k>> \in order

OrderOfViews(w) == Ordered(w.order, w.views)

\* What is on the stack.  With dashboards, the current one is in range, its
\* view is live, most recent, and is the visible child; without, nothing is
\* current or live and the placeholder or the setup screen shows.
OnScreen(w) ==
  IF w.dashboards # <<>>
    THEN /\ ~ w.needsSetup
         /\ HasCurrent(w)
         /\ Current(w) \in w.views
         /\ w.visible = Current(w)
         /\ \A i \in w.views : <<i, Current(w)>> \in w.order
    ELSE /\ w.current = -1
         /\ w.views = {}
         /\ w.visible = IF w.needsSetup THEN Setup ELSE Placeholder

\* Nothing is kept for a dashboard the server no longer allows.
Listed(w) ==
  /\ w.views \subseteq ListIds(w.dashboards)
  /\ w.loading \subseteq w.views

\* The chooser's highlight is a row, so OK on it cannot be out of range.
SelectionInList(w) ==
  w.dashboards # <<>> => w.selected < Len(w.dashboards)

\* What _sync_loading shows the cover for.
Awaited(w) == HasCurrent(w) /\ Current(w) \in w.loading

\* With dashboards, the cover is what _sync_loading would make it.
Synced(w) == w.dashboards # <<>> => w.cover = (Current(w) \in w.loading)

WithinLimit(w) == IsFiniteSet(w.views) /\ Cardinality(w.views) <= MaxLive

\* At most max_live_views pages are alive after every call, whatever the
\* sequence of lists, keys and evictions that led there (_evict_surplus: one
\* page too many is what pushes a 1 GiB board into swap or the OOM killer).
LiveViewBound == WithinLimit(win)

\* The view list and its recency order never come apart, through touches,
\* evictions and withdrawals: a victim is always found when one is needed.
RecencyOrder == OrderOfViews(win)

\* The stack never shows a released or withdrawn view, nor the setup screen
\* once it is left, and current_dashboard is the dashboard on screen.
ShownIsCurrent == OnScreen(win)

\* No page, and no loading entry, survives the withdrawal of its dashboard.
OnlyAllowed == Listed(win)

\* A list that shrinks under an open chooser leaves the highlight on a row.
HighlightInRange == SelectionInList(win)

\* After every call the cover is up exactly if the dashboard on screen is in
\* _loading_ids, with one exception: a call that ends without any dashboard leaves the
\* cover as it was.  So none is raised over the placeholder, and one that
\* stays up there is gone or right with the first dashboard shown again.
CoverFollowsLoading ==
  [][win'.cover = Awaited(win') \/ (win'.dashboards = <<>> /\ win'.cover = win.cover)]_win

\* The conjuncts above, which together are inductive.
ViewsInv(w) == OrderOfViews(w) /\ Listed(w) /\ WithinLimit(w)

WindowInv(w) ==
  /\ w \in Window
  /\ ViewsInv(w)
  /\ OnScreen(w)
  /\ SelectionInList(w)
  /\ Synced(w)

IInv == WindowInv(win)

\* A refresh that still allows the dashboard on screen leaves it there, and
\* reloads or discards no page that is still allowed: the viewer sees nothing
\* of _apply running on the next tick, whatever else the new list changes.
RefreshIsInvisible ==
  \A list \in Lists, wanted \in Ids \cup {NoId} :
    HasCurrent(win) /\ Current(win) \in ListIds(list)
      => LET n == ApplyList(win, list, wanted)
         IN  /\ n.visible = win.visible
             /\ n.cover = win.cover
             /\ n.views = win.views \cap ListIds(list)
             /\ \A i \in n.views : n.page[i] = win.page[i]

=============================================================================
