--------------------------- MODULE KioskViewCache ----------------------------
(***************************************************************************)
(* KioskWindow implements ViewCache: the live views in the order of        *)
(* _view_order are the dashboards shown last.                              *)
(***************************************************************************)
EXTENDS KioskWindow

\* _view_order as the list it is.
ViewOrder(w) ==
  [n \in 1..Cardinality(w.views) |->
     CHOOSE v \in w.views :
       Cardinality({u \in w.views : <<u, v>> \in w.order}) = n]

Cache == INSTANCE ViewCache WITH
  allowed <- ListIds(win.dashboards), recent <- ViewOrder(win)

\* The live pages are those of the last max_live_views distinct dashboards
\* shown and still allowed (_touch, _evict_surplus, _drop_stale_views: which
\* page is sacrificed is always the one shown longest ago).
ImplementsViewCache == Cache!Spec

=============================================================================
