----------------------------- MODULE KioskPages ------------------------------
(***************************************************************************)
(* ViewCache under the whole kiosk: what KioskWindow promises of its pages *)
(* holds whoever calls it, and a restart begins again with no page.        *)
(***************************************************************************)
EXTENDS Kiosk, KioskViewCache

\* No page is alive but those a start shows: the first dashboard of the
\* cached list, and the start dashboard.
Afresh ==
  LET shown == ViewOrder(win)'
      list == ListIds(win.dashboards)'
  IN  \/ shown = <<>>
      \/ \E i \in list : shown = Cache!Shown(<<>>, i)
      \/ \E i, j \in list : shown = Cache!Shown(Cache!Shown(<<>>, i), j)

\* Between two restarts the live pages are those of the last max_live_views
\* distinct dashboards shown and still allowed, whether the remote, the
\* keyboard, a touched row, the carousel or the server's list showed or
\* withdrew them, and whatever standby and load signals came between.
LivePagesAreRecent ==
  [][Cache!Next \/ (Restart /\ Afresh)]_<<ListIds(win.dashboards), ViewOrder(win)>>

=============================================================================
