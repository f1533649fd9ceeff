-------------------------- MODULE RefreshLatestList --------------------------
(***************************************************************************)
(* Refresh implements LatestList: the saved list is the one a start would  *)
(* find in the cache file.                                                 *)
(***************************************************************************)
EXTENDS Refresh

Latest == INSTANCE LatestList WITH saved <- Cached

\* The cache only moves to later lists, power cuts, full disks and half-made
\* files included, and the screen shows nothing that is not in it and moves
\* to later lists while the process runs (_refresh, ConfigCache.save, _apply,
\* attach): a start shows no older list than any screen before it showed.
ImplementsLatestList == Latest!Spec

=============================================================================
