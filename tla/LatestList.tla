----------------------------- MODULE LatestList ------------------------------
(***************************************************************************)
(* What the refresh promises a viewer, without saying how: one saved list  *)
(* that outlives the process and only moves to later ones, and a screen    *)
(* that shows nothing that is not saved and, while the process runs, only  *)
(* moves to later lists.  So a restart shows what was on screen before it, *)
(* or a later list, unless that allows nothing.                            *)
(***************************************************************************)
EXTENDS Naturals

CONSTANT EmptyLists \* the lists that allow no dashboard

VARIABLES
  version,  \* the list the server allows now
  saved,    \* the list a start finds, 0 before there is one
  up,       \* the process runs
  shown     \* the list on screen, 0 for the placeholder

Init ==
  /\ version = 1
  /\ saved = 0
  /\ up = FALSE
  /\ shown = 0

Publish ==
  /\ version' = version + 1
  /\ UNCHANGED <<saved, up, shown>>

\* A later list, which the server may have replaced since it gave it.
Save ==
  /\ up
  /\ saved' \in (saved + 1)..version
  /\ UNCHANGED <<version, up, shown>>

Show ==
  /\ up
  /\ shown' \in (shown + 1)..saved
  /\ UNCHANGED <<version, saved, up>>

Start ==
  /\ ~ up
  /\ up' = TRUE
  /\ shown' = IF saved \in EmptyLists THEN 0 ELSE saved
  /\ UNCHANGED <<version, saved>>

Halt ==
  /\ up
  /\ up' = FALSE
  /\ shown' = 0
  /\ UNCHANGED <<version, saved>>

Next == Publish \/ Save \/ Show \/ Start \/ Halt

Spec == Init /\ [][Next]_<<version, saved, up, shown>>

=============================================================================
