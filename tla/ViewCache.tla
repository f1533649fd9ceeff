------------------------------ MODULE ViewCache ------------------------------
(***************************************************************************)
(* What the window promises about its live pages, without saying how: the  *)
(* pages that are alive are the last MaxLive distinct dashboards shown,    *)
(* less those withdrawn since.  So a dashboard among the last MaxLive is   *)
(* switched to without a reload, and no other costs memory.                *)
(***************************************************************************)
EXTENDS Naturals, Sequences, FiniteSets

CONSTANTS Ids, MaxLive

VARIABLES
  allowed,  \* the dashboards that may be shown
  recent    \* live pages, least recently shown first

\* The pages that are in S, in the order they were in.
Kept(pages, S) ==
  LET K == {n \in DOMAIN pages : pages[n] \in S}
  IN  [n \in 1..Cardinality(K) |->
         pages[CHOOSE k \in K : Cardinality({j \in K : j <= k}) = n]]

\* The pages once i is shown: i becomes the last, and the first goes when
\* there are too many.
Shown(pages, i) ==
  LET moved == Append(Kept(pages, Ids \ {i}), i)
  IN  IF Len(moved) > MaxLive THEN Tail(moved) ELSE moved

Init ==
  /\ allowed = {}
  /\ recent = <<>>

Show ==
  /\ \E i \in allowed : recent' = Shown(recent, i)
  /\ UNCHANGED allowed

\* The allowed dashboards change, and one of them is shown.
Restrict ==
  /\ allowed' \in SUBSET Ids
  /\ \E i \in allowed' :
       recent' = Shown(Kept(recent, allowed'), i)

\* The first dashboards after none: one is shown, then the start dashboard.
Begin ==
  /\ recent = <<>>
  /\ allowed' \in SUBSET Ids
  /\ \E i, j \in allowed' : recent' = Shown(Shown(<<>>, i), j)

WithdrawAll ==
  /\ allowed' = {}
  /\ recent' = <<>>

Next == Show \/ Restrict \/ Begin \/ WithdrawAll

Spec == Init /\ [][Next]_<<allowed, recent>>

=============================================================================
