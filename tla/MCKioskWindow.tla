---------------------------- MODULE MCKioskWindow ----------------------------
(* Instances of KioskWindow, and of its refinement of ViewCache, for TLC. *)
EXTENDS KioskViewCache, TLC

CONSTANTS a, b, c

MCIds == {a, b, c}

\* Every list without repetitions, and one in which the server repeats an id.
MCLists ==
  {s \in UNION {[1..n -> MCIds] : n \in 0..3} :
     \A j, k \in DOMAIN s : s[j] = s[k] => j = k}
  \cup {<<x, y, x>> : x \in MCIds, y \in MCIds}

MCSymmetry == Permutations(MCIds)

=============================================================================
