--------------------------- MODULE MCUsageTracker ---------------------------
(* Instances of UsageTracker for TLC. *)
EXTENDS UsageTracker, TLC

CONSTANTS m1, m2

OneModel  == {m1}
TwoModels == {m1, m2}

ShortAndLong == {3, 6}

Symmetry == Permutations(Models)
=============================================================================
