------------------------- MODULE MCModelTestRunner -------------------------
(* Instances of ModelTestRunner for TLC. *)
EXTENDS ModelTestRunner, TLC

CONSTANTS m1, m2, c1, c2

TwoModels  == {m1, m2}
OneModel   == {m1}
OneClient  == {c1}
TwoClients == {c1, c2}

\* Two runs, of one model or of two.
OnePlan  == {<<m1, m2>>}
TwoPlans == {<<m1, m2>>, <<m1, m1>>}

SamePlan == {<<m1, m1>>}

Symmetry == Permutations(Clients)
=============================================================================
