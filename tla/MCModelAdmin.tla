---------------------------- MODULE MCModelAdmin ----------------------------
(* Instances of ModelAdmin for TLC. *)
EXTENDS ModelAdmin, TLC

CONSTANTS m1, m2, c1, c2

TwoModels  == {m1, m2}
TwoClients == {c1, c2}
OneClient  == {c1}

\* A model of two layers, and one of one.
Sizes == (m1 :> 2) @@ (m2 :> 1)

Symmetry == Permutations(Clients)
=============================================================================
