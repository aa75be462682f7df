-------------------------- MODULE MCDownloadQueue --------------------------
(* Instances of DownloadQueue for TLC. *)
EXTENDS DownloadQueue, TLC

CONSTANTS m1, m2, c1, c2

OneModel   == {m1}
TwoModels  == {m1, m2}
OneClient  == {c1}
TwoClients == {c1, c2}

AllRequests == {"enqueue", "cancel", "retry", "delete"}
NoRetries   == {"enqueue", "cancel", "delete"}

\* Users and models are interchangeable; used for safety only.
Symmetry == Permutations(Models) \cup Permutations(Clients)
=============================================================================
