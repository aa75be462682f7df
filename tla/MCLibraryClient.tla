-------------------------- MODULE MCLibraryClient --------------------------
(* Instances of LibraryClient for TLC. *)
EXTENDS LibraryClient, TLC

CONSTANTS visitor, checker, first, second, tags, unknown

OneVisitor == {visitor}

\* Searches are kept for one tick, tags for two.
Lives == first :> 1 @@ second :> 1 @@ tags :> 2

\* The site goes down, or its tags page changes its markup.
Breaking ==
    first :> {"good", "down"} @@ second :> {"good"} @@ tags :> {"good", "bad"} @@ unknown :> {"missing"}

\* The search results lose their details, everything else stays readable.
Redesign ==
    first :> {"good", "bare"} @@ second :> {"good", "bare"} @@ tags :> {"good"} @@ unknown :> {"missing"}
=============================================================================
