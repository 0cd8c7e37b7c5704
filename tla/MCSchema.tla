------------------------------ MODULE MCSchema ------------------------------
(* One app's deploys: three versions of its schema and two policies, of which *)
(* one needs a column that the last migration drops.                          *)
EXTENDS Schema, TLC

CONSTANTS mine, ours

MCStanding ==
    (mine :> [v \in 0..2 |-> <<"waits", "fits", "breaks">>[v + 1]])
    @@ (ours :> [v \in 0..2 |-> IF v = 0 THEN "waits" ELSE "fits"])
=============================================================================
