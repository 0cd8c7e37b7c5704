------------------------------ MODULE MCTables ------------------------------
(* What processes share through Postgres, in parts that share nothing but the *)
(* database: the turns of a job (JobTurns), rate windows (Rates) and the      *)
(* pools of connections with the locks their holders wait for (Pool).  A      *)
(* behaviour follows one.                                                     *)
EXTENDS MCJobTurns, Rates, Pool, TLC

CONSTANTS h1, h2, pa, pb, pc, ma, mb, ax, ay

MCProcessOf == (pa :> h1) @@ (pb :> h1) @@ (pc :> h2) @@ (ma :> h1) @@ (mb :> h1)
MCAppOf == (pa :> ax) @@ (pb :> ay) @@ (pc :> ax)

VARIABLE part

tablesVars == <<part, vars, ratesVars, poolVars>>

TablesInit ==
    /\ part \in {"turns", "rates", "pool"}
    /\ Init
    /\ RatesInit
    /\ PoolInit
    \* Of the parts that do not go one beginning will do.
    /\ part # "rates" => grain = 1
    /\ part # "pool" => \A p \in Publishes : step[p] = "done"

OfTurns == part = "turns" /\ UNCHANGED <<part, ratesVars, poolVars>>
OfRates == part = "rates" /\ UNCHANGED <<part, vars, poolVars>>
OfPool == part = "pool" /\ UNCHANGED <<part, vars, ratesVars>>

TablesNext ==
    \/ OfTurns /\ Next
    \/ OfRates /\ RatesNext
    \/ OfPool /\ PoolNext

\* The fairness of FairSpec and of PoolFairSpec.
TablesSpec ==
    /\ TablesInit
    /\ [][TablesNext]_tablesVars
    /\ WF_tablesVars(OfTurns /\ Tick)
    /\ \A t \in Tasks : WF_tablesVars(OfTurns /\ Step(t))
    /\ \A p \in Publishes : WF_tablesVars(OfPool /\ PublishStep(p))
    /\ \A m \in Movers : WF_tablesVars(OfPool /\ MoveStep(m))
=============================================================================
