----------------------------- MODULE MCJobTurns -----------------------------
(* One job, two schedulers and a person. *)
EXTENDS JobTurns

CONSTANTS s1, s2, person

MCTurns == {3, 4}
MCTasks == {s1, s2, person}
MCSchedulers == {s1, s2}
MCAhead == [t \in Tasks |-> IF t = s2 THEN 1 ELSE 0]
=============================================================================
