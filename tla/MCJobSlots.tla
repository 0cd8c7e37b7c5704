----------------------------- MODULE MCJobSlots -----------------------------
(* Jobs of one app on two runners. *)
EXTENDS JobSlots, TLC

CONSTANTS j1, j2, g1, r1, r2, p1, p2, p3

MCNames == {j1, j2}
MCOneName == {j1}
MCGroups == {g1}
MCGroupOf == [j \in Names |-> g1]
MCRunners == {r1, r2}
MCProcs == {p1, p2, p3}
MCTwoProcs == {p1, p2}
\* The tasks of one runner are interchangeable, and so are the jobs of the app.
MCSymmetry == Permutations({p2, p3}) \cup Permutations({j1, j2})

MCRunnerOf == [p \in Procs |-> IF p = p1 THEN r1 ELSE r2]
=============================================================================
