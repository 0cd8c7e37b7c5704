-------------------------------- MODULE Pool --------------------------------
(***************************************************************************)
(* The pool of Postgres connections of each process, state/pg.rs, and those*)
(* who hold one connection while they need another: a publish in its app's *)
(* turn (content/files/bucket.rs) and a change of the projects that holds  *)
(* moves (content/catalog/postgres.rs).  Everyone else takes one, asks for no *)
(* other and gives it back, and is left out.                               *)
(*                                                                         *)
(* What a caller holds follows from the step it is at, so mutexes, permits,*)
(* advisory locks and connections are operators over `step`.  A caller that*)
(* goes away at an await drops all of it: a connection that may hold a lock*)
(* is closed, which makes room in the pool as giving it back does.         *)
(***************************************************************************)
EXTENDS Naturals, FiniteSets

CONSTANTS Processes,
          Publishes,    \* publishes and removals, each one time
          Movers,       \* changes of the projects
          ProcessOf,    \* the process each of them runs in
          AppOf,        \* the app of a publish
          MaxTurns,     \* MAX_TURNS
          MaxWaiting,   \* MAX_WAITING_MOVES
          PoolSize,     \* TOOLSITE_DATABASE_POOL
          MaxSteps,     \* bound: the steps of a move that take a connection
          MaxFaults     \* bound: callers that go away, or whose wait runs out

Callers == Publishes \cup Movers

ASSUME PoolAssumption ==
    /\ IsFiniteSet(Callers)
    /\ Publishes \cap Movers = {}
    /\ ProcessOf \in [Callers -> Processes]
    /\ DOMAIN AppOf = Publishes
    /\ {MaxTurns, MaxWaiting, PoolSize, MaxSteps, MaxFaults} \subseteq Nat

VARIABLES step,
          left,     \* the steps a move still has to take
          faults

poolVars == <<step, left, faults>>

PublishSteps == {"here", "place", "ask", "try", "pause", "work", "count", "release", "done"}
MoveSteps == {"idle", "turn", "ask", "lock", "held", "more", "done"}

PoolTypeOK ==
    /\ step \in [Callers -> PublishSteps \cup MoveSteps]
    /\ \A p \in Publishes : step[p] \in PublishSteps
    /\ \A m \in Movers : step[m] \in MoveSteps
    /\ left \in [Movers -> 0..MaxSteps]
    /\ faults \in 0..MaxFaults

-----------------------------------------------------------------------------
(* What the callers of a process hold.                                      *)

At(h) == {c \in Callers : ProcessOf[c] = h}

HasTurnHere(p) == step[p] \in PublishSteps \ {"here", "done"}
HasPlace(p) == step[p] \in {"ask", "try", "work", "count", "release"}
HasAppLock(p) == step[p] \in {"work", "count", "release"}

HasMoveTurn(m) == step[m] \in MoveSteps \ {"idle", "turn", "done"}
HasMoves(m) == step[m] \in {"held", "more"}

HasOne(c) == \/ c \in Publishes /\ step[c] \in {"try", "work", "count", "release"}
             \/ c \in Movers /\ step[c] \in {"lock", "held", "more"}

InUse(h) == Cardinality({c \in At(h) : HasOne(c)})

Waiting(h) == {m \in At(h) \cap Movers : step[m] = "turn"}

Goes(c, s) == step' = [step EXCEPT ![c] = s]

-----------------------------------------------------------------------------
(* The pool.                                                                *)

\* A connection from the pool of the caller's process.
Gets(c, s) ==
    /\ InUse(ProcessOf[c]) < PoolSize
    /\ Goes(c, s)
    /\ UNCHANGED <<left, faults>>

Continues(c, s) ==
    /\ Goes(c, s)
    /\ UNCHANGED <<left, faults>>

-----------------------------------------------------------------------------
(* A publish: Files::publish and Bucket::turn.                              *)

\* The mutex of the app in this process.
TakesHere(p) ==
    /\ step[p] = "here"
    /\ \A q \in Publishes \cap At(ProcessOf[p]) : AppOf[q] = AppOf[p] => ~HasTurnHere(q)
    /\ Continues(p, "place")

TakesPlace(p) ==
    /\ step[p] = "place"
    /\ Cardinality({q \in Publishes \cap At(ProcessOf[p]) : HasPlace(q)}) < MaxTurns
    /\ Continues(p, "ask")

AsksForLock(p) == step[p] = "ask" /\ Gets(p, "try")

\* pg_try_advisory_lock: refused, the connection and the place are given back.
TriesLock(p) ==
    /\ step[p] = "try"
    /\ IF \E q \in Publishes : AppOf[q] = AppOf[p] /\ HasAppLock(q)
       THEN Continues(p, "pause")
       ELSE Continues(p, "work")

PauseEnds(p) == step[p] = "pause" /\ Continues(p, "place")

\* What the turn is for: objects are put or moved, and the generation counted
\* unless a delete found nothing.
Works(p) ==
    /\ step[p] = "work"
    /\ \E s \in {"count", "release"} : Continues(p, s)

\* With another connection, which is given back at once.
Counts(p) == step[p] = "count" /\ Gets(p, "release")
Releases(p) == step[p] = "release" /\ Continues(p, "done")

-----------------------------------------------------------------------------
(* A change of the projects: hold_relocations, its steps, and its release.  *)

\* Mutant: a move takes its connection before its turn.
MoveAsksAtOnce(m) ==
    /\ step[m] = "idle"
    /\ Continues(m, "ask")

\* take_turn: past MaxWaiting it is refused.
MoveBegins(m) ==
    LET others == Movers \cap At(ProcessOf[m])
    IN  /\ step[m] = "idle"
        /\ \/ (\A n \in others : ~HasMoveTurn(n)) /\ Continues(m, "ask")
           \/ /\ \E n \in others : HasMoveTurn(n)
              /\ IF Cardinality(Waiting(ProcessOf[m])) < MaxWaiting
                 THEN Continues(m, "turn")
                 ELSE Continues(m, "done")

TakesMoveTurn(m) ==
    /\ step[m] = "turn"
    /\ \A n \in Movers \cap At(ProcessOf[m]) : ~HasMoveTurn(n)
    /\ Continues(m, "ask")

AsksForMoves(m) == step[m] = "ask" /\ Gets(m, "lock")

\* pg_advisory_xact_lock waits on Postgres, with its connection.
HoldsMoves(m) ==
    /\ step[m] = "lock"
    /\ \A n \in Movers : ~HasMoves(n)
    /\ Continues(m, "held")

\* A step of the change, or its end; how many steps depends on what was left
\* to resume and on what is refused.
GoesOn(m) ==
    /\ step[m] = "held"
    /\ \/ left[m] > 0 /\ Goes(m, "more") /\ left' = [left EXCEPT ![m] = @ - 1]
       \/ Goes(m, "done") /\ UNCHANGED left
    /\ UNCHANGED faults

\* With another connection, which is given back at once.
StepMoves(m) == step[m] = "more" /\ Gets(m, "held")

-----------------------------------------------------------------------------
(* What ends a call early.                                                  *)

Faulty(c, s) ==
    /\ faults < MaxFaults
    /\ faults' = faults + 1
    /\ Goes(c, s)
    /\ UNCHANGED left

\* The caller goes away, a statement fails, or the wait for a connection runs out.
Leaves(c) == step[c] \notin {"idle", "done"} /\ Faulty(c, "done")

\* A publish that could not count lets go of its turn first.
CountFails(p) == step[p] = "count" /\ Faulty(p, "release")

-----------------------------------------------------------------------------

\* Some of the publishes come, when they can go on, and the others never.
PoolInit ==
    /\ \E coming \in SUBSET Publishes :
          step = [c \in Callers |-> IF c \in Movers THEN "idle" ELSE
                                    IF c \in coming THEN "here" ELSE "done"]
    /\ left = [m \in Movers |-> MaxSteps]
    /\ faults = 0

PublishStep(p) ==
    \/ TakesHere(p) \/ TakesPlace(p) \/ AsksForLock(p) \/ TriesLock(p) \/ PauseEnds(p)
    \/ Works(p) \/ Counts(p) \/ Releases(p)

MoveStep(m) ==
    \/ TakesMoveTurn(m) \/ AsksForMoves(m) \/ HoldsMoves(m) \/ GoesOn(m) \/ StepMoves(m)

PoolNext ==
    \/ \E p \in Publishes : PublishStep(p) \/ CountFails(p)
    \/ \E m \in Movers : MoveBegins(m) \/ MoveStep(m)
    \/ \E c \in Callers : Leaves(c)

PoolSpec == PoolInit /\ [][PoolNext]_poolVars

\* Each caller goes on when it can, whatever it waits for.  Nothing is assumed of
\* waits running out.
PoolFairness ==
    /\ \A p \in Publishes : WF_poolVars(PublishStep(p))
    /\ \A m \in Movers : WF_poolVars(MoveStep(m))

PoolFairSpec == PoolSpec /\ PoolFairness

-----------------------------------------------------------------------------
(* Properties.                                                              *)

\* Those of a process who hold a connection and have yet to get another, or hold
\* it until someone who has yet to get one is done.
Keepers(h) == {c \in At(h) : HasOne(c)}

\* The pool is never held by such callers alone: one connection is left to those
\* who give it back by themselves, for the sake of which bucket.rs:60-63 bounds the
\* turns and postgres.rs:369 queues the moves.
ConnectionLeft == \A h \in Processes : Cardinality(Keepers(h)) < PoolSize

\* Whoever asked is served: no publish or move waits for ever, across the
\* mutexes, the permits, the pool and the two advisory locks, even if no wait
\* runs out.
CallsEnd == <>[](\A c \in Callers : step[c] \in {"idle", "done"})
=============================================================================
