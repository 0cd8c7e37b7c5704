---------------------------- MODULE TablesProofs ----------------------------
(* Proofs about what processes share through Postgres: the turns of a job,   *)
(* for every schedule, number of schedulers, difference of clocks and number *)
(* of changes and deaths; the rate windows, for every window, allowance and  *)
(* grain; the pools of connections, for all who publish and move.            *)
EXTENDS JobTurns, Rates, Pool, FiniteSetTheorems, TLAPS, WellFoundedInduction

-----------------------------------------------------------------------------
(* The turns of a job.                                                       *)

\* A set of naturals that is not empty has a least member.
LEMMA LeastIn ==
    ASSUME NEW S \in SUBSET Nat, S # {}
    PROVE  Least(S) \in S /\ \A y \in S : Least(S) <= y
<1> DEFINE R == {ss \in Nat \X Nat : ss[1] < ss[2]}
<1>1. IsWellFoundedOn(R, Nat)
  BY NatLessThanWellFounded DEF OpToRel
<1>2. PICK x \in S : \A y \in S : ~(<<y, x>> \in R)
  BY <1>1, WFMin
<1>3. ASSUME NEW y \in S, y < x PROVE FALSE
  <2>1. <<y, x>> \in Nat \X Nat /\ <<y, x>>[1] < <<y, x>>[2]
    BY <1>3
  <2> QED
    BY <1>2, <2>1
<1>4. \A y \in S : x <= y
  BY <1>3
<1>5. \E m \in S : \A y \in S : m <= y
  BY <1>4
<1> QED
  BY <1>5 DEF Least

\* One that is bounded has a greatest: what is left up to the bound has a least.
LEMMA GreatestIn ==
    ASSUME NEW b \in Nat, NEW S \in SUBSET (0..b), S # {}
    PROVE  Greatest(S) \in S /\ \A y \in S : y <= Greatest(S)
<1> DEFINE D == {b - x : x \in S}
<1>1. D \in SUBSET Nat /\ D # {}
  <2>1. \A x \in S : b - x \in Nat
    OBVIOUS
  <2> QED
    BY <2>1
<1>2. Least(D) \in D /\ \A e \in D : Least(D) <= e
  BY <1>1, LeastIn
<1>3. PICK x \in S : Least(D) = b - x
  BY <1>2
<1>4. ASSUME NEW y \in S PROVE b - x <= b - y
  <2>1. b - y \in D
    OBVIOUS
  <2> QED
    BY <1>2, <1>3, <2>1
<1>5. \A y \in S : y <= x
  BY <1>4
<1>6. \E g \in S : \A y \in S : y <= g
  BY <1>5
<1> QED
  BY <1>6 DEF Greatest

\* A due job has turns since, the least of which has come.
LEMMA DueFacts ==
    ASSUME NEW r, NEW at \in Nat, IsDue(r, at)
    PROVE  LET next  == After(Since(r, at))
               first == Least(next)
           IN  first \in next /\ first \in Turns /\ first \in Nat /\ first <= at
<1> DEFINE next == After(Since(r, at))
<1>1. next \in SUBSET Nat /\ next # {} /\ next \in SUBSET Turns /\ Least(next) <= at
  BY JobTurnsAssumption DEF IsDue, After
<1>2. Least(next) \in next
  BY <1>1, LeastIn
<1> QED
  BY <1>1, <1>2

\* Every scheduler that finds the job due at a time names the same turn,
\* whatever it last read: the latest scheduled time not after it.
LEMMA TurnOfDue ==
    ASSUME NEW r, NEW at \in Nat, IsDue(r, at)
    PROVE  /\ Turn(r, at) = Greatest({u \in Turns : u <= at})
           /\ Turn(r, at) \in Turns
           /\ Turn(r, at) \in Nat
<1> DEFINE first  == Least(After(Since(r, at)))
           passed == {u \in Turns : u < at + 1}
<1>1. first \in Turns /\ first \in Nat /\ first <= at
  BY DueFacts
<1>0. \A u \in Turns : u \in Nat /\ (u < at + 1 <=> u <= at)
  BY JobTurnsAssumption
<1>2. passed = {u \in Turns : u <= at}
  BY <1>0
<1>3. first \in passed /\ passed \in SUBSET (0..at)
  BY <1>0, <1>1
<1>4. Greatest(passed) \in passed /\ first <= Greatest(passed)
  BY <1>3, GreatestIn
<1>5. Greatest(passed) >= first /\ Greatest(passed) <= at
  BY <1>1, <1>3, <1>4
<1>6. Turn(r, at) = Greatest(passed)
  BY <1>3, <1>5 DEF Turn
<1> QED
  BY <1>0, <1>2, <1>4, <1>6

-----------------------------------------------------------------------------
(* Types. *)

\* Init establishes the type invariant.
LEMMA InitType == Init => TypeOK
<1> SUFFICES ASSUME Init PROVE TypeOK
  OBVIOUS
<1>1. record \in Record
  BY DEF Init, Fresh, Record
<1> QED
  BY <1>1, JobTurnsAssumption DEF Init, TypeOK, Quiet, Task

\* A task's own clock is a natural number, and so is a turn it names.
LEMMA ClockType ==
    ASSUME TypeOK, NEW t \in Tasks
    PROVE  Clock(t) \in Nat
  BY JobTurnsAssumption DEF TypeOK, Clock

\* Every step keeps the type invariant.
LEMMA NextType == TypeOK /\ [Next]_vars => TypeOK'
<1> SUFFICES ASSUME TypeOK, [Next]_vars PROVE TypeOK'
  OBVIOUS
<1> USE JobTurnsAssumption
<1>0. \A t \in Tasks : /\ task[t] \in Task
                       /\ task[t].at \in Nat
                       /\ task[t].due \in Turns \cup {0}
                       /\ task[t].life \in Nat
  BY DEF TypeOK, Task
<1>a. \A d \in Turns \cup {0} : d \in Nat
  OBVIOUS
<1>1. ASSUME NEW t \in Tasks, Look(t) PROVE TypeOK'
  <2>1. Clock(t) \in Nat /\ Turn(record, Clock(t)) \in Turns
    BY <1>1, ClockType, TurnOfDue DEF Look
  <2> QED
    BY <1>1, <2>1 DEF Look, Moves, TypeOK, Task
<1>2. ASSUME NEW t \in Tasks, Fire(t) PROVE TypeOK'
  <2>0. task[t] \in Task /\ Quiet \in Task
    BY <1>0 DEF Quiet, Task
  <2>1. task[t].due \in Nat
    BY <1>0, <1>a
  <2>4. [task[t] EXCEPT !.pc = "claim", !.life = life] \in Task
    BY <2>0 DEF TypeOK, Task
  <2>2. fired' \in Nat
    BY <1>2, <2>1 DEF Fire, TypeOK
  <2>3. task' \in [Tasks -> Task]
    BY <1>2, <2>0, <2>4 DEF Fire, Moves, TypeOK
  <2> QED
    BY <1>2, <2>2, <2>3 DEF Fire, TypeOK
<1>3. ASSUME NEW t \in Tasks, Claim(t) PROVE TypeOK'
  <2>1. slot' \in Tasks \cup {"free"}
    BY <1>3 DEF Claim, TypeOK
  <2>2. task' \in [Tasks -> Task]
    BY <1>3 DEF Claim, Moves, TypeOK, Task
  <2> QED
    BY <1>3, <2>1, <2>2 DEF Claim, TypeOK
<1>4. ASSUME NEW t \in Tasks, Skip(t) PROVE TypeOK'
  <2>1. record' \in Record
    BY <1>0, <1>4 DEF Skip, TypeOK, Record
  <2> QED
    BY <1>4, <2>1 DEF Skip, Moves, Quiet, TypeOK, Task
<1>5. ASSUME NEW t \in Tasks, StartByHand(t) PROVE TypeOK'
  BY <1>5, ClockType DEF StartByHand, Moves, TypeOK, Task
<1>6. ASSUME NEW t \in Tasks, Begin(t) PROVE TypeOK'
  <2>1. record' \in Record
    BY <1>0, <1>6 DEF Begin, TypeOK, Record
  <2>2. ran' \subseteq Nat \X Turns
    BY <1>0, <1>6 DEF Begin, TypeOK
  <2>3. task' \in [Tasks -> Task]
    BY <1>6 DEF Begin, Moves, TypeOK, Task
  <2> QED
    BY <1>6, <2>1, <2>2, <2>3 DEF Begin, TypeOK
<1>7. ASSUME NEW t \in Tasks, BeginGone(t) PROVE TypeOK'
  BY <1>7 DEF BeginGone, Moves, Quiet, TypeOK, Task
<1>8. ASSUME NEW t \in Tasks, Finish(t) PROVE TypeOK'
  <2>1. record' \in Record
    BY <1>8, ClockType DEF Finish, TypeOK, Record
  <2> QED
    BY <1>8, <2>1 DEF Finish, Moves, Quiet, TypeOK, Task
<1>9. ASSUME NEW t \in Tasks, Crash(t) PROVE TypeOK'
  BY <1>9 DEF Crash, Moves, Quiet, TypeOK, Task
<1>10. CASE SetJob
  BY <1>10 DEF SetJob, Fresh, Record, TypeOK
<1>11. CASE RemoveJob
  <2>1. record' \in Record
    BY <1>11 DEF RemoveJob, Gone, Fresh, Record
  <2> QED
    BY <1>11, <2>1 DEF RemoveJob, TypeOK
<1>12. CASE Tick
  BY <1>12 DEF Tick, TypeOK
<1>13. CASE UNCHANGED vars
  BY <1>13 DEF vars, TypeOK
<1> QED
  BY <1>1, <1>2, <1>3, <1>4, <1>5, <1>6, <1>7, <1>8, <1>9, <1>10, <1>11, <1>12,
     <1>13 DEF Next, Step

\* The type invariant holds of every behaviour of a job's turns.
THEOREM TypeCorrect == Spec => []TypeOK
<1> QED
  BY InitType, NextType, PTL DEF Spec

\* Every scheduler that finds the job due names the latest turn, whatever the
\* record says by then and whatever its own clock.
THEOREM LatestTurn == Spec => []TurnIsLatest
<1>1. TypeOK => TurnIsLatest
  BY ClockType, TurnOfDue, JobTurnsAssumption DEF TurnIsLatest
<1> QED
  BY <1>1, TypeCorrect, PTL



-----------------------------------------------------------------------------
(* Turns on Postgres. *)

\* Init establishes the invariant: nothing has been claimed.
LEMMA InitTurns == Init => TurnInv
  BY DEF Init, TurnInv, TurnsAreTaken, TurnsAreApart, HasTurn, Quiet

\* A step that gives nobody a turn, lets none run and claims no earlier one
\* keeps the invariant.
LEMMA QuietTurns ==
    ASSUME TypeOK, TurnInv,
           \A t \in Tasks : HasTurn(t)' => /\ HasTurn(t)
                                           /\ task'[t].life = task[t].life
                                           /\ task'[t].due = task[t].due,
           ran' = ran, life' = life, fired' = fired
    PROVE  TurnInv'
  BY DEF TurnInv, TurnsAreTaken, TurnsAreApart, NotPastClaimed

\* A change of one task to a place without a turn, or that keeps the turn.
LEMMA OneMoves ==
    ASSUME TypeOK, NEW t \in Tasks, NEW v, Moves(t, v),
           \/ v.pc \notin {"claim", "begin"}
           \/ v.due = 0
           \/ HasTurn(t) /\ v.life = task[t].life /\ v.due = task[t].due
    PROVE  \A u \in Tasks : HasTurn(u)' => /\ HasTurn(u)
                                           /\ task'[u].life = task[u].life
                                           /\ task'[u].due = task[u].due
  BY DEF TypeOK, Moves, HasTurn

\* A turn that is claimed is past all those claimed, and so nobody else's.
LEMMA FireTurns ==
    ASSUME TypeOK, TurnInv, OnPostgres, NEW t \in Tasks, Fire(t), Claimable(task[t].due)
    PROVE  TurnInv'
<1> DEFINE v == [task[t] EXCEPT !.pc = "claim", !.life = life]
<1>1. /\ fired < task[t].due
      /\ fired' = task[t].due
      /\ task' = [task EXCEPT ![t] = v]
      /\ ran' = ran /\ life' = life
  BY DEF Fire, Claimable, Moves
<1>2. v.pc = "claim" /\ v.life = life /\ v.due = task[t].due
  BY DEF TypeOK, Task
<1> HIDE DEF v
<1>3. /\ task'[t].life = life /\ task'[t].due = fired'
      /\ \A u \in Tasks : u # t => task'[u] = task[u]
  BY <1>1, <1>2 DEF TypeOK
<1>4. fired \in Nat /\ fired' \in Nat /\ life \in Nat /\ fired < fired'
  <2>1. \A d \in Turns \cup {0} : d \in Nat
    BY JobTurnsAssumption
  <2>2. task[t].due \in Nat
    BY <2>1 DEF TypeOK, Task
  <2> QED
    BY <1>1, <2>2 DEF TypeOK
<1>5. /\ \A u \in Tasks : task[u].life \in Nat /\ task[u].due \in Nat
      /\ \A u \in ran : u[1] \in Nat /\ u[2] \in Nat
  <2>1. \A d \in Turns \cup {0} : d \in Nat
    BY JobTurnsAssumption
  <2>2. \A u \in Tasks : task[u].life \in Nat /\ task[u].due \in Turns \cup {0}
    BY DEF TypeOK, Task
  <2>3. \A u \in ran : u[1] \in Nat /\ u[2] \in Turns
    BY DEF TypeOK
  <2> QED
    BY <2>1, <2>2, <2>3
<1>6. \A u \in Tasks : HasTurn(u) /\ task[u].life = life => task[u].due < fired'
  BY <1>4, <1>5 DEF TurnInv, TurnsAreTaken, NotPastClaimed
<1>7. \A u \in ran : u[1] = life => u[2] < fired'
  BY <1>4, <1>5 DEF TurnInv, TurnsAreTaken, NotPastClaimed
<1>8. \A u \in Tasks : u # t /\ HasTurn(u)' => HasTurn(u)
  BY <1>3 DEF HasTurn
<1>9. TurnsAreTaken'
  <2>1. \A u \in Tasks : HasTurn(u)' => NotPastClaimed(task[u].life, task[u].due)'
    <3> SUFFICES ASSUME NEW u \in Tasks, HasTurn(u)'
                 PROVE  task'[u].life <= life' /\ (task'[u].life = life' => task'[u].due <= fired')
      BY DEF NotPastClaimed
    <3>1. CASE u = t
      BY <1>1, <1>3, <1>4, <3>1
    <3>2. CASE u # t
      BY <1>1, <1>3, <1>4, <1>5, <1>6, <1>8, <3>2 DEF TurnInv, TurnsAreTaken, NotPastClaimed
    <3> QED
      BY <3>1, <3>2
  <2>2. \A u \in ran' : NotPastClaimed(u[1], u[2])'
    BY <1>1, <1>4, <1>5, <1>7 DEF TurnInv, TurnsAreTaken, NotPastClaimed
  <2> QED
    BY <2>1, <2>2 DEF TurnsAreTaken
<1>10. TurnsAreApart'
  <2>1. \A u \in Tasks : HasTurn(u)' => <<task'[u].life, task'[u].due>> \notin ran'
    <3> SUFFICES ASSUME NEW u \in Tasks, HasTurn(u)', <<task'[u].life, task'[u].due>> \in ran
                 PROVE  FALSE
      BY <1>1
    <3>1. CASE u = t
      <4>1. <<life, fired'>> \in ran
        BY <1>3, <3>1
      <4> QED
        BY <1>4, <1>7, <4>1
    <3>2. CASE u # t
      BY <1>3, <1>8, <3>2 DEF TurnInv, TurnsAreApart
    <3> QED
      BY <3>1, <3>2
  <2>2. ASSUME NEW u \in Tasks, NEW w \in Tasks, HasTurn(u)', HasTurn(w)',
               task'[u].life = task'[w].life, task'[u].due = task'[w].due
        PROVE  u = w
    <3>1. CASE u # t /\ w # t
      BY <1>3, <1>8, <2>2, <3>1 DEF TurnInv, TurnsAreApart
    <3>2. CASE u = t /\ w # t
      BY <1>3, <1>4, <1>5, <1>6, <1>8, <2>2, <3>2
    <3>3. CASE u # t /\ w = t
      BY <1>3, <1>4, <1>5, <1>6, <1>8, <2>2, <3>3
    <3> QED
      BY <3>1, <3>2, <3>3
  <2> QED
    BY <2>1, <2>2 DEF TurnsAreApart
<1> QED
  BY <1>9, <1>10 DEF TurnInv

\* A turn that begins to run is out of the task's hands, and nobody else's.
LEMMA BeginTurns ==
    ASSUME TypeOK, TurnInv, NEW t \in Tasks, Begin(t)
    PROVE  TurnInv'
<1> DEFINE v == [task[t] EXCEPT !.pc = "running"]
<1>1. /\ task[t].pc = "begin"
      /\ ran' = IF task[t].due = 0 THEN ran ELSE ran \cup {<<task[t].life, task[t].due>>}
      /\ Moves(t, v)
      /\ life' = life /\ fired' = fired
  BY DEF Begin
<1>2. v.pc = "running"
  BY DEF TypeOK, Task
<1> HIDE DEF v
<1>3. \A u \in Tasks : HasTurn(u)' => /\ HasTurn(u) /\ u # t
                                      /\ task'[u].life = task[u].life
                                      /\ task'[u].due = task[u].due
  BY <1>1, <1>2 DEF Moves, TypeOK, HasTurn
<1>4. CASE task[t].due = 0
  BY <1>1, <1>3, <1>4, QuietTurns
<1>5. CASE task[t].due # 0
  <2>1. HasTurn(t) /\ ran' = ran \cup {<<task[t].life, task[t].due>>}
    BY <1>1, <1>5 DEF HasTurn
  <2>2. TurnsAreTaken'
    BY <1>1, <1>3, <2>1 DEF TurnInv, TurnsAreTaken, NotPastClaimed
  <2>3. TurnsAreApart'
    BY <1>3, <2>1 DEF TurnInv, TurnsAreApart
  <2> QED
    BY <2>2, <2>3 DEF TurnInv
<1> QED
  BY <1>4, <1>5

\* A job that is removed starts another life, in which nothing is claimed.
LEMMA RemoveTurns ==
    ASSUME TypeOK, TurnInv, RemoveJob
    PROVE  TurnInv'
<1>1. /\ life' = life + 1 /\ life \in Nat /\ task' = task /\ ran' = ran
      /\ \A u \in Tasks : task[u].life \in Nat
      /\ \A u \in ran : u[1] \in Nat
  BY DEF RemoveJob, TypeOK, Task
<1>2. TurnsAreTaken'
  BY <1>1 DEF TurnInv, TurnsAreTaken, NotPastClaimed, HasTurn
<1>3. TurnsAreApart'
  BY <1>1 DEF TurnInv, TurnsAreApart, HasTurn
<1> QED
  BY <1>2, <1>3 DEF TurnInv

\* Every step keeps the invariant.
LEMMA NextTurns == OnPostgres /\ TypeOK /\ TurnInv /\ [Next]_vars => TurnInv'
<1> SUFFICES ASSUME OnPostgres, TypeOK, TurnInv, [Next]_vars PROVE TurnInv'
  OBVIOUS
<1>0. Quiet.pc = "idle"
  BY DEF Quiet
<1>1. ASSUME NEW t \in Tasks, Look(t) PROVE TurnInv'
  <2>1. Moves(t, [pc |-> "fire", at |-> Clock(t), due |-> Turn(record, Clock(t)), life |-> 0])
    BY <1>1 DEF Look
  <2> QED
    BY <1>1, <2>1, OneMoves, QuietTurns DEF Look
<1>2. ASSUME NEW t \in Tasks, Fire(t) PROVE TurnInv'
  <2>1. CASE Claimable(task[t].due)
    BY <1>2, <2>1, FireTurns
  <2>2. CASE ~Claimable(task[t].due)
    BY <1>0, <1>2, <2>2, OneMoves, QuietTurns DEF Fire
  <2> QED
    BY <2>1, <2>2
<1>3. ASSUME NEW t \in Tasks, Claim(t) PROVE TurnInv'
  <2>1. PICK w \in {"begin", "skip"} : Moves(t, [task[t] EXCEPT !.pc = w])
    BY <1>3 DEF Claim
  <2>2. /\ [task[t] EXCEPT !.pc = w].pc = w
        /\ [task[t] EXCEPT !.pc = w].life = task[t].life
        /\ [task[t] EXCEPT !.pc = w].due = task[t].due
    BY DEF TypeOK, Task
  <2>3. task[t].due # 0 => HasTurn(t)
    BY <1>3 DEF Claim, HasTurn
  <2> QED
    BY <1>3, <2>1, <2>2, <2>3, OneMoves, QuietTurns DEF Claim
<1>4. ASSUME NEW t \in Tasks, Skip(t) \/ BeginGone(t) \/ Finish(t) \/ Crash(t) PROVE TurnInv'
  BY <1>0, <1>4, OneMoves, QuietTurns DEF Skip, BeginGone, Finish, Crash
<1>5. ASSUME NEW t \in Tasks, StartByHand(t) PROVE TurnInv'
  <2>1. Moves(t, [pc |-> "begin", at |-> Clock(t), due |-> 0, life |-> 0])
    BY <1>5 DEF StartByHand
  <2> QED
    BY <1>5, <2>1, OneMoves, QuietTurns DEF StartByHand
<1>6. ASSUME NEW t \in Tasks, Begin(t) PROVE TurnInv'
  BY <1>6, BeginTurns
<1>7. CASE RemoveJob
  BY <1>7, RemoveTurns
<1>8. CASE SetJob \/ Tick \/ UNCHANGED vars
  BY <1>8, QuietTurns DEF SetJob, Tick, vars, HasTurn
<1> QED
  BY <1>1, <1>2, <1>3, <1>4, <1>5, <1>6, <1>7, <1>8 DEF Next, Step

\* On Postgres a turn of a job begins to run at most once in a life of the job,
\* however many schedulers look at it, however stale what they read, however
\* far apart their clocks, and through changes to the job and deaths.
THEOREM TurnsRunOnce == OnPostgres => (Spec => TurnRunsOnce)
<1> SUFFICES ASSUME OnPostgres PROVE Spec => TurnRunsOnce
  OBVIOUS
<1> DEFINE Once == \A t \in Tasks :
                       (task[t].pc = "begin" /\ task[t].due # 0 /\ task'[t].pc = "running")
                           => \A u \in ran : u[1] = task[t].life => u[2] # task[t].due
<1>1. Init => TypeOK /\ TurnInv
  BY InitType, InitTurns
<1>2. TypeOK /\ TurnInv /\ [Next]_vars => TypeOK' /\ TurnInv'
  BY NextType, NextTurns
<1>3. TypeOK /\ TurnInv => Once
  <2> SUFFICES ASSUME TypeOK, TurnInv, NEW t \in Tasks, task[t].pc = "begin", task[t].due # 0,
                      NEW u \in ran, u[1] = task[t].life, u[2] = task[t].due
               PROVE  FALSE
    OBVIOUS
  <2>1. u = <<u[1], u[2]>>
    BY DEF TypeOK
  <2> QED
    BY <2>1 DEF TurnInv, TurnsAreApart, HasTurn
<1>4. TypeOK /\ TurnInv => [Once]_vars
  BY <1>3
<1> QED
  BY <1>1, <1>2, <1>4, PTL DEF Spec, TurnRunsOnce

-----------------------------------------------------------------------------
(* Rate windows.                                                             *)

Start(t) == t - (t % grain)

InWindow == {t \in Times : t >= clock - RateWindow /\ t <= clock}

RatesTypes ==
    /\ clock \in Times
    /\ grain \in Nat \ {0}
    /\ counts \in [Times -> Nat]
    /\ spends \in [Times -> Nat]
    /\ \A t \in Times : t > clock => spends[t] = 0

\* Each spend of the window is one of those counted from its slice's start.
EachCounted ==
    \E f \in [Units(spends, InWindow) -> Units(counts, Times)] :
        /\ \A u \in Units(spends, InWindow) : f[u][1] = Start(u[1])
        /\ \A u, v \in Units(spends, InWindow) : f[u] = f[v] => u = v

RatesInv ==
    /\ RatesTypes
    /\ IsFiniteSet(Units(counts, Times)) /\ Total(counts, Times) <= Per
    /\ EachCounted

\* What the units are.
LEMMA UnitsAre ==
    ASSUME NEW f, NEW S
    PROVE  /\ \A u : u \in Units(f, S) <=> \E s \in S : \E i \in 1..f[s] : u = <<s, i>>
           /\ \A u \in Units(f, S) : u = <<u[1], u[2]>> /\ u[1] \in S /\ u[2] \in 1..f[u[1]]
           /\ \A s, i : <<s, i>> \in Units(f, S) <=> s \in S /\ i \in 1..f[s]
<1>1. \A u : u \in Units(f, S) <=> \E s \in S : \E i \in 1..f[s] : u = <<s, i>>
  BY DEF Units
<1> QED
  BY <1>1

\* A slice starts at or before each of its moments, and ends after it.
LEMMA Slices ==
    ASSUME RatesTypes, NEW t \in Times
    PROVE  /\ Start(t) \in Times /\ Start(t) <= t /\ t < Start(t) + grain
           /\ t \in Nat
<1>1. t \in 0..LastMoment /\ t \in Nat /\ grain \in Nat /\ grain > 0
  BY RatesAssumption DEF RatesTypes, Times
<1>2. t % grain \in 0..(grain - 1)
  BY <1>1
<1>3. t % grain <= t
  BY <1>1
<1> DEFINE m == t % grain
<1>4. m \in Nat /\ m <= t /\ m < grain
  BY <1>1, <1>2, <1>3
<1> HIDE DEF m
<1>5. t - m \in 0..LastMoment /\ t - m <= t /\ t < t - m + grain
  BY <1>1, <1>4, RatesAssumption
<1> QED
  BY <1>1, <1>5 DEF Start, Times, m

\* The clock goes on: a spend may leave the window, and none enters it.
LEMMA RatesTickInv ==
    ASSUME RatesInv, RatesTick
    PROVE  RatesInv'
<1>1. UNCHANGED <<grain, counts, spends>> /\ clock' = clock + 1 /\ clock \in 0..LastMoment /\ clock < LastMoment
  BY DEF RatesTick, RatesInv, RatesTypes, Times
<1>2. RatesTypes'
  BY <1>1, RatesAssumption DEF RatesInv, RatesTypes, Times
<1>3. Units(counts, Times)' = Units(counts, Times)
  BY <1>1
<1>4. Units(spends, InWindow)' \subseteq Units(spends, InWindow)
  <2> SUFFICES ASSUME NEW u \in Units(spends', InWindow') PROVE u \in Units(spends, InWindow)
    OBVIOUS
  <2>1. u = <<u[1], u[2]>> /\ u[1] \in InWindow' /\ u[2] \in 1..spends[u[1]]
    BY <1>1, UnitsAre
  <2>2. u[1] \in Times /\ u[1] >= clock + 1 - RateWindow /\ u[1] \in Nat /\ clock \in Nat /\ RateWindow \in Nat
    BY <1>1, <2>1, RatesAssumption DEF InWindow, Times
  <2>3. u[1] <= clock
    BY <2>1, <2>2 DEF RatesInv, RatesTypes
  <2>4. u[1] \in InWindow
    BY <2>2, <2>3 DEF InWindow
  <2> QED
    BY <2>1, <2>4, UnitsAre
<1>5. EachCounted'
  <2>1. PICK f \in [Units(spends, InWindow) -> Units(counts, Times)] :
            /\ \A u \in Units(spends, InWindow) : f[u][1] = Start(u[1])
            /\ \A u, v \in Units(spends, InWindow) : f[u] = f[v] => u = v
    BY DEF RatesInv, EachCounted
  <2> DEFINE W == Units(spends, InWindow)'
             g == [u \in W |-> f[u]]
  <2>2. W \subseteq Units(spends, InWindow) /\ Units(counts, Times)' = Units(counts, Times)
    BY <1>3, <1>4
  <2>3. \A u \in W : Start(u[1])' = Start(u[1])
    BY <1>1 DEF Start
  <2> HIDE DEF W
  <2>4. g \in [W -> Units(counts, Times)'] /\ (\A u \in W : g[u][1] = Start(u[1])') /\ \A u, v \in W : g[u] = g[v] => u = v
    BY <2>1, <2>2, <2>3
  <2> QED
    BY <2>4 DEF EachCounted, W
<1> QED
  BY <1>2, <1>3, <1>5 DEF RatesInv, Total

\* A spend counts those the window reaches, and is refused or one more of them.
LEMMA SpendInv ==
    ASSUME RatesInv, Spend
    PROVE  RatesInv'
<1> DEFINE kept == [s \in Times |-> IF KeptSlice(s) THEN counts[s] ELSE 0]
           start == Start(clock)
           K == Units(kept, Times)
           U == Units(spends, InWindow)
<1>1. /\ clock \in Times /\ clock \in Nat /\ grain \in Nat \ {0} /\ counts \in [Times -> Nat] /\ spends \in [Times -> Nat]
      /\ Times \subseteq Nat /\ RateWindow \in Nat /\ Per \in Nat
  BY RatesAssumption DEF RatesInv, RatesTypes, Times
<1>2. kept \in [Times -> Nat]
  BY <1>1
<1>3. K \subseteq Units(counts, Times)
  <2> SUFFICES ASSUME NEW u \in K PROVE u \in Units(counts, Times)
    OBVIOUS
  <2>1. u = <<u[1], u[2]>> /\ u[1] \in Times /\ u[2] \in 1..kept[u[1]]
    <3> HIDE DEF kept
    <3> QED
      BY UnitsAre
  <2>2. u[2] \in 1..counts[u[1]]
    BY <1>1, <2>1
  <2> QED
    BY <2>1, <2>2, UnitsAre
<1>4. IsFiniteSet(K) /\ Cardinality(K) <= Per /\ Cardinality(K) \in Nat
  <2>1. IsFiniteSet(Units(counts, Times)) /\ Cardinality(Units(counts, Times)) <= Per
    BY DEF RatesInv, Total
  <2>2. IsFiniteSet(K) /\ Cardinality(K) <= Cardinality(Units(counts, Times))
    BY <1>3, <2>1, FS_Subset
  <2>3. Cardinality(K) \in Nat /\ Cardinality(Units(counts, Times)) \in Nat
    BY <2>1, <2>2, FS_CardinalityType
  <2> HIDE DEF K
  <2> QED
    BY <1>1, <2>1, <2>2, <2>3
<1>5. PICK f \in [U -> K] :
         /\ \A u \in U : f[u][1] = Start(u[1])
         /\ \A u, v \in U : f[u] = f[v] => u = v
  <2>1. PICK f \in [U -> Units(counts, Times)] :
            /\ \A u \in U : f[u][1] = Start(u[1])
            /\ \A u, v \in U : f[u] = f[v] => u = v
    BY DEF RatesInv, EachCounted
  <2>2. ASSUME NEW u \in U PROVE f[u] \in K
    <3>1. u[1] \in InWindow /\ f[u] \in Units(counts, Times)
      BY UnitsAre
    <3>2. /\ f[u] = <<f[u][1], f[u][2]>> /\ f[u][1] \in Times /\ f[u][2] \in 1..counts[f[u][1]]
          /\ f[u][1] = Start(u[1])
      BY <2>1, <3>1, UnitsAre
    <3>3. u[1] \in Times /\ u[1] >= clock - RateWindow
      BY <3>1 DEF InWindow
    <3>4. Start(u[1]) \in Times /\ u[1] < Start(u[1]) + grain
      BY <3>3, Slices DEF RatesInv
    <3>5. \A s, t \in Nat : t >= clock - RateWindow /\ t < s + grain => s + grain > clock - RateWindow
      BY <1>1
    <3>5a. u[1] \in Nat /\ Start(u[1]) \in Nat
      BY <1>1, <3>3, <3>4
    <3>5b. KeptSlice(Start(u[1]))
      BY <3>3, <3>4, <3>5, <3>5a DEF KeptSlice
    <3>6. kept[Start(u[1])] = counts[Start(u[1])]
      BY <3>4, <3>5b
    <3> HIDE DEF kept
    <3> QED
      BY <3>2, <3>6, UnitsAre
  <2> HIDE DEF K, U
  <2>3. f \in [U -> K]
    BY <2>1, <2>2
  <2> QED
    BY <2>1, <2>3
<1>6. start \in Times /\ (clock % grain) = (clock % grain) /\ start = clock - (clock % grain)
  BY <1>1, Slices DEF RatesInv, Start
<1>7. UNCHANGED <<clock, grain>>
  BY DEF Spend
<1>8. CASE counts' = kept /\ UNCHANGED spends
  <2>1. RatesTypes'
    BY <1>2, <1>7, <1>8 DEF RatesInv, RatesTypes
  <2>2. Units(counts, Times)' = K /\ Units(spends, InWindow)' = U /\ (\A t : Start(t)' = Start(t))
    BY <1>7, <1>8 DEF InWindow, Start
  <2>3. EachCounted'
    <3> HIDE DEF K, U
    <3> QED
      BY <1>5, <2>2 DEF EachCounted
  <2> QED
    BY <1>4, <2>1, <2>2, <2>3 DEF RatesInv, Total
<1>9. CASE /\ Cardinality(K) < Per
           /\ counts' = [kept EXCEPT ![start] = @ + 1]
           /\ spends' = [spends EXCEPT ![clock] = @ + 1]
  <2> DEFINE n == spends[clock] + 1
             m == kept[start] + 1
             new == <<clock, n>>
             cell == <<start, m>>
             U2 == Units(spends, InWindow)'
             K2 == Units(counts, Times)'
             g == [u \in U2 |-> IF u = new THEN cell ELSE f[u]]
  <2>1. n \in Nat /\ m \in Nat /\ n > 0 /\ m > 0 /\ clock \in InWindow
    BY <1>1, <1>2, <1>6 DEF InWindow
  <2>2. /\ spends' \in [Times -> Nat] /\ spends'[clock] = n /\ \A t \in Times : t # clock => spends'[t] = spends[t]
    BY <1>1, <1>9
  <2>3. /\ counts' \in [Times -> Nat] /\ counts'[start] = m /\ \A t \in Times : t # start => counts'[t] = kept[t]
    BY <1>2, <1>6, <1>9
  <2>4. RatesTypes'
    BY <1>1, <1>7, <2>2, <2>3 DEF RatesInv, RatesTypes
  <2>5. InWindow' = InWindow /\ \A t : Start(t)' = Start(t)
    BY <1>7 DEF InWindow, Start
  <2>6. K2 = K \union {cell} /\ cell \notin K
    <3> HIDE DEF kept, start
    <3>1. \A s, i : <<s, i>> \in K2 <=> s \in Times /\ i \in 1..counts'[s]
      BY UnitsAre
    <3>2. \A s, i : <<s, i>> \in K <=> s \in Times /\ i \in 1..kept[s]
      BY UnitsAre
    <3>3. \A u \in K2 \union K : u = <<u[1], u[2]>>
      BY UnitsAre
    <3>4. \A i : i \in 1..m <=> i \in 1..kept[start] \/ i = m
      BY <1>2, <1>6, <2>1
    <3> HIDE DEF K2, K
    <3>5. m \notin 1..kept[start]
      BY <1>2, <1>6
    <3>6. cell \notin K
      BY <3>2, <3>5
    <3> HIDE DEF m
    <3>7. \A s, i : <<s, i>> \in K2 <=> <<s, i>> \in K \/ <<s, i>> = <<start, m>>
      BY <1>6, <2>3, <3>1, <3>2, <3>4
    <3>8. \A u : u \in K2 <=> u \in K \union {<<start, m>>}
      BY <3>3, <3>7
    <3> QED
      BY <3>6, <3>8 DEF m
  <2>7. U2 = U \union {new}
    <3>1. \A s, i : <<s, i>> \in U2 <=> s \in InWindow /\ i \in 1..spends'[s]
      BY <2>5, UnitsAre
    <3>2. \A s, i : <<s, i>> \in U <=> s \in InWindow /\ i \in 1..spends[s]
      BY UnitsAre
    <3>3. \A u \in U2 \union U : u = <<u[1], u[2]>>
      BY UnitsAre
    <3>4. \A i : i \in 1..n <=> i \in 1..spends[clock] \/ i = n
      BY <1>1, <2>1
    <3>5. InWindow \subseteq Times
      BY DEF InWindow
    <3> HIDE DEF U2, U, n
    <3>7. \A s, i : <<s, i>> \in U2 <=> <<s, i>> \in U \/ <<s, i>> = <<clock, n>>
      BY <2>1, <2>2, <3>1, <3>2, <3>4, <3>5
    <3>8. \A u : u \in U2 <=> u \in U \union {<<clock, n>>}
      BY <3>3, <3>7
    <3> QED
      BY <3>8
  <2>8. IsFiniteSet(K2) /\ Cardinality(K2) <= Per
    <3> HIDE DEF K, K2, cell
    <3>1. IsFiniteSet(K \union {cell}) /\ Cardinality(K \union {cell}) = Cardinality(K) + 1
      BY <1>4, <2>6, FS_AddElement
    <3> QED
      BY <1>1, <1>4, <1>9, <2>6, <3>1
  <2>9. new[1] = clock /\ cell[1] = start
    OBVIOUS
  <2>10. EachCounted'
    <3> HIDE DEF K, K2, U, U2, cell, new, start
    <3>1. \A u \in U2 : u = new \/ (u \in U /\ f[u] \in K /\ f[u] # cell)
      BY <1>5, <2>6, <2>7
    <3>2. g \in [U2 -> K2]
      BY <2>6, <3>1
    <3>3. \A u \in U2 : g[u][1] = Start(u[1])
      BY <1>5, <2>9, <3>1 DEF start
    <3>4. \A u, v \in U2 : g[u] = g[v] => u = v
      BY <1>5, <3>1
    <3> QED
      BY <2>5, <3>2, <3>3, <3>4 DEF EachCounted, U2, K2
  <2> QED
    BY <2>4, <2>8, <2>10 DEF RatesInv, Total
<1>10. /\ UNCHANGED <<clock, grain>>
       /\ IF Cardinality(K) >= Per
          THEN counts' = kept /\ UNCHANGED spends
          ELSE /\ counts' = [kept EXCEPT ![clock - (clock % grain)] = @ + 1]
               /\ spends' = [spends EXCEPT ![clock] = @ + 1]
  BY Zenon DEF Spend, Total
<1>11. Cardinality(K) >= Per \/ Cardinality(K) < Per
  BY <1>1, <1>4
<1> HIDE DEF K
<1>12. (Cardinality(K) < Per) => ~(Cardinality(K) >= Per)
  BY <1>1, <1>4
<1> HIDE DEF kept, start
<1> QED
  BY <1>6, <1>8, <1>9, <1>10, <1>11, <1>12

\* Each spend of the window answers to one of those the store counts, of which there
\* are never more than allowed (state/rate.rs).
THEOREM RatesInvariance == RatesSpec => []RatesInv
<1>1. ASSUME RatesInit PROVE RatesInv
  <2>1. RatesTypes
    BY <1>1, RatesAssumption DEF RatesInit, RatesTypes, Times
  <2>2. Units(counts, Times) = {} /\ Units(spends, InWindow) = {}
    <3>1. \A s \in Times : counts[s] = 0 /\ spends[s] = 0
      BY <1>1 DEF RatesInit
    <3>2. \A u \in Units(counts, Times) : FALSE
      BY <3>1, UnitsAre
    <3>3. \A u \in Units(spends, InWindow) : FALSE
      <4>1. InWindow \subseteq Times
        BY DEF InWindow
      <4> QED
        BY <3>1, <4>1, UnitsAre
    <3> QED
      BY <3>2, <3>3
  <2>3. IsFiniteSet({}) /\ Cardinality({}) = 0
    BY FS_EmptySet
  <2>4. EachCounted
    <3> DEFINE g == [u \in {} |-> u]
    <3>1. g \in [{} -> {}]
      OBVIOUS
    <3> QED
      BY <2>2, <3>1 DEF EachCounted
  <2> QED
    BY <2>1, <2>2, <2>3, <2>4, RatesAssumption DEF RatesInv, Total
<1>2. ASSUME RatesInv, [RatesNext]_ratesVars PROVE RatesInv'
  <2>1. CASE UNCHANGED ratesVars
    <3>1. /\ UNCHANGED <<clock, grain, counts, spends>>
          /\ Units(spends, InWindow)' = Units(spends, InWindow) /\ Units(counts, Times)' = Units(counts, Times)
          /\ \A t : Start(t)' = Start(t)
      BY <2>1 DEF ratesVars, InWindow, Start
    <3>2. RatesTypes'
      BY <1>2, <3>1 DEF RatesInv, RatesTypes
    <3>3. EachCounted'
      BY <1>2, <3>1 DEF RatesInv, EachCounted
    <3> QED
      BY <1>2, <3>1, <3>2, <3>3 DEF RatesInv, Total
  <2> QED
    BY <1>2, <2>1, RatesTickInv, SpendInv DEF RatesNext
<1> QED
  BY <1>1, <1>2, PTL DEF RatesSpec

\* rate.rs:9-10: whatever the grain of the store, no window of the clock holds more
\* spends than allowed.
THEOREM NeverMoreSpent == RatesSpec => []NeverOneMore
<1>1. ASSUME RatesInv PROVE NeverOneMore
  <2> DEFINE U == Units(spends, InWindow)
             K == Units(counts, Times)
  <2>1. PICK f \in [U -> K] : \A u, v \in U : f[u] = f[v] => u = v
    BY <1>1 DEF RatesInv, EachCounted
  <2>2. IsFiniteSet(K) /\ Cardinality(K) <= Per
    BY <1>1 DEF RatesInv, Total
  <2> HIDE DEF U, K
  <2>3. f \in Injection(U, K)
    BY <2>1 DEF Injection, IsInjective
  <2>4. IsFiniteSet(U) /\ Cardinality(U) <= Cardinality(K)
    BY <2>2, <2>3, FS_Injection
  <2>5. Cardinality(U) \in Nat /\ Cardinality(K) \in Nat
    BY <2>2, <2>4, FS_CardinalityType
  <2>6. Cardinality(U) <= Per
    BY <2>2, <2>4, <2>5, RatesAssumption
  <2> QED
    BY <2>6 DEF NeverOneMore, Total, InWindow, U
<1> QED
  BY <1>1, RatesInvariance, PTL

-----------------------------------------------------------------------------
(* The pool of connections.                                                  *)

\* The publishes of a process with a place, and the moves with their turn: whoever
\* holds one connection while it needs another is one of them.
Placed(h) == {q \in Publishes \cap At(h) : HasPlace(q)}
Turned(h) == {m \in Movers \cap At(h) : HasMoveTurn(m)}

PoolInv ==
    /\ PoolTypeOK
    /\ \A h \in Processes : Cardinality(Placed(h)) <= MaxTurns
    /\ \A h \in Processes : Cardinality(Turned(h)) <= 1

\* They are finite, as the callers are.
LEMMA PoolSets ==
    ASSUME NEW h
    PROVE  /\ IsFiniteSet(Placed(h)) /\ IsFiniteSet(Turned(h))
           /\ Cardinality(Placed(h)) \in Nat /\ Cardinality(Turned(h)) \in Nat
           /\ MaxTurns \in Nat /\ PoolSize \in Nat
<1>1. Placed(h) \subseteq Callers /\ Turned(h) \subseteq Callers
  BY DEF Placed, Turned, Callers
<1>2. IsFiniteSet(Placed(h)) /\ IsFiniteSet(Turned(h))
  BY <1>1, PoolAssumption, FS_Subset
<1> QED
  BY <1>2, PoolAssumption, FS_CardinalityType

\* A caller goes on: it joins those with a place, or a turn, only where there is room.
LEMMA PoolGoes ==
    ASSUME PoolInv, NEW c \in Callers, NEW s, Goes(c, s),
           c \in Publishes => s \in PublishSteps,
           c \in Movers => s \in MoveSteps,
           c \in Publishes /\ HasPlace(c)' =>
              HasPlace(c) \/ Cardinality({q \in Publishes \cap At(ProcessOf[c]) : HasPlace(q)}) < MaxTurns,
           c \in Movers /\ HasMoveTurn(c)' =>
              HasMoveTurn(c) \/ \A n \in Movers \cap At(ProcessOf[c]) : ~HasMoveTurn(n),
           UNCHANGED <<left, faults>> \/ (left' \in [Movers -> 0..MaxSteps] /\ faults' \in 0..MaxFaults)
    PROVE  PoolInv'
<1>1. /\ step \in [Callers -> PublishSteps \cup MoveSteps]
      /\ step' = [step EXCEPT ![c] = s]
      /\ \A p \in Publishes : step[p] \in PublishSteps
      /\ \A m \in Movers : step[m] \in MoveSteps
      /\ left \in [Movers -> 0..MaxSteps] /\ faults \in 0..MaxFaults
  BY DEF PoolInv, PoolTypeOK, Goes
<1>2. \A d \in Callers : step'[d] = IF d = c THEN s ELSE step[d]
  BY <1>1
<1>3. c \in Publishes \/ c \in Movers
  BY DEF Callers
<1>4. Publishes \subseteq Callers /\ Movers \subseteq Callers
  BY DEF Callers
<1>5. s \in PublishSteps \cup MoveSteps
  BY <1>3
<1>6. step' \in [Callers -> PublishSteps \cup MoveSteps]
  BY <1>1, <1>5
<1>7. PoolTypeOK'
  <2>1. \A p \in Publishes : step'[p] \in PublishSteps
    BY <1>1, <1>2, <1>4
  <2>2. \A m \in Movers : step'[m] \in MoveSteps
    BY <1>1, <1>2, <1>4
  <2>3. left' \in [Movers -> 0..MaxSteps] /\ faults' \in 0..MaxFaults
    BY <1>1
  <2> QED
    BY <1>6, <2>1, <2>2, <2>3 DEF PoolTypeOK
<1>8. ASSUME NEW h \in Processes PROVE Cardinality(Placed(h))' <= MaxTurns
  <2>1. \A d \in Publishes : d # c => (HasPlace(d)' <=> HasPlace(d))
    BY <1>2, <1>4 DEF HasPlace
  <2>2. At(h)' = At(h)
    BY DEF At
  <2>3. Placed(h)' \subseteq Placed(h) \cup {c}
    BY <2>1, <2>2 DEF Placed
  <2>4. Cardinality(Placed(h)) <= MaxTurns
    BY DEF PoolInv
  <2>5. CASE Placed(h)' \subseteq Placed(h)
    <3>1. IsFiniteSet(Placed(h)') /\ Cardinality(Placed(h)') <= Cardinality(Placed(h)) /\ Cardinality(Placed(h)') \in Nat
      BY <2>5, PoolSets, FS_Subset, FS_CardinalityType
    <3> QED
      BY <2>4, <3>1, PoolSets
  <2>6. CASE ~(Placed(h)' \subseteq Placed(h))
    <3>1. c \in Placed(h)' /\ c \notin Placed(h)
      BY <2>3, <2>6
    <3>2. c \in Publishes /\ HasPlace(c)' /\ ProcessOf[c] = h /\ ~HasPlace(c)
      BY <2>2, <3>1 DEF Placed, At
    <3>3. Cardinality(Placed(h)) < MaxTurns
      BY <3>2 DEF Placed
    <3>4. Cardinality(Placed(h) \cup {c}) = Cardinality(Placed(h)) + 1 /\ IsFiniteSet(Placed(h) \cup {c})
      BY <3>1, PoolSets, FS_AddElement
    <3>5. Cardinality(Placed(h)') <= Cardinality(Placed(h) \cup {c}) /\ IsFiniteSet(Placed(h)')
      BY <2>3, <3>4, FS_Subset
    <3>6. Cardinality(Placed(h)') \in Nat
      BY <3>5, FS_CardinalityType
    <3> QED
      BY <3>3, <3>4, <3>5, <3>6, PoolSets
  <2> QED
    BY <2>5, <2>6
<1>9. ASSUME NEW h \in Processes PROVE Cardinality(Turned(h))' <= 1
  <2>1. \A d \in Movers : d # c => (HasMoveTurn(d)' <=> HasMoveTurn(d))
    BY <1>2, <1>4 DEF HasMoveTurn
  <2>2. At(h)' = At(h)
    BY DEF At
  <2>3. Turned(h)' \subseteq Turned(h) \cup {c}
    BY <2>1, <2>2 DEF Turned
  <2>4. Cardinality(Turned(h)) <= 1
    BY DEF PoolInv
  <2>5. CASE Turned(h)' \subseteq Turned(h)
    <3>1. IsFiniteSet(Turned(h)') /\ Cardinality(Turned(h)') <= Cardinality(Turned(h)) /\ Cardinality(Turned(h)') \in Nat
      BY <2>5, PoolSets, FS_Subset, FS_CardinalityType
    <3> QED
      BY <2>4, <3>1, PoolSets
  <2>6. CASE ~(Turned(h)' \subseteq Turned(h))
    <3>1. c \in Turned(h)' /\ c \notin Turned(h)
      BY <2>3, <2>6
    <3>2. c \in Movers /\ HasMoveTurn(c)' /\ ProcessOf[c] = h /\ ~HasMoveTurn(c)
      BY <2>2, <3>1 DEF Turned, At
    <3>3. Turned(h) = {}
      BY <3>2 DEF Turned
    <3>4. Turned(h)' = {c}
      BY <2>3, <3>1, <3>3
    <3>5. Cardinality({c}) = 1
      BY FS_Singleton
    <3> QED
      BY <3>4, <3>5
  <2> QED
    BY <2>5, <2>6
<1> QED
  BY <1>7, <1>8, <1>9 DEF PoolInv

\* A publish takes a place only while one is free.
LEMMA PoolPublishStep ==
    ASSUME PoolInv, NEW p \in Publishes, PublishStep(p) \/ CountFails(p)
    PROVE  PoolInv'
<1> DEFINE HasRoom == Cardinality({q \in Publishes \cap At(ProcessOf[p]) : HasPlace(q)}) < MaxTurns
<1>1. p \in Callers /\ p \notin Movers
  BY PoolAssumption DEF Callers
<1>2. PICK s \in PublishSteps :
         /\ Goes(p, s)
         /\ s \in {"ask", "try", "work", "count", "release"} => HasPlace(p) \/ HasRoom
         /\ UNCHANGED <<left, faults>> \/ (left' = left /\ faults < MaxFaults /\ faults' = faults + 1)
  <2>1. CASE TakesHere(p)
    BY <2>1 DEF TakesHere, Continues, PublishSteps
  <2>2. CASE TakesPlace(p)
    BY <2>2 DEF TakesPlace, Continues, PublishSteps
  <2>3. CASE AsksForLock(p)
    BY <2>3 DEF AsksForLock, Gets, PublishSteps, HasPlace
  <2>4. CASE TriesLock(p)
    BY <2>4 DEF TriesLock, Continues, PublishSteps, HasPlace
  <2>5. CASE PauseEnds(p)
    BY <2>5 DEF PauseEnds, Continues, PublishSteps
  <2>6. CASE Works(p)
    BY <2>6 DEF Works, Continues, PublishSteps, HasPlace
  <2>7. CASE Counts(p)
    BY <2>7 DEF Counts, Gets, PublishSteps, HasPlace
  <2>8. CASE Releases(p)
    BY <2>8 DEF Releases, Continues, PublishSteps
  <2>9. CASE CountFails(p)
    BY <2>9 DEF CountFails, Faulty, PublishSteps, HasPlace
  <2> QED
    BY <2>1, <2>2, <2>3, <2>4, <2>5, <2>6, <2>7, <2>8, <2>9 DEF PublishStep
<1>3. step'[p] = s
  BY <1>1, <1>2 DEF Goes, PoolInv, PoolTypeOK
<1>4. HasPlace(p)' => HasPlace(p) \/ HasRoom
  BY <1>2, <1>3 DEF HasPlace
<1>5. UNCHANGED <<left, faults>> \/ (left' \in [Movers -> 0..MaxSteps] /\ faults' \in 0..MaxFaults)
  BY <1>2, PoolAssumption DEF PoolInv, PoolTypeOK
<1> QED
  BY <1>1, <1>2, <1>4, <1>5, PoolGoes

\* A move takes the turn only while no other has it.
LEMMA PoolMoveStep ==
    ASSUME PoolInv, NEW m \in Movers, MoveBegins(m) \/ MoveStep(m)
    PROVE  PoolInv'
<1> DEFINE Free == \A n \in Movers \cap At(ProcessOf[m]) : ~HasMoveTurn(n)
<1>1. m \in Callers /\ m \notin Publishes
  BY PoolAssumption DEF Callers
<1>2. PICK s \in MoveSteps :
         /\ Goes(m, s)
         /\ s \notin {"idle", "turn", "done"} => HasMoveTurn(m) \/ Free
         /\ UNCHANGED <<left, faults>> \/ (left[m] > 0 /\ left' = [left EXCEPT ![m] = @ - 1] /\ faults' = faults)
  <2>1. CASE MoveBegins(m)
    <3>1. CASE Free /\ Continues(m, "ask")
      BY <3>1 DEF Continues, MoveSteps
    <3>2. CASE Continues(m, "turn") \/ Continues(m, "done")
      BY <3>2 DEF Continues, MoveSteps
    <3> QED
      BY <2>1, <3>1, <3>2 DEF MoveBegins
  <2>2. CASE TakesMoveTurn(m)
    BY <2>2 DEF TakesMoveTurn, Continues, MoveSteps
  <2>3. CASE AsksForMoves(m)
    BY <2>3 DEF AsksForMoves, Gets, MoveSteps, HasMoveTurn
  <2>4. CASE HoldsMoves(m)
    BY <2>4 DEF HoldsMoves, Continues, MoveSteps, HasMoveTurn
  <2>5. CASE GoesOn(m)
    BY <2>5 DEF GoesOn, MoveSteps, HasMoveTurn
  <2>6. CASE StepMoves(m)
    BY <2>6 DEF StepMoves, Gets, MoveSteps, HasMoveTurn
  <2> QED
    BY <2>1, <2>2, <2>3, <2>4, <2>5, <2>6 DEF MoveStep
<1>3. step'[m] = s
  BY <1>1, <1>2 DEF Goes, PoolInv, PoolTypeOK
<1>4. HasMoveTurn(m)' => HasMoveTurn(m) \/ Free
  BY <1>2, <1>3 DEF HasMoveTurn
<1>5. UNCHANGED <<left, faults>> \/ (left' \in [Movers -> 0..MaxSteps] /\ faults' \in 0..MaxFaults)
  <2>1. left \in [Movers -> 0..MaxSteps] /\ faults \in 0..MaxFaults /\ MaxSteps \in Nat
    BY PoolAssumption DEF PoolInv, PoolTypeOK
  <2>2. left[m] > 0 => left[m] - 1 \in 0..MaxSteps
    BY <2>1
  <2> QED
    BY <1>2, <2>1, <2>2
<1> QED
  BY <1>1, <1>2, <1>4, <1>5, PoolGoes

\* Whoever goes away gives back all it held.
LEMMA PoolLeaves ==
    ASSUME PoolInv, NEW c \in Callers, Leaves(c)
    PROVE  PoolInv'
<1>1. Goes(c, "done") /\ left' = left /\ faults < MaxFaults /\ faults' = faults + 1
  BY DEF Leaves, Faulty
<1>2. step'[c] = "done"
  BY <1>1 DEF Goes, PoolInv, PoolTypeOK
<1>3. ~HasPlace(c)' /\ ~HasMoveTurn(c)'
  BY <1>2 DEF HasPlace, HasMoveTurn
<1>4. left' \in [Movers -> 0..MaxSteps] /\ faults' \in 0..MaxFaults
  BY <1>1, PoolAssumption DEF PoolInv, PoolTypeOK
<1> QED
  BY <1>1, <1>3, <1>4, PoolGoes DEF PublishSteps, MoveSteps

\* No process has more publishes with a place than it has places, or more than one
\* move with its turn, whatever is refused, runs out or goes away (bucket.rs, postgres.rs).
THEOREM PoolInvariance == PoolSpec => []PoolInv
<1>1. ASSUME PoolInit PROVE PoolInv
  <2>1. PICK coming \in SUBSET Publishes :
           step = [c \in Callers |-> IF c \in Movers THEN "idle" ELSE IF c \in coming THEN "here" ELSE "done"]
    BY <1>1 DEF PoolInit
  <2>2. PoolTypeOK
    BY <1>1, <2>1, PoolAssumption DEF PoolInit, PoolTypeOK, PublishSteps, MoveSteps, Callers
  <2>3. \A h : Placed(h) = {} /\ Turned(h) = {}
    BY <2>1, PoolAssumption DEF Placed, Turned, HasPlace, HasMoveTurn, Callers
  <2> QED
    BY <2>2, <2>3, FS_EmptySet, PoolAssumption DEF PoolInv
<1>2. ASSUME PoolInv, [PoolNext]_poolVars PROVE PoolInv'
  <2>1. CASE UNCHANGED poolVars
    BY <1>2, <2>1 DEF poolVars, PoolInv, PoolTypeOK, Placed, Turned, HasPlace, HasMoveTurn, At
  <2> QED
    BY <1>2, <2>1, PoolPublishStep, PoolMoveStep, PoolLeaves DEF PoolNext
<1> QED
  BY <1>1, <1>2, PTL DEF PoolSpec

\* Each caller is at a step of its kind, within the bounds.
THEOREM PoolTypeCorrect == PoolSpec => []PoolTypeOK
<1>1. PoolInv => PoolTypeOK
  BY DEF PoolInv
<1> QED
  BY <1>1, PoolInvariance, PTL

\* A pool of more connections than places for publishes and the turn for moves is never
\* held by those alone who need another connection to be done (bucket.rs:60-63,
\* postgres.rs:369).  The defaults, 16 and 4, are such; TOOLSITE_DATABASE_POOL may be less.
THEOREM OneConnectionLeft ==
    ASSUME PoolSize > MaxTurns + 1
    PROVE  PoolSpec => []ConnectionLeft
<1>1. ASSUME PoolInv PROVE ConnectionLeft
  <2> SUFFICES ASSUME NEW h \in Processes PROVE Cardinality(Keepers(h)) < PoolSize
    BY DEF ConnectionLeft
  <2>1. Keepers(h) \subseteq Placed(h) \cup Turned(h)
    BY DEF Keepers, Placed, Turned, HasOne, HasPlace, HasMoveTurn, MoveSteps
  <2>2. /\ IsFiniteSet(Placed(h) \cup Turned(h))
        /\ Cardinality(Placed(h) \cup Turned(h)) =
              Cardinality(Placed(h)) + Cardinality(Turned(h)) - Cardinality(Placed(h) \cap Turned(h))
    BY PoolSets, FS_Union
  <2>3. Cardinality(Placed(h) \cap Turned(h)) \in Nat
    BY PoolSets, FS_Intersection, FS_CardinalityType
  <2>4. IsFiniteSet(Keepers(h)) /\ Cardinality(Keepers(h)) <= Cardinality(Placed(h) \cup Turned(h))
    BY <2>1, <2>2, FS_Subset
  <2>5. Cardinality(Keepers(h)) \in Nat
    BY <2>4, FS_CardinalityType
  <2>6. Cardinality(Placed(h)) <= MaxTurns /\ Cardinality(Turned(h)) <= 1
    BY <1>1 DEF PoolInv
  <2> QED
    BY <2>2, <2>3, <2>4, <2>5, <2>6, PoolSets
<1> QED
  BY <1>1, PoolInvariance, PTL

=============================================================================
