------------------------------ MODULE JobTurns ------------------------------
(***************************************************************************)
(* The turns of one scheduled job: its record, the latest turn claimed and *)
(* the schedulers that look at both.  src/src/platform/schedule.rs (since, *)
(* next_due, is_due, turn, tick, begin, set_job, remove_job) over          *)
(* src/src/platform/records/{files,postgres}.rs (set_job, remove_job,      *)
(* update_job, fire).                                                      *)
(*                                                                         *)
(* Time is in Unix seconds from 1 on; 0 stands for a field that is absent. *)
(* The job's slot is one place here: JobSlots shows that it is.            *)
(***************************************************************************)
EXTENDS Integers, FiniteSets

CONSTANTS Turns,       \* the times of the job's schedule
          MaxTime,     \* bound: the clock stops here
          Window,      \* FALLBACK_WINDOW
          Tasks,       \* schedulers, and people who start the job by hand
          Schedulers,  \* the tasks that are schedulers
          Ahead,       \* how far each task's clock runs ahead
          OnPostgres,  \* whether turns are claimed in platform.job_turns
          MaxChanges,  \* bound: times the job is set again or removed
          MaxCrashes   \* bound: tasks that die

ASSUME JobTurnsAssumption ==
    /\ Turns \subseteq Nat \ {0}
    /\ IsFiniteSet(Turns)
    /\ MaxTime \in Nat \ {0}
    /\ Window \in Nat
    /\ Schedulers \subseteq Tasks
    /\ Ahead \in [Tasks -> Nat]
    /\ OnPostgres \in BOOLEAN
    /\ MaxChanges \in Nat
    /\ MaxCrashes \in Nat

VARIABLES now,      \* the time
          record,   \* the job's record, as far as its turns depend on it
          fired,    \* platform.job_turns: the latest turn claimed
          slot,     \* the task that holds the job's slot, or "free"
          task,     \* what each task is doing
          life,     \* history: how often the job was removed
          ran,      \* history: the turns that ran, each with the life it was claimed in
          changes,
          crashes

vars == <<now, record, fired, slot, task, life, ran, changes, crashes>>

-----------------------------------------------------------------------------

Record == [there : BOOLEAN, started : Nat, finished : Nat, skipped : Nat]

\* Job::default with the schedule and the path filled in.
Fresh == [there |-> TRUE, started |-> 0, finished |-> 0, skipped |-> 0]

Gone == [Fresh EXCEPT !.there = FALSE]

\* Where a task is, the time and the turn it has in its hands, and the life of
\* the job it claimed the turn in.
Task == [pc : {"idle", "fire", "claim", "begin", "skip", "running"},
         at : Nat, due : Turns \cup {0}, life : Nat]

Quiet == [pc |-> "idle", at |-> 0, due |-> 0, life |-> 0]

TypeOK ==
    /\ now \in 1..MaxTime
    /\ record \in Record
    /\ fired \in Nat
    /\ slot \in Tasks \cup {"free"}
    /\ task \in [Tasks -> Task]
    /\ life \in Nat
    /\ ran \subseteq Nat \X Turns
    /\ changes \in 0..MaxChanges
    /\ crashes \in 0..MaxCrashes

Init ==
    /\ now = 1
    /\ record = Fresh
    /\ fired = 0
    /\ slot = "free"
    /\ task = [t \in Tasks |-> Quiet]
    /\ life = 0
    /\ ran = {}
    /\ changes = 0
    /\ crashes = 0

Clock(t) == now + Ahead[t]

Least(S) == CHOOSE x \in S : \A y \in S : x <= y
Greatest(S) == CHOOSE x \in S : \A y \in S : y <= x

-----------------------------------------------------------------------------
(* When a job is due. *)

\* The moment the schedule is counted from.
Since(r, at) ==
    LET known == {r.finished, r.started, r.skipped} \ {0}
    IN  IF known # {} THEN Greatest(known)
        ELSE IF at >= Window THEN at - Window ELSE 0

After(time) == {u \in Turns : u > time}

IsDue(r, at) ==
    LET next == After(Since(r, at)) IN next # {} /\ Least(next) <= at

\* Mutant: the first turn missed.
TurnFirst(r, at) == Least(After(Since(r, at)))

\* The turn a due job fires for: the latest scheduled time not after at, or
\* the first one since, should that be later still.
Turn(r, at) ==
    LET first  == Least(After(Since(r, at)))
        passed == {u \in Turns : u < at + 1}
    IN  IF passed # {} /\ Greatest(passed) >= first /\ Greatest(passed) <= at
        THEN Greatest(passed) ELSE first

-----------------------------------------------------------------------------
(* The scheduler: tick. *)

Moves(t, v) == task' = [task EXCEPT ![t] = v]

\* It reads the jobs at its own clock, and finds this one due.
Look(t) ==
    /\ t \in Schedulers
    /\ task[t] = Quiet
    /\ record.there
    /\ IsDue(record, Clock(t))
    /\ Moves(t, [pc |-> "fire", at |-> Clock(t), due |-> Turn(record, Clock(t)), life |-> 0])
    /\ UNCHANGED <<now, record, fired, slot, life, ran, changes, crashes>>

\* Mutant: a claimed turn is claimed again.
ClaimableAgain(due) == OnPostgres => fired <= due

\* The turn is claimed only past the latest one claimed.  On files it always is.
Claimable(due) == OnPostgres => fired < due

Fire(t) ==
    /\ task[t].pc = "fire"
    /\ IF Claimable(task[t].due)
       THEN /\ fired' = IF OnPostgres THEN task[t].due ELSE fired
            /\ Moves(t, [task[t] EXCEPT !.pc = "claim", !.life = life])
       ELSE /\ Moves(t, Quiet)
            /\ UNCHANGED fired
    /\ UNCHANGED <<now, record, slot, life, ran, changes, crashes>>

\* Its slot: taken, or the turn is skipped, as it is held, the app runs as many
\* jobs as it may, or the slot could not be read.
Claim(t) ==
    /\ task[t].pc = "claim"
    /\ \/ slot = "free" /\ slot' = t /\ Moves(t, [task[t] EXCEPT !.pc = "begin"])
       \/ slot' = slot /\ Moves(t, [task[t] EXCEPT !.pc = "skip"])
    /\ UNCHANGED <<now, record, fired, life, ran, changes, crashes>>

Skip(t) ==
    /\ task[t].pc = "skip"
    /\ record' = IF record.there THEN [record EXCEPT !.skipped = task[t].at] ELSE record
    /\ Moves(t, Quiet)
    /\ UNCHANGED <<now, fired, slot, life, ran, changes, crashes>>

-----------------------------------------------------------------------------
(* Runs. *)

\* A person, or the app, starts the job whatever its schedule says.
StartByHand(t) ==
    /\ t \notin Schedulers
    /\ task[t] = Quiet
    /\ record.there
    /\ slot = "free"
    /\ slot' = t
    /\ Moves(t, [pc |-> "begin", at |-> Clock(t), due |-> 0, life |-> 0])
    /\ UNCHANGED <<now, record, fired, life, ran, changes, crashes>>

Begin(t) ==
    /\ task[t].pc = "begin"
    /\ record.there
    /\ record' = [record EXCEPT !.started = task[t].at]
    /\ ran' = IF task[t].due = 0 THEN ran ELSE ran \cup {<<task[t].life, task[t].due>>}
    /\ Moves(t, [task[t] EXCEPT !.pc = "running"])
    /\ UNCHANGED <<now, fired, slot, life, changes, crashes>>

\* The job is gone by now: nothing runs, and the slot is settled.
BeginGone(t) ==
    /\ task[t].pc = "begin"
    /\ ~record.there
    /\ slot' = "free"
    /\ Moves(t, Quiet)
    /\ UNCHANGED <<now, record, fired, life, ran, changes, crashes>>

\* The outcome is recorded, then the slot settled.
Finish(t) ==
    /\ task[t].pc = "running"
    /\ record' = IF record.there THEN [record EXCEPT !.finished = Clock(t)] ELSE record
    /\ slot' = "free"
    /\ Moves(t, Quiet)
    /\ UNCHANGED <<now, fired, life, ran, changes, crashes>>

-----------------------------------------------------------------------------
(* Changes to the job, deaths and time. *)

\* The record is replaced whole: its history goes with it, the claimed turn
\* does not.
SetJob ==
    /\ changes < MaxChanges
    /\ changes' = changes + 1
    /\ record' = Fresh
    /\ UNCHANGED <<now, fired, slot, task, life, ran, crashes>>

\* A removed job takes its claimed turn along.
RemoveJob ==
    /\ changes < MaxChanges
    /\ changes' = changes + 1
    /\ record.there
    /\ record' = Gone
    /\ fired' = 0
    /\ life' = life + 1
    /\ UNCHANGED <<now, slot, task, ran, crashes>>

\* A task dies; its slot is free once the lease has run out.
Crash(t) ==
    /\ crashes < MaxCrashes
    /\ crashes' = crashes + 1
    /\ task[t] # Quiet
    /\ Moves(t, Quiet)
    /\ slot' = IF slot = t THEN "free" ELSE slot
    /\ UNCHANGED <<now, record, fired, life, ran, changes>>

Tick ==
    /\ now < MaxTime
    /\ now' = now + 1
    /\ UNCHANGED <<record, fired, slot, task, life, ran, changes, crashes>>

-----------------------------------------------------------------------------

Step(t) == Look(t) \/ Fire(t) \/ Claim(t) \/ Skip(t) \/ Begin(t)
           \/ BeginGone(t) \/ Finish(t)

Next ==
    \/ \E t \in Tasks : Step(t) \/ StartByHand(t) \/ Crash(t)
    \/ SetJob \/ RemoveJob \/ Tick

Spec == Init /\ [][Next]_vars

\* Time passes, schedulers wake again and again, tasks are polled and runs end.
FairSpec == Spec /\ WF_vars(Tick) /\ \A t \in Tasks : WF_vars(Step(t))

-----------------------------------------------------------------------------

\* schedule.rs:444-446, "Every scheduler that finds the job due at `at` names
\* the same turn, whatever it last read": the turn is the latest scheduled time
\* not after at, whatever the record says.
TurnIsLatest ==
    \A t \in Schedulers :
        IsDue(record, Clock(t)) =>
            Turn(record, Clock(t)) = Greatest({u \in Turns : u <= Clock(t)})

\* records/mod.rs:90-93 and schedule.rs:676-679, a turn fires once however many
\* schedulers look: a turn begins to run only if it has not run before, though
\* records are read before they are acted on, written late and out of order, and
\* clocks disagree.
TurnRunsOnce ==
    [][\A t \in Tasks :
            (task[t].pc = "begin" /\ task[t].due # 0 /\ task'[t].pc = "running")
                => \A u \in ran : u[1] = task[t].life => u[2] # task[t].due]_vars

\* The inductive invariant behind it on Postgres: a turn in the hands of a task,
\* like one that ran, is not past the latest one claimed in its life of the job;
\* no two tasks have the same one, and it has not run.
HasTurn(t) == task[t].pc \in {"claim", "begin"} /\ task[t].due # 0

NotPastClaimed(l, due) == l <= life /\ (l = life => due <= fired)

TurnsAreTaken ==
    /\ \A t \in Tasks : HasTurn(t) => NotPastClaimed(task[t].life, task[t].due)
    /\ \A u \in ran : NotPastClaimed(u[1], u[2])

TurnsAreApart ==
    /\ \A t \in Tasks : HasTurn(t) => <<task[t].life, task[t].due>> \notin ran
    /\ \A t, u \in Tasks :
          HasTurn(t) /\ HasTurn(u) /\ task[t].life = task[u].life /\ task[t].due = task[u].due
              => t = u

TurnInv == TurnsAreTaken /\ TurnsAreApart

\* schedule.rs:437-442, a job that missed its turns fires once, not never: while
\* a job is due for a turn nobody has claimed, however old its record and
\* whoever died with an earlier turn, some scheduler comes and claims it.
Unclaimed(t) ==
    /\ record.there
    /\ IsDue(record, Clock(t))
    /\ fired < Greatest({u \in Turns : u <= Clock(t)})

DueTurnIsClaimed == \A t \in Schedulers : Unclaimed(t) ~> ~Unclaimed(t)

=============================================================================
