------------------------------- MODULE Wakes -------------------------------
(***************************************************************************)
(* The loop of the scheduler, src/src/platform/schedule.rs: it plans its   *)
(* next wake, sleeps, and ticks when the sleep is over; a notification     *)
(* that jobs changed sends it back to planning, without a tick.            *)
(*                                                                         *)
(* The loop itself takes no time: the clock moves only while it sleeps.    *)
(***************************************************************************)
EXTENDS Integers

CONSTANTS MinSleep,  \* MIN_SLEEP
          MaxSleep,  \* MAX_SLEEP
          Period,    \* time between two turns of the job that is due soonest
          Never,     \* the time until the next turn when no job has one
          Soonest,   \* the time until the next turn at the start
          MaxSets    \* bound: times a job is set

ASSUME WakesAssumption ==
    /\ MinSleep \in Nat \ {0}
    /\ MaxSleep \in Nat
    /\ MinSleep <= MaxSleep
    /\ Period \in Nat \ {0}
    /\ Never \in Nat /\ Never > Period
    /\ Soonest \in 0..Period \cup {Never}
    /\ MaxSets \in Nat

VARIABLES due,       \* time until the soonest turn, Never when there is none
          late,      \* history: how long a turn has been due, counted up to MaxLate
          wait,      \* what is left of the sleep
          asleep,    \* whether the loop sleeps; it plans otherwise
          notified,  \* the permit of Jobs.changed
          quiet,     \* time since the last notification, counted up to MaxQuiet
          orphan,    \* a runner died with a run queued on its job's slot
          sets

wakesVars == <<due, late, wait, asleep, notified, quiet, orphan, sets>>

MaxLate == MinSleep + MaxSleep
MaxQuiet == MinSleep + 1

WakesTypeOK ==
    /\ due \in 0..Period \cup {Never}
    /\ late \in 0..MaxLate
    /\ wait \in 0..MaxSleep
    /\ asleep \in BOOLEAN
    /\ notified \in BOOLEAN
    /\ quiet \in 0..MaxQuiet
    /\ orphan \in BOOLEAN
    /\ sets \in 0..MaxSets

WakesInit ==
    /\ due = Soonest
    /\ late = 0
    /\ wait = 0
    /\ asleep = FALSE
    /\ notified = FALSE
    /\ quiet = MaxQuiet
    /\ orphan = FALSE
    /\ sets = 0

-----------------------------------------------------------------------------

\* How long until the soonest job is due, within its two bounds.
UntilNext ==
    IF due > MaxSleep THEN MaxSleep ELSE IF due < MinSleep THEN MinSleep ELSE due

Plan ==
    /\ ~asleep
    /\ asleep' = TRUE
    /\ wait' = UntilNext
    /\ UNCHANGED <<due, late, notified, quiet, orphan, sets>>

\* The notification wins: it may even when the sleep is over as well.
Replan ==
    /\ asleep
    /\ notified
    /\ notified' = FALSE
    /\ asleep' = FALSE
    /\ UNCHANGED <<due, late, wait, quiet, orphan, sets>>

\* Mutant: runs that are owed are not looked for.
TickTurnsOnly ==
    /\ asleep
    /\ wait = 0
    /\ asleep' = FALSE
    /\ due' = IF due = 0 THEN Period ELSE due
    /\ late' = 0
    /\ UNCHANGED <<wait, notified, quiet, orphan, sets>>

\* The sleep is over: what is due is started, and what is owed taken over.
TickDue ==
    /\ asleep
    /\ wait = 0
    /\ asleep' = FALSE
    /\ due' = IF due = 0 THEN Period ELSE due
    /\ late' = 0
    /\ orphan' = FALSE
    /\ UNCHANGED <<wait, notified, quiet, sets>>

Notify == notified' = TRUE /\ quiet' = 0

\* A run ended on this runner, by a schedule, a person or an app.
RunEnds ==
    /\ Notify
    /\ UNCHANGED <<due, late, wait, asleep, orphan, sets>>

\* Mutant: the scheduler is not told.
SetSoonerUntold(d) ==
    /\ sets < MaxSets
    /\ sets' = sets + 1
    /\ due' = d
    /\ late' = 0
    /\ UNCHANGED <<wait, asleep, notified, quiet, orphan>>

\* A job is set or removed, and another turn may be the soonest.
SetSooner(d) ==
    /\ sets < MaxSets
    /\ sets' = sets + 1
    /\ Notify
    /\ due' = d
    /\ late' = 0
    /\ UNCHANGED <<wait, asleep, orphan>>

\* Another runner dies, owing a run.
Owe ==
    /\ ~orphan
    /\ orphan' = TRUE
    /\ UNCHANGED <<due, late, wait, asleep, notified, quiet, sets>>

SleepElapses ==
    /\ asleep
    /\ ~notified
    /\ wait > 0
    /\ wait' = wait - 1
    /\ due' = IF due \in {0, Never} THEN due ELSE due - 1
    /\ late' = IF due # 0 THEN 0 ELSE IF late < MaxLate THEN late + 1 ELSE late
    /\ quiet' = IF quiet < MaxQuiet THEN quiet + 1 ELSE quiet
    /\ UNCHANGED <<asleep, notified, orphan, sets>>

WakesNext ==
    \/ Plan \/ Replan \/ TickDue \/ RunEnds \/ Owe \/ SleepElapses
    \/ \E d \in 0..Period \cup {Never} : SetSooner(d)

\* The loop is polled; of two branches that are ready, select! takes either.
WakesFairness == WF_wakesVars(Plan) /\ WF_wakesVars(Replan) /\ SF_wakesVars(TickDue) /\ WF_wakesVars(SleepElapses)

WakesSpec == WakesInit /\ [][WakesNext]_wakesVars
WakesFairSpec == WakesSpec /\ WakesFairness

-----------------------------------------------------------------------------

\* schedule.rs:39-46, it wakes sooner for a job that is due sooner and at once
\* when jobs change, but sleeps for MIN_SLEEP at the least: however close together
\* notifications come, it is they alone that keep a turn waiting longer than the
\* shortest sleep, and the turn starts once none has come for that long.
LateOnlyWhenNotified == late > MinSleep => quiet <= MinSleep

\* schedule.rs:95-97, "a run it owed is taken over by another runner": a run that
\* a dead runner owed does not stay an orphan, once notifications leave the loop a
\* whole sleep.  While they keep coming sooner than MAX_SLEEP and no turn is due,
\* it never ticks, and never looks.
OwedIsTakenOver == <>[](~notified) => (orphan ~> ~orphan)

=============================================================================
