------------------------------ MODULE JobSlots ------------------------------
(***************************************************************************)
(* Runs of jobs and the slots they hold: src/src/platform/schedule.rs over *)
(* the leases of src/src/state/leases.rs.  Names are the jobs, groups the  *)
(* apps.  A process is one asynchronous task of one runner: a start of a   *)
(* job and the runs that follow from it.  Every await of the code is a     *)
(* boundary between two steps.                                             *)
(***************************************************************************)
EXTENDS Leases

CONSTANTS Procs,       \* the tasks that can be under way at once
          Runners,     \* the server processes
          RunnerOf,    \* the runner a task belongs to
          NoJob,       \* the job of a task that has none
          Tries,       \* TRIES: how often a start goes round again
          Timely,      \* whether renewals always land before the slot runs out
          MaxDemands,  \* bound: starts asked for by people, apps and schedules
          MaxFaults    \* bound: crashes, hang-ups, failed and lost calls

ASSUME JobSlotsAssumption ==
    /\ IsFiniteSet(Procs)
    /\ RunnerOf \in [Procs -> Runners]
    /\ NoJob \notin Names
    /\ Tries \in Nat \ {0}
    /\ Timely \in BOOLEAN
    /\ MaxDemands \in Nat
    /\ MaxFaults \in Nat

VARIABLES task,     \* what each process is doing
          wire,     \* renewals sent and not yet carried out: <<job, epoch>>
          owed,     \* history: a queued run was promised and has not begun
          lost,     \* history: the ways a promised run was dropped
          demands,  \* starts asked for so far
          faults    \* faults so far

vars == <<rows, task, wire, owed, lost, demands, faults>>

-----------------------------------------------------------------------------

Kinds == {"none", "person", "app", "tick", "takeover", "queued"}

\* Where a process is.  look, count, ask, claim: looking for a way to start;
\* take: its transaction found the slot free and is about to take it;
\* count_held, give_back: an app's start that has the slot and is not counted
\* yet; begin: the start is being recorded, and begin_next that of the run queued
\* behind one that ended; running: the handler runs and the slot is kept; settle:
\* the handler is done; adrift: the handler runs on a blocking thread whose caller
\* is gone.
PCs == {"idle", "look", "count", "ask", "claim", "take", "count_held",
        "give_back", "begin", "begin_next", "running", "settle", "adrift"}

Task == [pc : PCs, kind : Kinds, job : Names \cup {NoJob},
         epoch : Nat, tries : 0..Tries, counted : BOOLEAN]

Idle == [pc |-> "idle", kind |-> "none", job |-> NoJob,
         epoch |-> 0, tries |-> 0, counted |-> FALSE]

Causes == {"crash", "hangup", "answer", "refused"}

TypeOK ==
    /\ LeasesTypeOK
    /\ task \in [Procs -> Task]
    /\ \A p \in Procs : task[p].pc # "idle" => task[p].job \in Names
    /\ wire \subseteq Names \X Nat
    /\ owed \in [Names -> BOOLEAN]
    /\ lost \subseteq Causes
    /\ demands \in 0..MaxDemands
    /\ faults \in 0..MaxFaults

Init ==
    /\ LeasesInit
    /\ task = [p \in Procs |-> Idle]
    /\ wire = {}
    /\ owed = [j \in Names |-> FALSE]
    /\ lost = {}
    /\ demands = 0
    /\ faults = 0

Job(p) == task[p].job
At(p, where) == task[p].pc = where

\* The process has the slot, as far as it knows, and will settle it.
Holding(p) ==
    task[p].pc \in {"count_held", "give_back", "begin", "begin_next", "running", "settle"}

\* It has the slot and its run has not begun: a request its claim, or the end of
\* the run before, spent is in its hands.
Spending(p) == task[p].pc \in {"count_held", "give_back", "begin", "begin_next"}

Kept(j) == rows[j].again \/ \E p \in Procs : Spending(p) /\ Job(p) = j

Becomes(p, t) == task' = [task EXCEPT ![p] = t]
Goes(p, where) == Becomes(p, [task[p] EXCEPT !.pc = where])
Done(p) == Becomes(p, Idle)

\* Round the loop once more, from the step given, unless the tries are used up.
Retry(p, where) ==
    IF task[p].tries + 1 < Tries
    THEN Becomes(p, [task[p] EXCEPT !.pc = where, !.tries = @ + 1])
    ELSE Done(p)

\* A step that can drop a promised run: what is promised afterwards is what
\* something still keeps.
Drops(why) ==
    /\ owed' = [j \in Names |-> owed[j] /\ Kept(j)']
    /\ lost' = IF \E j \in Names : owed[j] /\ ~Kept(j)' THEN lost \cup {why} ELSE lost

-----------------------------------------------------------------------------
(* How starts come about. *)

Comes(p, j, kind, where) ==
    /\ At(p, "idle")
    /\ Becomes(p, [Idle EXCEPT !.pc = where, !.kind = kind, !.job = j])
    /\ UNCHANGED <<rows, wire, owed, lost, faults>>

Demanded == demands < MaxDemands /\ demands' = demands + 1

\* A person runs a job now.
RunJob(p, j) == Demanded /\ Comes(p, j, "person", "claim")

\* jobs.run from inside a handler.
StartFromApp(p, j) == Demanded /\ Comes(p, j, "app", "look")

\* A scheduler has a turn of the job in its hands.
FireTurn(p, j) == Demanded /\ Comes(p, j, "tick", "claim")

\* A scheduler read the job among the orphans, and will claim it once it has
\* been through those before it.
TakeOver(p, j) ==
    /\ Orphaned(j)
    /\ ~\E q \in Procs : /\ RunnerOf[q] = RunnerOf[p]
                         /\ task[q].kind = "takeover"
                         /\ task[q].pc \in {"claim", "take"}
                         /\ Job(q) = j
    /\ Comes(p, j, "takeover", "claim")
    /\ UNCHANGED demands

-----------------------------------------------------------------------------
(* Starting: claim, run_job and start. *)

\* The advisory lock of the app, held by the transaction that takes a slot.
Locked(g) == \E q \in Procs : At(q, "take") /\ GroupOf[Job(q)] = g

\* On Postgres: the row and the group are read under the lock ...  The two reads
\* are of different rows, and can be one step.
ClaimLook(p) ==
    /\ At(p, "claim")
    /\ ~Locked(GroupOf[Job(p)])
    /\ Takeable(Job(p))
    /\ Goes(p, "take")
    /\ UNCHANGED <<rows, wire, owed, lost, demands, faults>>

\* ... and the row is written whatever became of it since: a renewal and a
\* request do not ask for the lock.
ClaimTaken(p) ==
    /\ At(p, "take")
    /\ Take(Job(p))
    /\ Becomes(p, [task[p] EXCEPT
            !.pc = IF task[p].kind = "app" /\ ~task[p].counted THEN "count_held" ELSE "begin",
            !.epoch = rows[Job(p)].epoch + 1])
    /\ UNCHANGED <<wire, owed, lost, demands, faults>>

\* Held: a person asks the holder, an app's start looks again, a schedule's
\* turn is skipped and a take-over left to whoever has it.  Full: not now.
ClaimRefused(p) ==
    /\ At(p, "claim")
    /\ ~Locked(GroupOf[Job(p)])
    /\ Live(Job(p)) \/ Full(Job(p))
    /\ CASE Live(Job(p)) /\ task[p].kind = "person" -> Goes(p, "ask")
         [] Live(Job(p)) /\ task[p].kind = "app"    -> Retry(p, "look")
         [] OTHER                                   -> Done(p)
    /\ UNCHANGED <<rows, wire, owed, lost, demands, faults>>

\* An app's start reads the slot first.
Look(p) ==
    /\ At(p, "look")
    /\ \/ ~Live(Job(p)) /\ Goes(p, "claim")
       \/ /\ Live(Job(p)) /\ ~rows[Job(p)].again
          /\ Goes(p, IF task[p].counted THEN "ask" ELSE "count")
    /\ UNCHANGED <<rows, wire, owed, lost, demands, faults>>

\* Asked already: it is the same run, and promised to this caller too.
LookQueued(p) ==
    /\ At(p, "look")
    /\ Live(Job(p)) /\ rows[Job(p)].again
    /\ Done(p)
    /\ owed' = [owed EXCEPT ![Job(p)] = TRUE]
    /\ UNCHANGED <<rows, wire, lost, demands, faults>>

\* count_start, answered either way: the window is another module's.
CountAllowed(p) ==
    /\ task[p].pc \in {"count", "count_held"}
    /\ Becomes(p, [task[p] EXCEPT !.pc = IF @ = "count" THEN "ask" ELSE "begin",
                                  !.counted = TRUE])
    /\ UNCHANGED <<rows, wire, owed, lost, demands, faults>>

CountRefused(p) ==
    /\ \/ At(p, "count") /\ Done(p)
       \/ At(p, "count_held") /\ Goes(p, "give_back")
    /\ UNCHANGED <<rows, wire, owed, lost, demands, faults>>

\* Asked of a live holder, the run is promised; else round again.
AskQueued(p) ==
    /\ At(p, "ask")
    /\ AskAgain(Job(p))
    /\ Done(p)
    /\ owed' = [owed EXCEPT ![Job(p)] = TRUE]
    /\ UNCHANGED <<wire, lost, demands, faults>>

AskMissed(p) ==
    /\ At(p, "ask")
    /\ ~Live(Job(p))
    /\ Retry(p, IF task[p].kind = "person" THEN "claim" ELSE "look")
    /\ UNCHANGED <<rows, wire, owed, lost, demands, faults>>

\* A refused start gives the slot back, or runs what was queued meanwhile.
GiveBack(p) ==
    LET j == Job(p)
        e == task[p].epoch
    IN  /\ At(p, "give_back")
        /\ \/ EndAgain(j, e) /\ Goes(p, "begin")
           \/ (EndReleased(j, e) \/ EndLost(j, e)) /\ Done(p)
        /\ Drops("refused")
        /\ UNCHANGED <<wire, demands, faults>>

-----------------------------------------------------------------------------
(* Running: run_once, keep and run_queued. *)

Beginning(p) == task[p].pc \in {"begin", "begin_next"}

\* A run queued behind another goes on in the background from here.
Begun(p, where) ==
    Becomes(p, [task[p] EXCEPT
        !.pc = where, !.kind = IF At(p, "begin_next") THEN "queued" ELSE @])

\* The run begins, and is the one that was promised unless one more was asked
\* of this very holding.
Start(p) ==
    /\ Beginning(p)
    /\ Begun(p, "running")
    /\ owed' = [owed EXCEPT ![Job(p)] = @ /\ rows[Job(p)].again]
    /\ UNCHANGED <<rows, wire, lost, demands, faults>>

\* The job, or its handler, is gone by now: the run fails before it begins.
StartFails(p) ==
    /\ Beginning(p)
    /\ Begun(p, "settle")
    /\ owed' = [owed EXCEPT ![Job(p)] = @ /\ rows[Job(p)].again]
    /\ UNCHANGED <<rows, wire, lost, demands, faults>>

Finish(p) ==
    /\ \/ At(p, "running") /\ Goes(p, "settle")
       \/ At(p, "adrift") /\ Done(p)
    /\ UNCHANGED <<rows, wire, owed, lost, demands, faults>>

\* After a run: one more if it was asked for.
Settle(p) ==
    LET j == Job(p)
        e == task[p].epoch
    IN  /\ At(p, "settle")
        /\ \/ EndAgain(j, e) /\ Goes(p, "begin_next")
           \/ (EndReleased(j, e) \/ EndLost(j, e)) /\ Done(p)
        /\ UNCHANGED <<wire, owed, lost, demands, faults>>

\* The keeper sends a renewal.  Aborting the keeper does not take back what it
\* sent, so one may land after the slot was settled.
RenewSend(p) ==
    /\ At(p, "running")
    /\ wire' = wire \cup {<<Job(p), task[p].epoch>>}
    /\ UNCHANGED <<rows, task, owed, lost, demands, faults>>

\* Mutant: the keeper is never stopped.
RenewLandForEver(m) ==
    /\ Renew(m[1], m[2])
    /\ UNCHANGED <<wire, task, owed, lost, demands, faults>>

RenewLand(m) ==
    /\ wire' = wire \ {m}
    /\ Renew(m[1], m[2])
    /\ UNCHANGED <<task, owed, lost, demands, faults>>

RenewFail(m) ==
    /\ wire' = wire \ {m}
    /\ UNCHANGED <<rows, task, owed, lost, demands, faults>>

-----------------------------------------------------------------------------
(* What goes wrong. *)

Faulty == faults < MaxFaults /\ faults' = faults + 1

\* A runner dies with all its tasks, and comes back with none.
Crash(r) ==
    /\ Faulty
    /\ \E p \in Procs : RunnerOf[p] = r /\ ~At(p, "idle")
    /\ task' = [p \in Procs |-> IF RunnerOf[p] = r THEN Idle ELSE task[p]]
    /\ UNCHANGED <<rows, wire, demands>>
    /\ Drops("crash")

\* The person waiting for a run goes away and its future is dropped, keeper
\* and all; a handler already on its blocking thread runs on.
HangUp(p) ==
    /\ Faulty
    /\ task[p].kind = "person"
    /\ \/ At(p, "running") /\ Goes(p, "adrift")
       \/ /\ task[p].pc \in {"claim", "take", "ask", "begin", "begin_next", "settle"}
          /\ Done(p)
    /\ UNCHANGED <<rows, wire, demands>>
    /\ Drops("hangup")

\* A call to the store fails and nothing happened.
StoreFails(p) ==
    /\ Faulty
    /\ task[p].pc \in {"look", "claim", "take", "ask", "give_back", "settle"}
    /\ Done(p)
    /\ UNCHANGED <<rows, wire, demands>>
    /\ Drops("answer")

\* A call to the store is carried out and its answer lost: the caller takes it
\* for a failure.
AnswerLost(p) ==
    LET j == Job(p)
        e == task[p].epoch
    IN  /\ Faulty
        /\ \/ At(p, "take") /\ Take(j)
           \/ At(p, "ask") /\ AskAgain(j)
           \/ task[p].pc \in {"give_back", "settle"} /\ (EndAgain(j, e) \/ EndReleased(j, e))
        /\ Done(p)
        /\ UNCHANGED <<wire, demands>>
        /\ Drops("answer")

\* Time passes.  With timely renewals no slot runs out under a process that
\* holds it.
Tick ==
    /\ Timely => \A p \in Procs : Holding(p) => rows[Job(p)].left > 1
    /\ Elapse
    /\ UNCHANGED <<task, wire, owed, lost, demands, faults>>

-----------------------------------------------------------------------------

Step(p) ==
    \/ ClaimLook(p) \/ ClaimTaken(p) \/ ClaimRefused(p)
    \/ Look(p) \/ LookQueued(p) \/ CountAllowed(p) \/ CountRefused(p)
    \/ AskQueued(p) \/ AskMissed(p) \/ GiveBack(p)
    \/ Start(p) \/ StartFails(p) \/ Finish(p) \/ Settle(p)

Next ==
    \/ \E p \in Procs, j \in Names :
          RunJob(p, j) \/ StartFromApp(p, j) \/ FireTurn(p, j) \/ TakeOver(p, j)
    \/ \E p \in Procs : Step(p) \/ RenewSend(p)
    \/ \E m \in wire : RenewLand(m) \/ RenewFail(m)
    \/ \E r \in Runners : Crash(r)
    \/ \E p \in Procs : HangUp(p) \/ StoreFails(p) \/ AnswerLost(p)
    \/ Tick

Spec == Init /\ [][Next]_vars

\* Tasks are polled, handlers end by their wall clock, renewals are answered
\* or fail, time passes, and every scheduler wakes within MAX_SLEEP and goes
\* through the orphans.
Fairness ==
    /\ \A p \in Procs : WF_vars(Step(p))
    /\ \A m \in Names \X (0..MaxEpoch) : WF_vars(m \in wire /\ (RenewLand(m) \/ RenewFail(m)))
    /\ WF_vars(Tick)
    /\ \A j \in Names : WF_vars(\E p \in Procs : TakeOver(p, j))

FairSpec == Spec /\ Fairness

-----------------------------------------------------------------------------
(* With timely renewals. *)

\* schedule.rs:10-12, one run per job at a time on whichever runner: no two
\* processes hold one job's slot, through claims, take-overs, queued runs,
\* crashes and lost answers.
OneHolderPerJob ==
    \A p, q \in Procs : Holding(p) /\ Holding(q) /\ Job(p) = Job(q) => p = q

\* schedule.rs:58-62, jobs of one app that run at once: the processes that hold
\* slots of one app never exceed its ceiling, though a late renewal can bring
\* a settled slot back to life past it.
HoldersOf(g) == {p \in Procs : Holding(p) /\ GroupOf[Job(p)] = g}

AppCeiling == \A g \in Groups : Cardinality(HoldersOf(g)) <= Most

\* leases.rs:13-15, a request is never lost between a holder's end of turn and
\* the next: a run that was answered "queued" is on the slot, or in the hands
\* of a process about to run it, until a run begins or a fault is recorded.
QueuedRunIsKept == \A j \in Names : owed[j] => Kept(j)

(* Whatever the delays. *)

\* leases.rs:6-9, the fencing token: two processes that both believe they hold
\* a job's slot were given different epochs.
EpochsTellHoldersApart ==
    \A p, q \in Procs :
        Holding(p) /\ Holding(q) /\ Job(p) = Job(q) /\ task[p].epoch = task[q].epoch => p = q

\* leases.rs:7-9, a holder that paused past its lease cannot act on a request
\* made of the new holder: a request goes away only with a step of a process
\* that takes over a slot it found run out, or that has its current epoch.
SpentByItsHolder ==
    \A j \in Names : rows[j].again /\ ~rows'[j].again =>
        \E p \in Procs :
            /\ Job(p) = j
            /\ ~Holding(p)' \/ Spending(p)'
            /\ \/ At(p, "take")
               \/ Holding(p) /\ task[p].epoch = rows[j].epoch

RequestSpentByItsHolder == [][SpentByItsHolder]_vars

\* The inductive invariant behind the properties of holders: a holder's epoch
\* was given out, and while renewals are timely it is the slot's current one and
\* the slot is live; one process of an app at a time is about to take a slot, and
\* with timely renewals that slot still has no holder when it is taken, and the
\* app still has room.
Fenced == \A p \in Procs : Holding(p) => task[p].epoch <= rows[Job(p)].epoch

HoldersCurrent ==
    Timely => \A p \in Procs :
        Holding(p) => task[p].epoch = rows[Job(p)].epoch /\ Live(Job(p))

HolderInv == Fenced /\ HoldersCurrent /\ EpochsTellHoldersApart

OneTaker ==
    \A p, q \in Procs :
        At(p, "take") /\ At(q, "take") /\ GroupOf[Job(p)] = GroupOf[Job(q)] => p = q

TakersAlone ==
    Timely => \A p, q \in Procs : At(p, "take") /\ Holding(q) => Job(p) # Job(q)

TakerInv == OneTaker /\ TakersAlone

RoomToTake ==
    Timely => \A p \in Procs :
        At(p, "take") => Cardinality(HoldersOf(GroupOf[Job(p)])) < Most

(* Under fairness. *)

\* leases.rs:3-4, 15-16: a slot is never held for ever, whoever died with it.
SlotComesFree == \A j \in Names : Live(j) ~> ~Live(j)

\* schedule.rs:12-14, 95-97: a run that was answered "queued" begins, by its
\* holder or, when that died or went, by another runner, as long as no task goes
\* with the request in its hands: a crash, a hang-up or a lost answer between the
\* step that spends the request and the run, or the refusal of RefusalDropsNoRun.
\* Those are in lost; while there are none, nothing but a run's beginning makes
\* owed false.
QueuedRunComes == [](lost = {}) => \A j \in Names : owed[j] ~> ~owed[j]

(* What the repository says and the code does not do. *)

\* schedule.rs:10, "One run per job at a time, however it was started": of the
\* handlers themselves.
OneRunAtATime ==
    \A p, q \in Procs :
        /\ task[p].pc \in {"running", "adrift"}
        /\ task[q].pc \in {"running", "adrift"}
        /\ Job(p) = Job(q)
        => p = q

\* leases.rs:15-16, "A request left on a lease whose holder died is an orphan,
\* for another runner to take over": an app's start that is refused does not
\* take it away.
RefusalDropsNoRun == "refused" \notin lost

=============================================================================
