------------------------------ MODULE MCLoops ------------------------------
(* What goes round for as long as a process runs, in parts that share no      *)
(* state: the scheduler's sleep (Wakes), what carries a connection (Sockets), *)
(* the heartbeat (Runners), and the slot of a job, with renewals that may     *)
(* come too late (JobSlots).  A behaviour follows one.                        *)
EXTENDS Wakes, Sockets, Runners, JobSlots

CONSTANTS t1, w1, r1, r2, j1, g1

MCConns == {t1, w1}
MCTcp == {t1}
\* Each runner has one task, of the one job.
MCProcesses == {r1, r2}
MCRunnerOf == [p \in Procs |-> p]
MCNames == {j1}
MCGroups == {g1}
MCGroupOf == [j \in Names |-> g1]

VARIABLE part

loopsVars == <<part, wakesVars, socketsVars, runnersVars, vars>>

\* What two starts leave of which the first was paused past its slot and the answer
\* of the second's claim was lost: a task that runs on with the old epoch, beside
\* a slot that is live under the next one.  One start more is to come, with no
\* faults: it can ask for a run that only the slot's next holder may begin.
StaleHolderLeft ==
    /\ rows = [j \in Names |-> [epoch |-> 2, left |-> Ttl, again |-> FALSE]]
    /\ task = [p \in Procs |->
          IF p = r1
          THEN [Idle EXCEPT !.pc = "running", !.kind = "tick", !.job = j1, !.epoch = 1]
          ELSE Idle]
    /\ wire = {}
    /\ owed = [j \in Names |-> FALSE]
    /\ lost = {}
    /\ demands = MaxDemands - 1
    /\ faults = MaxFaults

LoopsInit ==
    /\ part \in {"wakes", "sockets", "runners", "slots"}
    /\ WakesInit
    /\ SocketsInit
    /\ RunnersInit
    /\ \/ Init
       \/ part = "slots" /\ StaleHolderLeft

OfWakes == part = "wakes" /\ UNCHANGED <<part, socketsVars, runnersVars, vars>>
OfSockets == part = "sockets" /\ UNCHANGED <<part, wakesVars, runnersVars, vars>>
OfRunners == part = "runners" /\ UNCHANGED <<part, wakesVars, socketsVars, vars>>
OfSlots == part = "slots" /\ UNCHANGED <<part, wakesVars, socketsVars, runnersVars>>

LoopsNext ==
    \/ OfWakes /\ WakesNext
    \/ OfSockets /\ SocketsNext
    \/ OfRunners /\ RunnersNext
    \/ OfSlots /\ Next

\* The fairness of WakesFairSpec, SocketsSpec and FairSpec, and of the heartbeats:
\* they are sent for as long as the process runs, a database that is asked again
\* and again answers some time, and time passes.  Of heartbeats and of renewals it
\* is enough that some process's come.  The part never changes, so one condition
\* stands for one of each part.
LoopsSpec ==
    /\ LoopsInit
    /\ [][LoopsNext]_loopsVars
    /\ WF_loopsVars(\/ OfWakes /\ Plan
                    \/ OfSockets /\ ByItself(t1)
                    \/ OfRunners /\ RunnersTick
                    \/ OfSlots /\ Step(r1))
    /\ WF_loopsVars(\/ OfWakes /\ Replan
                    \/ OfSockets /\ ByItself(w1)
                    \/ OfRunners /\ \E r \in Processes : BeatBegins(r)
                    \/ OfSlots /\ Step(r2))
    /\ WF_loopsVars((OfWakes /\ SleepElapses) \/ (OfSlots /\ Tick))
    /\ WF_loopsVars(OfSlots /\ \E p \in Procs : TakeOver(p, j1))
    /\ WF_loopsVars(OfSlots /\ \E m \in wire : RenewLand(m) \/ RenewFail(m))
    /\ SF_loopsVars((OfWakes /\ TickDue) \/ (OfRunners /\ \E r \in Processes : BeatWrite(r)))
    /\ SF_loopsVars(OfRunners /\ \E r \in Processes : BeatRead(r))
=============================================================================
