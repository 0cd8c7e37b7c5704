--------------------------- MODULE JobSlotsProofs ---------------------------
(* Proofs about the slots of jobs, for every number of processes, jobs,     *)
(* apps, tries and faults.                                                  *)
EXTENDS JobSlots, TLAPS, FiniteSetTheorems

\* Init establishes the type invariant.
LEMMA InitType == Init => TypeOK
<1> SUFFICES ASSUME Init PROVE TypeOK
  OBVIOUS
<1> USE LeaseAssumption, JobSlotsAssumption
<1>1. LeasesTypeOK
  BY DEF Init, LeasesInit, LeasesTypeOK, Row
<1>2. task \in [Procs -> Task]
  BY DEF Init, Task, Idle, PCs, Kinds
<1>3. \A p \in Procs : task[p].pc # "idle" => task[p].job \in Names
  BY DEF Init, Idle
<1>4. wire \subseteq Names \X Nat /\ owed \in [Names -> BOOLEAN] /\ lost \subseteq Causes
  BY DEF Init
<1>5. demands \in 0..MaxDemands /\ faults \in 0..MaxFaults
  BY DEF Init
<1> QED
  BY <1>1, <1>2, <1>3, <1>4, <1>5 DEF TypeOK

\* Every step of the lease store keeps its rows well formed.
LEMMA StoreType ==
    ASSUME LeasesTypeOK, NEW n \in Names, NEW e \in Nat,
           \/ Take(n) \/ Renew(n, e) \/ AskAgain(n) \/ EndAgain(n, e)
           \/ EndReleased(n, e) \/ EndLost(n, e) \/ Elapse
    PROVE  LeasesTypeOK'
<1> USE LeaseAssumption DEF LeasesTypeOK, Row
<1>1. CASE Take(n)
  BY <1>1 DEF Take
<1>2. CASE Renew(n, e)
  <2>1. CASE Holds(n, e)
    BY <1>2, <2>1 DEF Renew
  <2>2. CASE ~Holds(n, e)
    BY <1>2, <2>2 DEF Renew
  <2> QED
    BY <2>1, <2>2
<1>3. CASE AskAgain(n)
  BY <1>3 DEF AskAgain
<1>4. CASE EndAgain(n, e)
  BY <1>4 DEF EndAgain
<1>5. CASE EndReleased(n, e)
  BY <1>5 DEF EndReleased
<1>6. CASE EndLost(n, e)
  BY <1>6 DEF EndLost
<1>7. CASE Elapse
  BY <1>7 DEF Elapse
<1> QED
  BY <1>1, <1>2, <1>3, <1>4, <1>5, <1>6, <1>7

\* The changes a step makes to a process's record.
LEMMA TaskGoes ==
    ASSUME NEW t \in Task, NEW w \in PCs
    PROVE  /\ [t EXCEPT !.pc = w] \in Task
           /\ [t EXCEPT !.pc = w].job = t.job
  BY DEF Task

\* A retry leaves a well-formed task while a try is left.
LEMMA TaskTries ==
    ASSUME NEW t \in Task, NEW w \in PCs, NEW n \in 0..Tries
    PROVE  [t EXCEPT !.pc = w, !.tries = n] \in Task
  BY DEF Task

\* So does taking the slot with the next epoch.
LEMMA TaskTakes ==
    ASSUME NEW t \in Task, NEW w \in PCs, NEW e \in Nat
    PROVE  [t EXCEPT !.pc = w, !.epoch = e] \in Task
  BY DEF Task

\* So does being counted.
LEMMA TaskCounts ==
    ASSUME NEW t \in Task, NEW w \in PCs
    PROVE  [t EXCEPT !.pc = w, !.counted = TRUE] \in Task
  BY DEF Task

\* So does going on in the background with a queued run.
LEMMA TaskDetaches ==
    ASSUME NEW t \in Task, NEW w \in PCs, NEW k \in Kinds
    PROVE  [t EXCEPT !.pc = w, !.kind = k] \in Task
  BY DEF Task

\* A run that begins is a well-formed task of the same job and epoch.
LEMMA BegunFields ==
    ASSUME TypeOK, NEW p \in Procs, NEW w \in PCs, Begun(p, w)
    PROVE  \E t \in Task : /\ Becomes(p, t)
                           /\ t.pc = w
                           /\ t.job = task[p].job
                           /\ t.epoch = task[p].epoch
<1> DEFINE k == IF At(p, "begin_next") THEN "queued" ELSE task[p].kind
           t == [task[p] EXCEPT !.pc = w, !.kind = k]
<1>1. task[p] \in Task /\ task[p].kind \in Kinds
  BY DEF TypeOK, Task
<1>2. k \in Kinds
  BY <1>1 DEF Kinds
<1>3. t \in Task
  BY <1>1, <1>2, TaskDetaches
<1>4. t.pc = w /\ t.job = task[p].job /\ t.epoch = task[p].epoch
  BY <1>1 DEF Task
<1>5. Becomes(p, t)
  BY DEF Begun
<1> QED
  BY <1>3, <1>4, <1>5

\* A start that just came about is a well-formed task.
LEMMA NewTask ==
    ASSUME NEW w \in PCs, NEW k \in Kinds, NEW j \in Names
    PROVE  /\ [Idle EXCEPT !.pc = w, !.kind = k, !.job = j] \in Task
           /\ [Idle EXCEPT !.pc = w, !.kind = k, !.job = j].job = j
<1>1. Idle \in Task
  BY JobSlotsAssumption DEF Idle, Task, PCs, Kinds
<1> QED
  BY <1>1 DEF Task

\* What a step of one process has to keep, stated once: its new record is a
\* task, and has a job unless it is idle.
LEMMA BecomesType ==
    ASSUME TypeOK, NEW p \in Procs, NEW t \in Task,
           t.pc # "idle" => t.job \in Names,
           Becomes(p, t)
    PROVE  /\ task' \in [Procs -> Task]
           /\ \A q \in Procs : task'[q].pc # "idle" => task'[q].job \in Names
  BY DEF TypeOK, Becomes

\* A process that is done is idle, and well formed.
LEMMA DoneType ==
    ASSUME TypeOK, NEW p \in Procs, Done(p)
    PROVE  /\ task' \in [Procs -> Task]
           /\ \A q \in Procs : task'[q].pc # "idle" => task'[q].job \in Names
<1>1. Idle \in Task /\ Idle.pc = "idle"
  BY JobSlotsAssumption DEF Idle, Task, PCs, Kinds
<1> QED
  BY <1>1, BecomesType DEF Done

\* Moving a process on keeps tasks well formed.
LEMMA GoesType ==
    ASSUME TypeOK, NEW p \in Procs, NEW w \in PCs, ~At(p, "idle"), Goes(p, w)
    PROVE  /\ task' \in [Procs -> Task]
           /\ \A q \in Procs : task'[q].pc # "idle" => task'[q].job \in Names
<1>1. task[p] \in Task /\ task[p].job \in Names
  BY DEF TypeOK, At
<1> QED
  BY <1>1, TaskGoes, BecomesType DEF Goes

\* So does going round the loop once more.
LEMMA RetryType ==
    ASSUME TypeOK, NEW p \in Procs, NEW w \in PCs, ~At(p, "idle"), Retry(p, w)
    PROVE  /\ task' \in [Procs -> Task]
           /\ \A q \in Procs : task'[q].pc # "idle" => task'[q].job \in Names
<1> DEFINE t == [task[p] EXCEPT !.pc = w, !.tries = task[p].tries + 1]
<1>1. task[p] \in Task /\ task[p].job \in Names
  BY DEF TypeOK, At
<1>2. CASE task[p].tries + 1 < Tries
  <2>1. task[p].tries + 1 \in 0..Tries
    BY <1>1, <1>2, JobSlotsAssumption DEF Task
  <2>2. t \in Task
    BY <1>1, <2>1, TaskTries
  <2>3. t.job = task[p].job
    BY <1>1 DEF Task
  <2>4. Becomes(p, t)
    BY <1>2 DEF Retry
  <2> QED
    BY <1>1, <2>2, <2>3, <2>4, BecomesType
<1>3. CASE ~(task[p].tries + 1 < Tries)
  BY <1>3, DoneType DEF Retry
<1> QED
  BY <1>2, <1>3

\* A step that can drop promised runs keeps the history well formed.
LEMMA DropsType ==
    ASSUME TypeOK, NEW why \in Causes, Drops(why)
    PROVE  owed' \in [Names -> BOOLEAN] /\ lost' \subseteq Causes
  BY DEF TypeOK, Drops

\* A counted fault stays within its bound.
LEMMA FaultyType ==
    ASSUME TypeOK, Faulty
    PROVE  faults' \in 0..MaxFaults
  BY JobSlotsAssumption DEF TypeOK, Faulty

\* A start that comes about keeps the type invariant.
LEMMA ComesType ==
    ASSUME TypeOK, NEW p \in Procs, NEW j \in Names, NEW k \in Kinds, NEW w \in PCs,
           Comes(p, j, k, w), demands' \in 0..MaxDemands
    PROVE  TypeOK'
<1> DEFINE t == [Idle EXCEPT !.pc = w, !.kind = k, !.job = j]
<1>1. t \in Task /\ t.job \in Names
  BY NewTask
<1>2. Becomes(p, t)
  BY DEF Comes
<1>3. /\ task' \in [Procs -> Task]
      /\ \A q \in Procs : task'[q].pc # "idle" => task'[q].job \in Names
  BY <1>1, <1>2, BecomesType
<1> QED
  BY <1>3 DEF TypeOK, LeasesTypeOK, Comes

\* Every step keeps the type invariant.
LEMMA NextType == TypeOK /\ [Next]_vars => TypeOK'
<1> SUFFICES ASSUME TypeOK, [Next]_vars PROVE TypeOK'
  OBVIOUS
<1> USE LeaseAssumption, JobSlotsAssumption
<1>0. \A p \in Procs : /\ task[p] \in Task
                       /\ ~At(p, "idle") => Job(p) \in Names
                       /\ task[p].epoch \in Nat
  BY DEF TypeOK, Task, Job, At
<1>1. ASSUME NEW p \in Procs, NEW j \in Names,
             RunJob(p, j) \/ StartFromApp(p, j) \/ FireTurn(p, j) \/ TakeOver(p, j)
      PROVE  TypeOK'
  <2>1. demands' \in 0..MaxDemands
    BY <1>1 DEF RunJob, StartFromApp, FireTurn, TakeOver, Demanded, TypeOK
  <2>2. {"person", "app", "tick", "takeover"} \subseteq Kinds /\ {"claim", "look"} \subseteq PCs
    BY DEF Kinds, PCs
  <2> QED
    BY <1>1, <2>1, <2>2, ComesType DEF RunJob, StartFromApp, FireTurn, TakeOver
<1>2. ASSUME NEW p \in Procs, ClaimTaken(p) PROVE TypeOK'
  <2> DEFINE w == IF task[p].kind = "app" /\ ~task[p].counted THEN "count_held" ELSE "begin"
             t == [task[p] EXCEPT !.pc = w, !.epoch = rows[Job(p)].epoch + 1]
  <2>1. ~At(p, "idle") /\ Job(p) \in Names
    BY <1>0, <1>2 DEF ClaimTaken, At
  <2>2. w \in PCs /\ rows[Job(p)].epoch + 1 \in Nat
    BY <2>1 DEF PCs, TypeOK, LeasesTypeOK, Row
  <2>3. t \in Task
    BY <1>0, <2>2, TaskTakes
  <2>4. t.job = Job(p)
    BY <1>0 DEF Task, Job
  <2>5. Becomes(p, t) /\ Take(Job(p))
    BY <1>2 DEF ClaimTaken
  <2>6. /\ task' \in [Procs -> Task]
        /\ \A q \in Procs : task'[q].pc # "idle" => task'[q].job \in Names
    BY <2>1, <2>3, <2>4, <2>5, BecomesType
  <2>7. LeasesTypeOK'
    BY <1>0, <2>1, <2>5, StoreType DEF TypeOK
  <2> QED
    BY <1>2, <2>6, <2>7 DEF ClaimTaken, TypeOK
<1>3. ASSUME NEW p \in Procs, ClaimLook(p) \/ ClaimRefused(p) \/ Look(p)
      PROVE  TypeOK'
  <2>1. ~At(p, "idle") /\ Job(p) \in Names
    BY <1>0, <1>3 DEF ClaimLook, ClaimRefused, Look, At
  <2>2. {"take", "ask", "look", "claim", "count"} \subseteq PCs
    BY DEF PCs
  <2>3. Done(p) \/ (\E w \in PCs : Goes(p, w) \/ Retry(p, w))
    BY <1>3, <2>2 DEF ClaimLook, ClaimRefused, Look
  <2>4. /\ task' \in [Procs -> Task]
        /\ \A q \in Procs : task'[q].pc # "idle" => task'[q].job \in Names
    BY <2>1, <2>3, DoneType, GoesType, RetryType
  <2> QED
    BY <1>3, <2>4 DEF ClaimLook, ClaimRefused, Look, TypeOK, LeasesTypeOK
<1>4. ASSUME NEW p \in Procs, CountAllowed(p) PROVE TypeOK'
  <2> DEFINE w == IF task[p].pc = "count" THEN "ask" ELSE "begin"
             t == [task[p] EXCEPT !.pc = w, !.counted = TRUE]
  <2>1. ~At(p, "idle") /\ Job(p) \in Names
    BY <1>0, <1>4 DEF CountAllowed, At
  <2>2. t \in Task
    BY <1>0, TaskCounts DEF PCs
  <2>3. t.job = Job(p)
    BY <1>0 DEF Task, Job
  <2>4. Becomes(p, t)
    BY <1>4 DEF CountAllowed
  <2>5. /\ task' \in [Procs -> Task]
        /\ \A q \in Procs : task'[q].pc # "idle" => task'[q].job \in Names
    BY <2>1, <2>2, <2>3, <2>4, BecomesType
  <2> QED
    BY <1>4, <2>5 DEF CountAllowed, TypeOK, LeasesTypeOK
<1>5. ASSUME NEW p \in Procs, CountRefused(p) \/ Finish(p) PROVE TypeOK'
  <2>1. ~At(p, "idle")
    BY <1>5 DEF CountRefused, Finish, At
  <2>2. {"give_back", "settle"} \subseteq PCs
    BY DEF PCs
  <2>3. /\ task' \in [Procs -> Task]
        /\ \A q \in Procs : task'[q].pc # "idle" => task'[q].job \in Names
    BY <1>5, <2>1, <2>2, DoneType, GoesType DEF CountRefused, Finish
  <2> QED
    BY <1>5, <2>3 DEF CountRefused, Finish, TypeOK, LeasesTypeOK
<1>6. ASSUME NEW p \in Procs, AskQueued(p) PROVE TypeOK'
  <2>1. Job(p) \in Names
    BY <1>0, <1>6 DEF AskQueued, At
  <2>2. LeasesTypeOK'
    BY <1>0, <1>6, <2>1, StoreType DEF AskQueued, TypeOK
  <2>3. /\ task' \in [Procs -> Task]
        /\ \A q \in Procs : task'[q].pc # "idle" => task'[q].job \in Names
    BY <1>6, DoneType DEF AskQueued
  <2>4. owed' \in [Names -> BOOLEAN]
    BY <1>6 DEF AskQueued, TypeOK
  <2> QED
    BY <1>6, <2>2, <2>3, <2>4 DEF AskQueued, TypeOK
<1>7. ASSUME NEW p \in Procs, AskMissed(p) PROVE TypeOK'
  <2>1. ~At(p, "idle")
    BY <1>7 DEF AskMissed, At
  <2>2. {"claim", "look"} \subseteq PCs
    BY DEF PCs
  <2>3. \E w \in PCs : Retry(p, w)
    BY <1>7, <2>2 DEF AskMissed
  <2>4. /\ task' \in [Procs -> Task]
        /\ \A q \in Procs : task'[q].pc # "idle" => task'[q].job \in Names
    BY <2>1, <2>3, RetryType
  <2> QED
    BY <1>7, <2>4 DEF AskMissed, TypeOK, LeasesTypeOK
<1>8. ASSUME NEW p \in Procs, GiveBack(p) PROVE TypeOK'
  <2>1. ~At(p, "idle") /\ Job(p) \in Names /\ task[p].epoch \in Nat
    BY <1>0, <1>8 DEF GiveBack, At
  <2>2. LeasesTypeOK'
    BY <1>8, <2>1, StoreType DEF GiveBack, TypeOK
  <2>3. "begin" \in PCs /\ "refused" \in Causes
    BY DEF PCs, Causes
  <2>4. /\ task' \in [Procs -> Task]
        /\ \A q \in Procs : task'[q].pc # "idle" => task'[q].job \in Names
    BY <1>8, <2>1, <2>3, DoneType, GoesType DEF GiveBack
  <2>5. owed' \in [Names -> BOOLEAN] /\ lost' \subseteq Causes
    BY <1>8, <2>3, DropsType DEF GiveBack
  <2> QED
    BY <1>8, <2>2, <2>4, <2>5 DEF GiveBack, TypeOK
<1>9. ASSUME NEW p \in Procs, Start(p) \/ StartFails(p) PROVE TypeOK'
  <2>1. ~At(p, "idle") /\ Job(p) \in Names
    BY <1>0, <1>9 DEF Start, StartFails, Beginning, At
  <2>2. {"running", "settle"} \subseteq PCs
    BY DEF PCs
  <2>0. PICK t \in Task : Becomes(p, t) /\ t.job = Job(p)
    BY <1>9, <2>2, BegunFields DEF Start, StartFails, Job
  <2>3. /\ task' \in [Procs -> Task]
        /\ \A q \in Procs : task'[q].pc # "idle" => task'[q].job \in Names
    BY <2>0, <2>1, BecomesType
  <2>4. owed' \in [Names -> BOOLEAN]
    BY <1>9 DEF Start, StartFails, TypeOK
  <2> QED
    BY <1>9, <2>3, <2>4 DEF Start, StartFails, TypeOK, LeasesTypeOK
<1>10. ASSUME NEW p \in Procs, Settle(p) PROVE TypeOK'
  <2>1. ~At(p, "idle") /\ Job(p) \in Names /\ task[p].epoch \in Nat
    BY <1>0, <1>10 DEF Settle, At
  <2>2. LeasesTypeOK'
    BY <1>10, <2>1, StoreType DEF Settle, TypeOK
  <2>3. "begin_next" \in PCs
    BY DEF PCs
  <2>4. /\ task' \in [Procs -> Task]
        /\ \A q \in Procs : task'[q].pc # "idle" => task'[q].job \in Names
    BY <1>10, <2>1, <2>3, GoesType, DoneType DEF Settle
  <2> QED
    BY <1>10, <2>2, <2>4 DEF Settle, TypeOK
<1>11. ASSUME NEW p \in Procs, RenewSend(p) PROVE TypeOK'
  <2>1. Job(p) \in Names /\ task[p].epoch \in Nat
    BY <1>0, <1>11 DEF RenewSend, At
  <2> QED
    BY <1>11, <2>1 DEF RenewSend, TypeOK, LeasesTypeOK
<1>12. ASSUME NEW m \in wire, RenewLand(m) \/ RenewFail(m) PROVE TypeOK'
  <2>1. m[1] \in Names /\ m[2] \in Nat
    BY DEF TypeOK
  <2>2. LeasesTypeOK'
    BY <1>12, <2>1, StoreType DEF RenewLand, RenewFail, TypeOK, LeasesTypeOK
  <2> QED
    BY <1>12, <2>2 DEF RenewLand, RenewFail, TypeOK
<1>13. ASSUME NEW r \in Runners, Crash(r) PROVE TypeOK'
  <2>1. Idle \in Task /\ Idle.pc = "idle" /\ "crash" \in Causes
    BY DEF Idle, Task, PCs, Kinds, Causes
  <2>2. /\ task' \in [Procs -> Task]
        /\ \A q \in Procs : task'[q].pc # "idle" => task'[q].job \in Names
    BY <1>13, <2>1 DEF Crash, TypeOK
  <2>3. owed' \in [Names -> BOOLEAN] /\ lost' \subseteq Causes /\ faults' \in 0..MaxFaults
    BY <1>13, <2>1, DropsType, FaultyType DEF Crash
  <2> QED
    BY <1>13, <2>2, <2>3 DEF Crash, TypeOK, LeasesTypeOK
<1>14. ASSUME NEW p \in Procs, HangUp(p) \/ StoreFails(p) PROVE TypeOK'
  <2>1. ~At(p, "idle")
    BY <1>14 DEF HangUp, StoreFails, At
  <2>2. "adrift" \in PCs /\ {"hangup", "answer"} \subseteq Causes
    BY DEF PCs, Causes
  <2>3. /\ task' \in [Procs -> Task]
        /\ \A q \in Procs : task'[q].pc # "idle" => task'[q].job \in Names
    BY <1>14, <2>1, <2>2, DoneType, GoesType DEF HangUp, StoreFails
  <2>4. owed' \in [Names -> BOOLEAN] /\ lost' \subseteq Causes /\ faults' \in 0..MaxFaults
    BY <1>14, <2>2, DropsType, FaultyType DEF HangUp, StoreFails
  <2> QED
    BY <1>14, <2>3, <2>4 DEF HangUp, StoreFails, TypeOK, LeasesTypeOK
<1>15. ASSUME NEW p \in Procs, AnswerLost(p) PROVE TypeOK'
  <2>1. Job(p) \in Names /\ task[p].epoch \in Nat
    BY <1>0, <1>15 DEF AnswerLost, At
  <2>2. LeasesTypeOK'
    BY <1>15, <2>1, StoreType DEF AnswerLost, TypeOK
  <2>3. "answer" \in Causes
    BY DEF Causes
  <2>4. /\ task' \in [Procs -> Task]
        /\ \A q \in Procs : task'[q].pc # "idle" => task'[q].job \in Names
    BY <1>15, DoneType DEF AnswerLost
  <2>5. owed' \in [Names -> BOOLEAN] /\ lost' \subseteq Causes /\ faults' \in 0..MaxFaults
    BY <1>15, <2>3, DropsType, FaultyType DEF AnswerLost
  <2> QED
    BY <1>15, <2>2, <2>4, <2>5 DEF AnswerLost, TypeOK
<1>16. CASE Tick
  <2>1. LeasesTypeOK'
    BY <1>16 DEF Tick, Elapse, TypeOK, LeasesTypeOK, Row
  <2> QED
    BY <1>16, <2>1 DEF Tick, TypeOK
<1>17. ASSUME NEW p \in Procs, LookQueued(p) PROVE TypeOK'
  <2>1. /\ task' \in [Procs -> Task]
        /\ \A q \in Procs : task'[q].pc # "idle" => task'[q].job \in Names
    BY <1>17, DoneType DEF LookQueued
  <2>2. owed' \in [Names -> BOOLEAN]
    BY <1>17 DEF LookQueued, TypeOK
  <2> QED
    BY <1>17, <2>1, <2>2 DEF LookQueued, TypeOK, LeasesTypeOK
<1>18. CASE UNCHANGED vars
  BY <1>18 DEF vars, TypeOK, LeasesTypeOK
<1> QED
  BY <1>1, <1>2, <1>3, <1>4, <1>5, <1>6, <1>7, <1>8, <1>9, <1>10, <1>11,
     <1>12, <1>13, <1>14, <1>15, <1>16, <1>17, <1>18 DEF Next, Step

\* The type invariant holds of every behaviour of the slots.
THEOREM TypeCorrect == Spec => []TypeOK
<1>1. Init => TypeOK
  BY InitType
<1>2. TypeOK /\ [Next]_vars => TypeOK'
  BY NextType
<1> QED
  BY <1>1, <1>2, PTL DEF Spec

-----------------------------------------------------------------------------
(* Who holds a slot. *)

\* A step after which nobody holds a slot that did not hold it before, no slot
\* has changed epochs, and every holder's slot is live, keeps the invariant.
LEMMA QuietStep ==
    ASSUME TypeOK, HolderInv,
           \A q \in Procs : Holding(q)' => /\ Holding(q)
                                         /\ task'[q].job = task[q].job
                                         /\ task'[q].epoch = task[q].epoch,
           \A j \in Names : rows'[j].epoch = rows[j].epoch,
           Timely => \A q \in Procs : Holding(q)' => rows'[task[q].job].left > 0
    PROVE  HolderInv'
<1>0. \A q \in Procs : Holding(q) => task[q].job \in Names
  BY DEF TypeOK, Holding
<1>1. Fenced'
  BY <1>0 DEF HolderInv, Fenced, Job
<1>2. HoldersCurrent'
  BY <1>0 DEF HolderInv, HoldersCurrent, Job, Live
<1>3. EpochsTellHoldersApart'
  BY DEF HolderInv, EpochsTellHoldersApart, Job
<1> QED
  BY <1>1, <1>2, <1>3 DEF HolderInv

\* With timely renewals, nobody else holds a slot that p holds.
LEMMA OnlyHolder ==
    ASSUME TypeOK, HolderInv, Timely,
           NEW p \in Procs, NEW q \in Procs,
           Holding(p), Holding(q), Job(p) = Job(q)
    PROVE  p = q
  BY DEF HolderInv, HoldersCurrent, EpochsTellHoldersApart

\* Init establishes the invariant: nobody holds anything.
LEMMA InitSlot == Init => HolderInv
  BY DEF Init, HolderInv, Fenced, HoldersCurrent, EpochsTellHoldersApart, Holding, Idle

\* No step of these kinds makes a holder of a process that was none.
NoNewHolder ==
    \A q \in Procs : Holding(q)' => /\ Holding(q)
                                  /\ task'[q].job = task[q].job
                                  /\ task'[q].epoch = task[q].epoch

\* A process that changes without becoming a holder leaves the other
\* holders as they were.
LEMMA BecomesNoHolder ==
    ASSUME TypeOK, NEW p \in Procs, NEW t,
           Becomes(p, t),
           t.pc \in {"count_held", "give_back", "begin", "begin_next", "running", "settle"}
               => Holding(p) /\ t.job = task[p].job /\ t.epoch = task[p].epoch
    PROVE  NoNewHolder
  BY DEF TypeOK, Becomes, Holding, NoNewHolder

\* A process that is done holds nothing.
LEMMA DoneNoHolder ==
    ASSUME TypeOK, NEW p \in Procs, Done(p)
    PROVE  NoNewHolder /\ ~Holding(p)'
  BY DEF TypeOK, Done, Becomes, Holding, NoNewHolder, Idle

\* A move to a place that holds nothing, or between places that hold, makes
\* no new holder.
LEMMA GoesNoHolder ==
    ASSUME TypeOK, NEW p \in Procs, NEW w,
           Goes(p, w),
           w \in {"count_held", "give_back", "begin", "begin_next", "running", "settle"} => Holding(p)
    PROVE  NoNewHolder
<1> DEFINE t == [task[p] EXCEPT !.pc = w]
<1>1. t.pc = w /\ t.job = task[p].job /\ t.epoch = task[p].epoch
  BY DEF TypeOK, Task
<1>2. Becomes(p, t)
  BY DEF Goes
<1> QED
  BY <1>1, <1>2, BecomesNoHolder

\* A run that begins is that of a holder.
LEMMA BeginsNoHolder ==
    ASSUME TypeOK, NEW p \in Procs, Start(p) \/ StartFails(p)
    PROVE  NoNewHolder
<1>1. Holding(p)
  BY DEF Start, StartFails, Beginning, Holding
<1>2. {"running", "settle"} \subseteq PCs
  BY DEF PCs
<1>3. PICK t \in Task : /\ Becomes(p, t)
                       /\ t.job = task[p].job
                       /\ t.epoch = task[p].epoch
  BY <1>2, BegunFields DEF Start, StartFails
<1> QED
  BY <1>1, <1>3, BecomesNoHolder

\* A retry makes no holder.
LEMMA RetryNoHolder ==
    ASSUME TypeOK, NEW p \in Procs, NEW w \in {"look", "claim"}, Retry(p, w)
    PROVE  NoNewHolder
<1> DEFINE t == [task[p] EXCEPT !.pc = w, !.tries = task[p].tries + 1]
<1>1. t.pc = w
  BY DEF TypeOK, Task
<1>2. Becomes(p, t) \/ Done(p)
  BY DEF Retry
<1> QED
  BY <1>1, <1>2, BecomesNoHolder, DoneNoHolder

\* A holder's end of a turn disturbs no other holder: with timely renewals
\* there is none of the same slot, and other slots are left alone.
LEMMA EndOfTurn ==
    ASSUME TypeOK, HolderInv, NEW p \in Procs, Holding(p), NoNewHolder,
           \/ EndAgain(Job(p), task[p].epoch)
           \/ EndReleased(Job(p), task[p].epoch) /\ ~Holding(p)'
           \/ EndLost(Job(p), task[p].epoch)
    PROVE  HolderInv'
<1>0. Job(p) \in Names
  BY DEF TypeOK, Holding, Job
<1>1. \A j \in Names : rows'[j].epoch = rows[j].epoch
  <2>1. CASE EndAgain(Job(p), task[p].epoch)
    BY <1>0, <2>1 DEF EndAgain, Holds, TypeOK, LeasesTypeOK, Row
  <2>2. CASE EndReleased(Job(p), task[p].epoch)
    BY <1>0, <2>2 DEF EndReleased, TypeOK, LeasesTypeOK, Row
  <2>3. CASE EndLost(Job(p), task[p].epoch)
    BY <2>3 DEF EndLost
  <2> QED
    BY <2>1, <2>2, <2>3
<1>2. ASSUME Timely, NEW q \in Procs, Holding(q)' PROVE rows'[task[q].job].left > 0
  <2>1. Holding(q) /\ task[q].job \in Names /\ rows[task[q].job].left > 0
    BY <1>2 DEF NoNewHolder, HolderInv, HoldersCurrent, Live, Job, TypeOK, Holding
  <2>2. CASE task[q].job = Job(p)
    <3>1. q = p
      BY <1>2, <2>1, <2>2, OnlyHolder DEF Job
    <3>2. EndAgain(Job(p), task[p].epoch) \/ EndLost(Job(p), task[p].epoch)
      BY <1>2, <3>1
    <3> QED
      BY <1>0, <2>1, <2>2, <3>2, LeaseAssumption DEF EndAgain, EndLost, TypeOK, LeasesTypeOK
  <2>3. CASE task[q].job # Job(p)
    BY <1>0, <2>1, <2>3 DEF EndAgain, EndReleased, EndLost, TypeOK, LeasesTypeOK
  <2> QED
    BY <2>2, <2>3
<1> QED
  BY <1>1, <1>2, QuietStep DEF NoNewHolder

\* A step that leaves the rows alone and makes no new holder keeps it too.
LEMMA RowsAlone ==
    ASSUME TypeOK, HolderInv, NoNewHolder, UNCHANGED rows
    PROVE  HolderInv'
<1>1. Timely => \A q \in Procs : Holding(q)' => rows'[task[q].job].left > 0
  BY DEF NoNewHolder, HolderInv, HoldersCurrent, Live, Job
<1> QED
  BY <1>1, QuietStep DEF NoNewHolder

\* A new holder gets an epoch nobody was given, of a slot nobody holds live.
LEMMA ClaimSlot ==
    ASSUME TypeOK, HolderInv, TakersAlone, NEW p \in Procs, ClaimTaken(p)
    PROVE  HolderInv'
<1> DEFINE j == task[p].job
           w == IF task[p].kind = "app" /\ ~task[p].counted THEN "count_held" ELSE "begin"
           t == [task[p] EXCEPT !.pc = w, !.epoch = rows[j].epoch + 1]
<1>0. j \in Names /\ ~Holding(p)
  BY DEF ClaimTaken, At, TypeOK, Holding
<1>1. task' = [task EXCEPT ![p] = t] /\ t.job = j /\ t.epoch = rows[j].epoch + 1
  BY DEF ClaimTaken, Becomes, TypeOK, Task, Job
<1>2. /\ rows' = [rows EXCEPT ![j] = [epoch |-> rows[j].epoch + 1, left |-> Ttl, again |-> FALSE]]
      /\ Timely => \A q \in Procs : Holding(q) => task[q].job # j
  BY DEF ClaimTaken, Take, Job, TakersAlone
<1>3. \A q \in Procs : q # p => task'[q] = task[q]
  BY <1>1 DEF TypeOK
<1>4. task'[p].job = j /\ task'[p].epoch = rows[j].epoch + 1
  BY <1>1 DEF TypeOK
<1>5. /\ rows'[j].epoch = rows[j].epoch + 1
      /\ rows'[j].left > 0
      /\ \A k \in Names : k # j => rows'[k] = rows[k]
  BY <1>0, <1>2, LeaseAssumption DEF TypeOK, LeasesTypeOK, Row
<1>6. rows[j].epoch \in Nat /\ \A q \in Procs : task[q].epoch \in Nat
  BY <1>0 DEF TypeOK, LeasesTypeOK, Row, Task
<1>7. \A q \in Procs : Holding(q) /\ q # p => task[q].job \in Names /\ task[q].epoch <= rows[task[q].job].epoch
  BY DEF HolderInv, Fenced, Job, TypeOK, Holding
<1>8. Fenced'
  <2> SUFFICES ASSUME NEW q \in Procs, Holding(q)' PROVE task'[q].epoch <= rows'[task'[q].job].epoch
    BY DEF Fenced, Job
  <2>1. CASE q = p
    BY <2>1, <1>4, <1>5, <1>6
  <2>2. CASE q # p
    <3>1. Holding(q) /\ task'[q] = task[q]
      BY <2>2, <1>3 DEF Holding
    <3> QED
      BY <2>2, <3>1, <1>5, <1>6, <1>7
  <2> QED
    BY <2>1, <2>2
<1>9. HoldersCurrent'
  <2> SUFFICES ASSUME Timely, NEW q \in Procs, Holding(q)'
               PROVE task'[q].epoch = rows'[task'[q].job].epoch /\ rows'[task'[q].job].left > 0
    BY DEF HoldersCurrent, Job, Live
  <2>1. CASE q = p
    BY <2>1, <1>4, <1>5
  <2>2. CASE q # p
    <3>1. Holding(q) /\ task'[q] = task[q]
      BY <2>2, <1>3 DEF Holding
    <3>2. task[q].epoch = rows[task[q].job].epoch /\ rows[task[q].job].left > 0
      BY <3>1 DEF HolderInv, HoldersCurrent, Job, Live
    <3> QED
      BY <2>2, <3>1, <3>2, <1>2, <1>5, <1>7
  <2> QED
    BY <2>1, <2>2
<1>10. EpochsTellHoldersApart'
  <2> SUFFICES ASSUME NEW q \in Procs, NEW u \in Procs, Holding(q)', Holding(u)',
                      task'[q].job = task'[u].job, task'[q].epoch = task'[u].epoch
               PROVE q = u
    BY DEF EpochsTellHoldersApart, Job
  <2>1. \A v \in Procs : Holding(v)' /\ v # p => Holding(v) /\ task'[v] = task[v]
    BY <1>3 DEF Holding
  <2>2. \A v \in Procs : Holding(v)' /\ v # p /\ task'[v].job = j => task'[v].epoch < rows[j].epoch + 1
    BY <2>1, <1>6, <1>7
  <2>3. CASE q # p /\ u # p
    BY <2>1, <2>3 DEF HolderInv, EpochsTellHoldersApart, Job
  <2>4. CASE q = p /\ u # p
    BY <2>2, <2>4, <1>4, <1>6
  <2>5. CASE q # p /\ u = p
    BY <2>2, <2>5, <1>4, <1>6
  <2> QED
    BY <2>3, <2>4, <2>5
<1> QED
  BY <1>8, <1>9, <1>10 DEF HolderInv

\* A slot that is taken for nobody moves on past everyone.
LEMMA ClaimForNobody ==
    ASSUME TypeOK, HolderInv, TakersAlone, NoNewHolder,
           NEW n \in Names, Take(n), NEW p \in Procs, At(p, "take"), Job(p) = n
    PROVE  HolderInv'
<1>1. /\ rows'[n].epoch = rows[n].epoch + 1
      /\ Timely => \A q \in Procs : Holding(q) => task[q].job # n
      /\ \A k \in Names : k # n => rows'[k] = rows[k]
  BY LeaseAssumption DEF Take, TypeOK, LeasesTypeOK, Row, TakersAlone, Job
<1>2. \A q \in Procs : Holding(q)' =>
          /\ Holding(q)
          /\ task'[q].job = task[q].job
          /\ task'[q].epoch = task[q].epoch
          /\ task[q].job \in Names
          /\ task[q].epoch \in Nat
  BY DEF NoNewHolder, TypeOK, Task, Holding
<1>3. \A k \in Names : rows[k].epoch \in Nat
  BY DEF TypeOK, LeasesTypeOK, Row
<1>4. Fenced'
  BY <1>1, <1>2, <1>3 DEF HolderInv, Fenced, Job
<1>5. HoldersCurrent'
  BY <1>1, <1>2, <1>3 DEF HolderInv, HoldersCurrent, Job, Live
<1>6. EpochsTellHoldersApart'
  BY <1>2 DEF HolderInv, EpochsTellHoldersApart, Job
<1> QED
  BY <1>4, <1>5, <1>6 DEF HolderInv

\* Asking a holder again, or renewing, leaves epochs alone and no slot dead.
LEMMA AskOrRenew ==
    ASSUME TypeOK, HolderInv, NoNewHolder, NEW n \in Names, NEW e,
           AskAgain(n) \/ Renew(n, e)
    PROVE  HolderInv'
<1>1. \A j \in Names : /\ rows'[j].epoch = rows[j].epoch
                       /\ rows[j].left > 0 => rows'[j].left > 0
  <2>1. CASE AskAgain(n)
    BY <2>1 DEF AskAgain, TypeOK, LeasesTypeOK, Row
  <2>2. CASE Renew(n, e) /\ Holds(n, e)
    BY <2>2, LeaseAssumption DEF Renew, TypeOK, LeasesTypeOK, Row
  <2>3. CASE Renew(n, e) /\ ~Holds(n, e)
    BY <2>3 DEF Renew
  <2> QED
    BY <2>1, <2>2, <2>3
<1>2. Timely => \A q \in Procs : Holding(q)' => rows'[task[q].job].left > 0
  BY <1>1 DEF NoNewHolder, HolderInv, HoldersCurrent, Live, Job, TypeOK, Holding
<1> QED
  BY <1>1, <1>2, QuietStep DEF NoNewHolder

\* Every step keeps the invariant on holders.
LEMMA NextSlot == TypeOK /\ HolderInv /\ TakerInv /\ [Next]_vars => HolderInv'
<1> SUFFICES ASSUME TypeOK, HolderInv, TakersAlone, [Next]_vars PROVE HolderInv'
  BY DEF TakerInv
<1>0. \A p \in Procs : ~At(p, "idle") => Job(p) \in Names
  BY DEF TypeOK, Job, At
<1>1. ASSUME NEW p \in Procs, NEW j \in Names,
             RunJob(p, j) \/ StartFromApp(p, j) \/ FireTurn(p, j) \/ TakeOver(p, j)
      PROVE  HolderInv'
  <2>1. \E k \in Kinds, w \in {"claim", "look"} : Comes(p, j, k, w)
    BY <1>1 DEF RunJob, StartFromApp, FireTurn, TakeOver, Kinds
  <2>2. PICK k \in Kinds, w \in {"claim", "look"} : Comes(p, j, k, w)
    BY <2>1
  <2>3. [Idle EXCEPT !.pc = w, !.kind = k, !.job = j].pc = w
    BY DEF Idle
  <2>4. NoNewHolder /\ UNCHANGED rows
    BY <2>2, <2>3, BecomesNoHolder DEF Comes
  <2> QED
    BY <2>4, RowsAlone
<1>2. ASSUME NEW p \in Procs, ClaimTaken(p) PROVE HolderInv'
  BY <1>2, ClaimSlot
<1>3. ASSUME NEW p \in Procs,
             \/ ClaimLook(p) \/ ClaimRefused(p)
             \/ Look(p) \/ LookQueued(p) \/ AskMissed(p)
      PROVE  HolderInv'
  <2>1. UNCHANGED rows
    BY <1>3 DEF ClaimLook, ClaimRefused, Look, LookQueued, AskMissed
  <2>2. \/ Done(p)
        \/ \E w \in {"look", "claim"} : Retry(p, w)
        \/ \E w \in {"take", "ask", "count", "claim"} : Goes(p, w)
    BY <1>3 DEF ClaimLook, ClaimRefused, Look, LookQueued, AskMissed
  <2>3. NoNewHolder
    BY <2>2, DoneNoHolder, RetryNoHolder, GoesNoHolder
  <2> QED
    BY <2>1, <2>3, RowsAlone
<1>4. ASSUME NEW p \in Procs, CountAllowed(p) PROVE HolderInv'
  <2> DEFINE w == IF task[p].pc = "count" THEN "ask" ELSE "begin"
             t == [task[p] EXCEPT !.pc = w, !.counted = TRUE]
  <2>1. t.pc = w /\ t.job = task[p].job /\ t.epoch = task[p].epoch
    BY DEF TypeOK, Task
  <2>2. Becomes(p, t) /\ (w = "ask" \/ Holding(p))
    BY <1>4 DEF CountAllowed, Holding
  <2>3. NoNewHolder
    BY <2>1, <2>2, BecomesNoHolder
  <2> QED
    BY <1>4, <2>3, RowsAlone DEF CountAllowed
<1>5. ASSUME NEW p \in Procs,
             CountRefused(p) \/ Finish(p) \/ Start(p) \/ StartFails(p)
      PROVE  HolderInv'
  <2>1. UNCHANGED rows
    BY <1>5 DEF CountRefused, Finish, Start, StartFails
  <2>2. CASE CountRefused(p) \/ Finish(p)
    <3>1. Done(p) \/ \E w \in {"give_back", "settle"} : Goes(p, w) /\ Holding(p)
      BY <2>2 DEF CountRefused, Finish, At, Holding
    <3>2. NoNewHolder
      BY <3>1, DoneNoHolder, GoesNoHolder
    <3> QED
      BY <2>1, <3>2, RowsAlone
  <2>3. CASE Start(p) \/ StartFails(p)
    BY <2>1, <2>3, BeginsNoHolder, RowsAlone
  <2> QED
    BY <1>5, <2>2, <2>3
<1>6. ASSUME NEW p \in Procs, AskQueued(p) PROVE HolderInv'
  <2>1. Job(p) \in Names
    BY <1>0, <1>6 DEF AskQueued, At
  <2>2. NoNewHolder
    BY <1>6, DoneNoHolder DEF AskQueued
  <2> QED
    BY <1>6, <2>1, <2>2, AskOrRenew DEF AskQueued
<1>7. ASSUME NEW p \in Procs, GiveBack(p) PROVE HolderInv'
  <2>1. Holding(p)
    BY <1>7 DEF GiveBack, At, Holding
  <2>2. CASE EndAgain(Job(p), task[p].epoch) /\ Goes(p, "begin")
    <3>1. NoNewHolder
      BY <2>1, <2>2, GoesNoHolder
    <3> QED
      BY <2>1, <2>2, <3>1, EndOfTurn
  <2>3. CASE (EndReleased(Job(p), task[p].epoch) \/ EndLost(Job(p), task[p].epoch)) /\ Done(p)
    <3>1. NoNewHolder /\ ~Holding(p)'
      BY <2>3, DoneNoHolder
    <3> QED
      BY <2>1, <2>3, <3>1, EndOfTurn
  <2> QED
    BY <1>7, <2>2, <2>3 DEF GiveBack
<1>8. ASSUME NEW p \in Procs, Settle(p) PROVE HolderInv'
  <2>1. Holding(p)
    BY <1>8 DEF Settle, At, Holding
  <2>2. CASE EndAgain(Job(p), task[p].epoch) /\ Goes(p, "begin_next")
    <3>1. NoNewHolder
      BY <2>1, <2>2, GoesNoHolder
    <3> QED
      BY <2>1, <2>2, <3>1, EndOfTurn
  <2>3. CASE (EndReleased(Job(p), task[p].epoch) \/ EndLost(Job(p), task[p].epoch)) /\ Done(p)
    <3>1. NoNewHolder /\ ~Holding(p)'
      BY <2>3, DoneNoHolder
    <3> QED
      BY <2>1, <2>3, <3>1, EndOfTurn
  <2> QED
    BY <1>8, <2>2, <2>3 DEF Settle
<1>9. ASSUME NEW p \in Procs, RenewSend(p) PROVE HolderInv'
  <2>1. NoNewHolder /\ UNCHANGED rows
    BY <1>9 DEF RenewSend, NoNewHolder, Holding
  <2> QED
    BY <2>1, RowsAlone
<1>10. ASSUME NEW m \in wire, RenewLand(m) \/ RenewFail(m) PROVE HolderInv'
  <2>1. NoNewHolder /\ m[1] \in Names
    BY <1>10 DEF RenewLand, RenewFail, NoNewHolder, Holding, TypeOK
  <2>2. CASE RenewLand(m)
    BY <2>1, <2>2, AskOrRenew DEF RenewLand
  <2>3. CASE RenewFail(m)
    BY <2>1, <2>3, RowsAlone DEF RenewFail
  <2> QED
    BY <1>10, <2>2, <2>3
<1>11. ASSUME NEW r \in Runners, Crash(r) PROVE HolderInv'
  <2>1. NoNewHolder
    BY <1>11 DEF Crash, NoNewHolder, Holding, Idle, TypeOK
  <2> QED
    BY <1>11, <2>1, RowsAlone DEF Crash
<1>12. ASSUME NEW p \in Procs, HangUp(p) \/ StoreFails(p) PROVE HolderInv'
  <2>1. UNCHANGED rows /\ (Done(p) \/ Goes(p, "adrift"))
    BY <1>12 DEF HangUp, StoreFails
  <2>2. NoNewHolder
    BY <2>1, DoneNoHolder, GoesNoHolder
  <2> QED
    BY <2>1, <2>2, RowsAlone
<1>13. ASSUME NEW p \in Procs, AnswerLost(p) PROVE HolderInv'
  <2>1. Job(p) \in Names
    BY <1>0, <1>13 DEF AnswerLost, At
  <2>2. NoNewHolder /\ ~Holding(p)'
    BY <1>13, DoneNoHolder DEF AnswerLost
  <2>3. CASE At(p, "take") /\ Take(Job(p))
    BY <2>1, <2>2, <2>3, ClaimForNobody
  <2>4. CASE AskAgain(Job(p))
    BY <2>1, <2>2, <2>4, AskOrRenew
  <2>5. CASE /\ task[p].pc \in {"give_back", "settle"}
             /\ EndAgain(Job(p), task[p].epoch) \/ EndReleased(Job(p), task[p].epoch)
    <3>1. Holding(p)
      BY <2>5 DEF Holding
    <3> QED
      BY <2>2, <2>5, <3>1, EndOfTurn
  <2> QED
    BY <1>13, <2>3, <2>4, <2>5 DEF AnswerLost
<1>14. CASE Tick
  <2>1. NoNewHolder
    BY <1>14 DEF Tick, NoNewHolder, Holding
  <2>2. \A j \in Names : /\ rows'[j].epoch = rows[j].epoch
                         /\ rows[j].left > 1 => rows'[j].left > 0
    BY <1>14, LeaseAssumption DEF Tick, Elapse, TypeOK, LeasesTypeOK, Row
  <2>3. Timely => \A q \in Procs : Holding(q)' => rows'[task[q].job].left > 0
    BY <1>14, <2>1, <2>2 DEF Tick, NoNewHolder, Job, TypeOK, Holding
  <2> QED
    BY <2>1, <2>2, <2>3, QuietStep DEF NoNewHolder
<1>15. CASE UNCHANGED vars
  <2>1. NoNewHolder /\ UNCHANGED rows
    BY <1>15 DEF vars, NoNewHolder, Holding
  <2> QED
    BY <2>1, RowsAlone
<1> QED
  BY <1>1, <1>2, <1>3, <1>4, <1>5, <1>6, <1>7, <1>8, <1>9, <1>10, <1>11,
     <1>12, <1>13, <1>14, <1>15 DEF Next, Step

\* Only a claim makes a holder.
LEMMA OnlyClaimsHold ==
    ASSUME TypeOK, [Next]_vars
    PROVE  NoNewHolder \/ \E p \in Procs : ClaimTaken(p)
<1>1. ASSUME NEW p \in Procs, NEW j \in Names,
             RunJob(p, j) \/ StartFromApp(p, j) \/ FireTurn(p, j) \/ TakeOver(p, j)
      PROVE  NoNewHolder
  <2>1. PICK k \in Kinds, w \in {"claim", "look"} : Comes(p, j, k, w)
    BY <1>1 DEF RunJob, StartFromApp, FireTurn, TakeOver, Kinds
  <2>2. [Idle EXCEPT !.pc = w, !.kind = k, !.job = j].pc = w
    BY DEF Idle
  <2> QED
    BY <2>1, <2>2, BecomesNoHolder DEF Comes
<1>2. ASSUME NEW p \in Procs,
             \/ ClaimLook(p) \/ ClaimRefused(p)
             \/ Look(p) \/ LookQueued(p) \/ AskMissed(p) \/ AskQueued(p)
      PROVE  NoNewHolder
  <2>1. \/ Done(p)
        \/ \E w \in {"look", "claim"} : Retry(p, w)
        \/ \E w \in {"take", "ask", "count", "claim"} : Goes(p, w)
    BY <1>2 DEF ClaimLook, ClaimRefused, Look, LookQueued, AskMissed, AskQueued
  <2> QED
    BY <2>1, DoneNoHolder, RetryNoHolder, GoesNoHolder
<1>3. ASSUME NEW p \in Procs, CountAllowed(p) PROVE NoNewHolder
  <2> DEFINE w == IF task[p].pc = "count" THEN "ask" ELSE "begin"
             t == [task[p] EXCEPT !.pc = w, !.counted = TRUE]
  <2>1. t.pc = w /\ t.job = task[p].job /\ t.epoch = task[p].epoch
    BY DEF TypeOK, Task
  <2>2. Becomes(p, t) /\ (w = "ask" \/ Holding(p))
    BY <1>3 DEF CountAllowed, Holding
  <2> QED
    BY <2>1, <2>2, BecomesNoHolder
<1>4. ASSUME NEW p \in Procs, Start(p) \/ StartFails(p) PROVE NoNewHolder
  BY <1>4, BeginsNoHolder
<1>5. ASSUME NEW p \in Procs,
             \/ CountRefused(p) \/ GiveBack(p) \/ Finish(p) \/ Settle(p)
             \/ HangUp(p) \/ StoreFails(p) \/ AnswerLost(p)
      PROVE  NoNewHolder
  <2>1. Done(p) \/ \E w \in {"give_back", "settle", "begin", "begin_next", "adrift"} :
                        Goes(p, w) /\ Holding(p)
    BY <1>5 DEF CountRefused, GiveBack, Finish, Settle, HangUp, StoreFails,
                AnswerLost, At, Holding
  <2> QED
    BY <2>1, DoneNoHolder, GoesNoHolder
<1>6. ASSUME UNCHANGED task PROVE NoNewHolder
  BY <1>6 DEF NoNewHolder, Holding
<1>7. ASSUME NEW r \in Runners, Crash(r) PROVE NoNewHolder
  BY <1>7 DEF Crash, NoNewHolder, Holding, Idle, TypeOK
<1> QED
  BY <1>1, <1>2, <1>3, <1>4, <1>5, <1>6, <1>7
  DEF Next, Step, RenewSend, RenewLand, RenewFail, Tick, vars

\* No process is about to take a slot that was not before.
NoNewTaker ==
    \A q \in Procs : At(q, "take")' => At(q, "take") /\ task'[q].job = task[q].job

\* A process that changes without coming to take a slot leaves the takers be.
LEMMA BecomesNoTaker ==
    ASSUME TypeOK, NEW p \in Procs, NEW t, Becomes(p, t), t.pc # "take"
    PROVE  NoNewTaker
  BY DEF TypeOK, Becomes, At, NoNewTaker

\* Nor does one that is done, moves elsewhere or goes round again.
LEMMA MovesNoTaker ==
    ASSUME TypeOK, NEW p \in Procs,
           \/ Done(p)
           \/ \E w \in PCs \ {"take"} : Goes(p, w) \/ Retry(p, w)
    PROVE  NoNewTaker
<1>1. Idle.pc # "take"
  BY DEF Idle
<1>2. \A w \in PCs \ {"take"} : [task[p] EXCEPT !.pc = w].pc # "take"
  BY DEF TypeOK, Task
<1>3. \A w \in PCs \ {"take"} : [task[p] EXCEPT !.pc = w, !.tries = task[p].tries + 1].pc # "take"
  BY DEF TypeOK, Task
<1> QED
  BY <1>1, <1>2, <1>3, BecomesNoTaker DEF Done, Goes, Retry

\* Only a look at the slot that finds it free makes a taker.
LEMMA OnlyLooksTake ==
    ASSUME TypeOK, [Next]_vars
    PROVE  NoNewTaker \/ \E p \in Procs : ClaimLook(p)
<1>1. ASSUME NEW p \in Procs, NEW j \in Names,
             RunJob(p, j) \/ StartFromApp(p, j) \/ FireTurn(p, j) \/ TakeOver(p, j)
      PROVE  NoNewTaker
  <2>1. PICK k \in Kinds, w \in {"claim", "look"} : Comes(p, j, k, w)
    BY <1>1 DEF RunJob, StartFromApp, FireTurn, TakeOver, Kinds
  <2>2. [Idle EXCEPT !.pc = w, !.kind = k, !.job = j].pc = w
    BY DEF Idle
  <2> QED
    BY <2>1, <2>2, BecomesNoTaker DEF Comes
<1>2. ASSUME NEW p \in Procs, ClaimTaken(p) PROVE NoNewTaker
  <2> DEFINE w == IF task[p].kind = "app" /\ ~task[p].counted THEN "count_held" ELSE "begin"
             t == [task[p] EXCEPT !.pc = w, !.epoch = rows[Job(p)].epoch + 1]
  <2>1. t.pc # "take"
    BY DEF TypeOK, Task
  <2> QED
    BY <1>2, <2>1, BecomesNoTaker DEF ClaimTaken
<1>3. ASSUME NEW p \in Procs, CountAllowed(p) PROVE NoNewTaker
  <2> DEFINE w == IF task[p].pc = "count" THEN "ask" ELSE "begin"
             t == [task[p] EXCEPT !.pc = w, !.counted = TRUE]
  <2>1. t.pc # "take"
    BY DEF TypeOK, Task
  <2>2. Becomes(p, t)
    BY <1>3 DEF CountAllowed
  <2> HIDE DEF t
  <2> QED
    BY <2>1, <2>2, BecomesNoTaker
<1>4. ASSUME NEW p \in Procs, Start(p) \/ StartFails(p) PROVE NoNewTaker
  <2>1. {"running", "settle"} \subseteq PCs
    BY DEF PCs
  <2>2. PICK t \in Task : Becomes(p, t) /\ t.pc \in {"running", "settle"}
    BY <1>4, <2>1, BegunFields DEF Start, StartFails
  <2> QED
    BY <2>2, BecomesNoTaker
<1>5. ASSUME NEW p \in Procs,
             \/ ClaimRefused(p) \/ Look(p) \/ LookQueued(p) \/ AskMissed(p) \/ AskQueued(p)
             \/ CountRefused(p) \/ GiveBack(p) \/ Finish(p) \/ Settle(p)
             \/ HangUp(p) \/ StoreFails(p) \/ AnswerLost(p)
      PROVE  NoNewTaker
  <2> DEFINE Elsewhere == {"look", "claim", "ask", "count", "give_back", "settle",
                           "begin", "begin_next", "adrift"}
  <2>1. Elsewhere \subseteq PCs \ {"take"}
    BY DEF PCs
  <2>2. Done(p) \/ \E w \in Elsewhere : Goes(p, w) \/ Retry(p, w)
    BY <1>5 DEF ClaimRefused, Look, LookQueued, AskMissed, AskQueued, CountRefused,
                GiveBack, Finish, Settle, HangUp, StoreFails, AnswerLost
  <2> QED
    BY <2>1, <2>2, MovesNoTaker
<1>6. ASSUME UNCHANGED task PROVE NoNewTaker
  BY <1>6 DEF NoNewTaker, At
<1>7. ASSUME NEW r \in Runners, Crash(r) PROVE NoNewTaker
  BY <1>7 DEF Crash, NoNewTaker, At, Idle, TypeOK
<1> QED
  BY <1>1, <1>2, <1>3, <1>4, <1>5, <1>6, <1>7
  DEF Next, Step, RenewSend, RenewLand, RenewFail, Tick, vars

\* A look at the slot makes no holder, and was let in by the app's lock.
LEMMA LookTakes ==
    ASSUME TypeOK, NEW p \in Procs, ClaimLook(p)
    PROVE  /\ NoNewHolder
           /\ Job(p) \in Names
           /\ Job(p)' = Job(p)
           /\ \A q \in Procs : q # p => task'[q] = task[q]
           /\ ~Locked(GroupOf[Job(p)]) /\ ~Live(Job(p)) /\ ~Full(Job(p))
<1>1. NoNewHolder
  BY GoesNoHolder DEF ClaimLook
<1> QED
  BY <1>1 DEF ClaimLook, Takeable, Goes, Becomes, TypeOK, Task, Job, At

\* The taking of a slot: only the process's own place changes.
LEMMA TakenTakes ==
    ASSUME TypeOK, NEW p \in Procs, ClaimTaken(p)
    PROVE  /\ At(p, "take") /\ ~At(p, "take")'
           /\ Job(p) \in Names
           /\ Job(p)' = Job(p)
           /\ \A q \in Procs : q # p => task'[q] = task[q]
<1> DEFINE w == IF task[p].kind = "app" /\ ~task[p].counted THEN "count_held" ELSE "begin"
           t == [task[p] EXCEPT !.pc = w, !.epoch = rows[Job(p)].epoch + 1]
<1>1. t.pc = w /\ t.job = task[p].job /\ w # "take"
  BY DEF TypeOK, Task
<1>2. task' = [task EXCEPT ![p] = t] /\ At(p, "take")
  BY DEF ClaimTaken, Becomes
<1> QED
  BY <1>1, <1>2 DEF TypeOK, Job, At

\* Every step keeps the invariant on takers: the app's lock lets one process in,
\* and only a process that takes a slot becomes a holder of it.
LEMMA NextTaker == TypeOK /\ HolderInv /\ TakerInv /\ [Next]_vars => TakerInv'
<1> SUFFICES ASSUME TypeOK, HolderInv, OneTaker, TakersAlone, [Next]_vars
             PROVE  OneTaker' /\ TakersAlone'
  BY DEF TakerInv
<1>1. CASE NoNewHolder /\ NoNewTaker
  BY <1>1 DEF NoNewHolder, NoNewTaker, OneTaker, TakersAlone, Job
<1>2. ASSUME NEW p \in Procs, ClaimLook(p) PROVE OneTaker' /\ TakersAlone'
  <2>1. /\ NoNewHolder
        /\ Job(p) \in Names
        /\ Job(p)' = Job(p)
        /\ \A q \in Procs : q # p => task'[q] = task[q]
        /\ ~Locked(GroupOf[Job(p)]) /\ ~Live(Job(p))
    BY <1>2, LookTakes
  <2>2. OneTaker'
    BY <2>1 DEF OneTaker, Locked, Job, At
  <2>3. Timely => \A q \in Procs : Holding(q) => Job(q) # Job(p)
    BY <2>1 DEF HolderInv, HoldersCurrent
  <2>4. TakersAlone'
    BY <2>1, <2>3 DEF TakersAlone, NoNewHolder, Job, At
  <2> QED
    BY <2>2, <2>4
<1>3. ASSUME NEW p \in Procs, ClaimTaken(p), NoNewTaker PROVE OneTaker' /\ TakersAlone'
  <2>1. /\ At(p, "take") /\ ~At(p, "take")'
        /\ Job(p)' = Job(p)
        /\ \A q \in Procs : q # p => task'[q] = task[q]
    BY <1>3, TakenTakes
  <2>2. OneTaker'
    BY <1>3 DEF NoNewTaker, OneTaker, Job
  <2>3. ASSUME Timely, NEW q \in Procs, NEW u \in Procs, At(q, "take")', Holding(u)'
        PROVE  Job(q)' # Job(u)'
    <3>1. q # p /\ At(q, "take") /\ Job(q)' = Job(q)
      BY <1>3, <2>1, <2>3 DEF NoNewTaker, Job
    <3>2. CASE u = p
      BY <2>1, <3>1, <3>2 DEF OneTaker
    <3>3. CASE u # p
      BY <2>1, <2>3, <3>1, <3>3 DEF TakersAlone, Holding, Job
    <3> QED
      BY <3>2, <3>3
  <2> QED
    BY <2>2, <2>3 DEF TakersAlone
<1>4. ASSUME NEW p \in Procs, ClaimTaken(p), NEW q \in Procs, ClaimLook(q) PROVE FALSE
  <2>1. At(p, "take") /\ ~At(p, "take")'
    BY <1>4, TakenTakes
  <2>2. At(q, "claim") /\ \A u \in Procs : u # q => task'[u] = task[u]
    BY <1>4, LookTakes DEF ClaimLook
  <2> QED
    BY <2>1, <2>2 DEF At
<1> QED
  BY <1>1, <1>2, <1>3, <1>4, OnlyClaimsHold, OnlyLooksTake

\* Init establishes it: nobody is about to take anything.
LEMMA InitTaker == Init => TakerInv
  BY DEF Init, TakerInv, OneTaker, TakersAlone, At, Idle

\* The fencing token: whatever the delays, no two processes that believe they
\* hold a job's slot share an epoch.
THEOREM HoldersApart == Spec => []EpochsTellHoldersApart
<1>1. Init => TypeOK /\ HolderInv /\ TakerInv
  BY InitType, InitSlot, InitTaker
<1>2. TypeOK /\ HolderInv /\ TakerInv /\ [Next]_vars => TypeOK' /\ HolderInv' /\ TakerInv'
  BY NextType, NextSlot, NextTaker
<1>3. HolderInv => EpochsTellHoldersApart
  BY DEF HolderInv
<1> QED
  BY <1>1, <1>2, <1>3, PTL DEF Spec

\* One run per job at a time: with timely renewals, no two processes hold one
\* job's slot, on whichever runners and through whatever faults.
THEOREM OneHolder == Timely => (Spec => []OneHolderPerJob)
<1> SUFFICES ASSUME Timely PROVE Spec => []OneHolderPerJob
  OBVIOUS
<1>1. Init => TypeOK /\ HolderInv /\ TakerInv
  BY InitType, InitSlot, InitTaker
<1>2. TypeOK /\ HolderInv /\ TakerInv /\ [Next]_vars => TypeOK' /\ HolderInv' /\ TakerInv'
  BY NextType, NextSlot, NextTaker
<1>3. TypeOK /\ HolderInv /\ TakerInv => OneHolderPerJob
  BY OnlyHolder DEF OneHolderPerJob
<1> QED
  BY <1>1, <1>2, <1>3, PTL DEF Spec

-----------------------------------------------------------------------------
(* Promised runs. *)

\* A step that drops promised runs promises only what something keeps.
LEMMA DropsKept ==
    ASSUME NEW why, Drops(why)
    PROVE  QueuedRunIsKept'
  BY DEF Drops, QueuedRunIsKept

\* A step that promises nothing new, leaves requests standing and lets nobody
\* stop spending keeps what is promised.
LEMMA StillKept ==
    ASSUME QueuedRunIsKept,
           \A j \in Names : owed'[j] => owed[j],
           \A j \in Names : rows[j].again => rows'[j].again,
           \A q \in Procs : Spending(q) => Spending(q)' /\ task'[q].job = task[q].job
    PROVE  QueuedRunIsKept'
  BY DEF QueuedRunIsKept, Kept, Job

\* A process that changes state without leaving or entering the holding of a
\* request.
LEMMA OtherSpenders ==
    ASSUME TypeOK, NEW p \in Procs, NEW t, Becomes(p, t)
    PROVE  \A q \in Procs : q # p /\ Spending(q) => Spending(q)' /\ task'[q].job = task[q].job
  BY DEF TypeOK, Becomes, Spending

\* Being done is a change of the one process.
LEMMA DoneBecomes ==
    ASSUME NEW p \in Procs, Done(p) \/ (\E w : Goes(p, w) \/ Retry(p, w))
    PROVE  \E t : Becomes(p, t)
  BY DEF Done, Goes, Retry

\* Every step keeps what was promised.
LEMMA NextKept == TypeOK /\ QueuedRunIsKept /\ [Next]_vars => QueuedRunIsKept'
<1> SUFFICES ASSUME TypeOK, QueuedRunIsKept, [Next]_vars PROVE QueuedRunIsKept'
  OBVIOUS
<1>0. \A p \in Procs : ~At(p, "idle") => Job(p) \in Names
  BY DEF TypeOK, Job, At
<1>1. ASSUME NEW p \in Procs, NEW j \in Names,
             RunJob(p, j) \/ StartFromApp(p, j) \/ FireTurn(p, j) \/ TakeOver(p, j)
      PROVE  QueuedRunIsKept'
  <2>1. \E k, w : Comes(p, j, k, w)
    BY <1>1 DEF RunJob, StartFromApp, FireTurn, TakeOver
  <2>2. UNCHANGED <<rows, owed>> /\ ~Spending(p) /\ \E t : Becomes(p, t)
    BY <2>1 DEF Comes, At, Spending
  <2> QED
    BY <2>2, OtherSpenders, StillKept
<1>2. ASSUME NEW p \in Procs, ClaimTaken(p) PROVE QueuedRunIsKept'
  <2> DEFINE w == IF task[p].kind = "app" /\ ~task[p].counted THEN "count_held" ELSE "begin"
             t == [task[p] EXCEPT !.pc = w, !.epoch = rows[Job(p)].epoch + 1]
  <2>1. t.pc = w /\ t.job = Job(p)
    BY DEF TypeOK, Task, Job
  <2>2. Becomes(p, t)
    BY <1>2 DEF ClaimTaken
  <2>3. task'[p] = t
    BY <2>2 DEF Becomes, TypeOK
  <2>4. Spending(p)' /\ Job(p)' = Job(p) /\ ~Spending(p)
    BY <1>2, <2>1, <2>3 DEF Spending, Job, ClaimTaken, At
  <2>5. \A j \in Names : j # Job(p) => rows'[j] = rows[j]
    BY <1>2 DEF ClaimTaken, Take, TypeOK, LeasesTypeOK
  <2>6. owed' = owed
    BY <1>2 DEF ClaimTaken
  <2> QED
    BY <2>2, <2>4, <2>5, <2>6, OtherSpenders DEF QueuedRunIsKept, Kept, Job
<1>3. ASSUME NEW p \in Procs,
             \/ ClaimLook(p) \/ ClaimRefused(p)
             \/ Look(p) \/ AskMissed(p) \/ Finish(p)
      PROVE  QueuedRunIsKept'
  <2>1. UNCHANGED <<rows, owed>> /\ ~Spending(p)
    BY <1>3 DEF ClaimLook, ClaimRefused, Look, AskMissed, Finish, At, Spending
  <2>2. Done(p) \/ (\E w : Goes(p, w) \/ Retry(p, w))
    BY <1>3 DEF ClaimLook, ClaimRefused, Look, AskMissed, Finish
  <2> QED
    BY <2>1, <2>2, DoneBecomes, OtherSpenders, StillKept
<1>4. ASSUME NEW p \in Procs, CountAllowed(p) \/ CountRefused(p) PROVE QueuedRunIsKept'
  <2>1. UNCHANGED <<rows, owed>>
    BY <1>4 DEF CountAllowed, CountRefused
  <2>2. PICK t : Becomes(p, t)
    BY <1>4, DoneBecomes DEF CountAllowed, CountRefused
  <2>3. Spending(p) => Spending(p)' /\ task'[p].job = task[p].job
    BY <1>4 DEF CountAllowed, CountRefused, Becomes, Goes, At, Spending, TypeOK, Task
  <2> QED
    BY <2>1, <2>2, <2>3, OtherSpenders, StillKept
<1>5. ASSUME NEW p \in Procs, AskQueued(p) PROVE QueuedRunIsKept'
  <2>1. ~Spending(p) /\ \E t : Becomes(p, t)
    BY <1>5, DoneBecomes DEF AskQueued, At, Spending
  <2>2. \A q \in Procs : Spending(q) => Spending(q)' /\ task'[q].job = task[q].job
    BY <2>1, OtherSpenders
  <2>3. Job(p) \in Names /\ rows'[Job(p)].again
    BY <1>0, <1>5 DEF AskQueued, AskAgain, At, TypeOK, LeasesTypeOK, Row
  <2>4. \A j \in Names : j # Job(p) => rows'[j] = rows[j] /\ owed'[j] = owed[j]
    BY <1>5 DEF AskQueued, AskAgain, TypeOK, LeasesTypeOK
  <2> QED
    BY <2>2, <2>3, <2>4 DEF QueuedRunIsKept, Kept, Job
<1>6. ASSUME NEW p \in Procs, Start(p) \/ StartFails(p) PROVE QueuedRunIsKept'
  <2>1. UNCHANGED rows /\ \E t : Becomes(p, t)
    BY <1>6 DEF Start, StartFails, Begun
  <2>2. Job(p) \in Names /\ owed' = [owed EXCEPT ![Job(p)] = @ /\ rows[Job(p)].again]
    BY <1>0, <1>6 DEF Start, StartFails, Beginning, At
  <2>3. owed'[Job(p)] => rows'[Job(p)].again
    BY <2>1, <2>2 DEF TypeOK
  <2>4. \A j \in Names : j # Job(p) => owed'[j] = owed[j]
    BY <2>2 DEF TypeOK
  <2>5. \A q \in Procs : q # p /\ Spending(q) => Spending(q)' /\ task'[q].job = task[q].job
    BY <2>1, OtherSpenders
  <2> QED
    BY <2>1, <2>3, <2>4, <2>5 DEF QueuedRunIsKept, Kept, Job
<1>7. ASSUME NEW p \in Procs, Settle(p) PROVE QueuedRunIsKept'
  <2>1. ~Spending(p) /\ owed' = owed
    BY <1>7 DEF Settle, At, Spending
  <2>2. CASE EndAgain(Job(p), task[p].epoch) /\ Goes(p, "begin_next")
    <3>1. Spending(p)' /\ Job(p)' = Job(p)
      BY <2>2 DEF Goes, Becomes, Spending, Job, TypeOK, Task
    <3>2. \A j \in Names : j # Job(p) => rows'[j] = rows[j]
      BY <2>2 DEF EndAgain, TypeOK, LeasesTypeOK
    <3>3. \E t : Becomes(p, t)
      BY <2>2, DoneBecomes
    <3> QED
      BY <2>1, <3>1, <3>2, <3>3, OtherSpenders DEF QueuedRunIsKept, Kept, Job
  <2>3. CASE (EndReleased(Job(p), task[p].epoch) \/ EndLost(Job(p), task[p].epoch)) /\ Done(p)
    <3>1. \A j \in Names : rows[j].again => rows'[j].again
      BY <2>3 DEF EndReleased, EndLost, TypeOK, LeasesTypeOK, Row
    <3> QED
      BY <2>1, <2>3, <3>1, DoneBecomes, OtherSpenders, StillKept
  <2> QED
    BY <1>7, <2>2, <2>3 DEF Settle
<1>8. ASSUME NEW p \in Procs, RenewSend(p) PROVE QueuedRunIsKept'
  BY <1>8, StillKept DEF RenewSend, Spending
<1>9. ASSUME NEW m \in wire, RenewLand(m) \/ RenewFail(m) PROVE QueuedRunIsKept'
  <2>1. \A j \in Names : rows[j].again => rows'[j].again
    BY <1>9 DEF RenewLand, RenewFail, Renew, TypeOK, LeasesTypeOK, Row
  <2> QED
    BY <1>9, <2>1, StillKept DEF RenewLand, RenewFail, Spending
<1>10. CASE Tick
  <2>1. \A j \in Names : rows[j].again => rows'[j].again
    BY <1>10 DEF Tick, Elapse, TypeOK, LeasesTypeOK, Row
  <2> QED
    BY <1>10, <2>1, StillKept DEF Tick, Spending
<1>11. ASSUME \E p \in Procs : GiveBack(p) \/ HangUp(p) \/ StoreFails(p) \/ AnswerLost(p)
       PROVE  QueuedRunIsKept'
  BY <1>11, DropsKept DEF GiveBack, HangUp, StoreFails, AnswerLost
<1>12. ASSUME \E r \in Runners : Crash(r) PROVE QueuedRunIsKept'
  BY <1>12, DropsKept DEF Crash
<1>13. ASSUME NEW p \in Procs, LookQueued(p) PROVE QueuedRunIsKept'
  <2>1. ~Spending(p) /\ \E t : Becomes(p, t)
    BY <1>13, DoneBecomes DEF LookQueued, At, Spending
  <2>2. \A q \in Procs : Spending(q) => Spending(q)' /\ task'[q].job = task[q].job
    BY <2>1, OtherSpenders
  <2>3. rows' = rows /\ rows[Job(p)].again
    BY <1>13 DEF LookQueued
  <2>4. \A j \in Names : j # Job(p) => owed'[j] = owed[j]
    BY <1>13 DEF LookQueued, TypeOK
  <2> QED
    BY <2>2, <2>3, <2>4 DEF QueuedRunIsKept, Kept, Job
<1>14. CASE UNCHANGED vars
  BY <1>14, StillKept DEF vars, Spending
<1> QED
  BY <1>1, <1>2, <1>3, <1>4, <1>5, <1>6, <1>7, <1>8, <1>9, <1>10, <1>11,
     <1>12, <1>13, <1>14 DEF Next, Step

\* A run that was answered "queued" is kept until a run begins or a fault is
\* recorded, whatever the delays.
THEOREM QueuedRunsKept == Spec => []QueuedRunIsKept
<1>1. Init => TypeOK /\ QueuedRunIsKept
  BY InitType DEF Init, QueuedRunIsKept
<1>2. TypeOK /\ QueuedRunIsKept /\ [Next]_vars => TypeOK' /\ QueuedRunIsKept'
  BY NextType, NextKept
<1> QED
  BY <1>1, <1>2, PTL DEF Spec

-----------------------------------------------------------------------------
(* The ceiling of an app. *)

\* With timely renewals, a look at a free slot finds fewer holders of its app
\* than the ceiling: each holds a live slot of its own.
LEMMA RoomForClaim ==
    ASSUME TypeOK, HolderInv, Timely, NEW p \in Procs, ClaimLook(p)
    PROVE  Cardinality(HoldersOf(GroupOf[Job(p)])) < Most
<1> DEFINE g == GroupOf[Job(p)]
           H == HoldersOf(g)
           L == LiveOthers(Job(p))
           f == [q \in H |-> Job(q)]
<1>1. ~Live(Job(p)) /\ ~(Cardinality(L) >= Most)
  BY DEF ClaimLook, Takeable, Full
<1>2. \A q \in H : /\ q \in Procs /\ Holding(q)
                   /\ Job(q) \in Names /\ GroupOf[Job(q)] = g /\ Live(Job(q))
  BY DEF HoldersOf, HolderInv, HoldersCurrent, TypeOK, Holding, Job
<1>3. f \in [H -> L]
  BY <1>1, <1>2 DEF LiveOthers
<1>4. \A q, u \in H : f[q] = f[u] => q = u
  BY <1>2, OnlyHolder
<1>5. f \in Injection(H, L)
  BY <1>3, <1>4 DEF Injection, IsInjective
<1>6. IsFiniteSet(L)
  BY LeaseAssumption, FS_Subset DEF LiveOthers
<1>7. IsFiniteSet(H) /\ Cardinality(H) <= Cardinality(L)
  BY <1>5, <1>6, FS_Injection
<1>8. Cardinality(H) \in Nat /\ Cardinality(L) \in Nat
  BY <1>6, <1>7, FS_CardinalityType
<1> QED
  BY <1>1, <1>7, <1>8, LeaseAssumption

\* Every step keeps every app under its ceiling.
LEMMA NextCeiling ==
    ASSUME TypeOK, RoomToTake, Timely, AppCeiling, [Next]_vars
    PROVE  AppCeiling'
<1> SUFFICES ASSUME NEW g \in Groups PROVE Cardinality(HoldersOf(g)') <= Most
  BY DEF AppCeiling
<1>0. IsFiniteSet(HoldersOf(g)) /\ Cardinality(HoldersOf(g)) \in Nat
  BY JobSlotsAssumption, FS_Subset, FS_CardinalityType DEF HoldersOf
<1>1. CASE NoNewHolder
  <2>1. HoldersOf(g)' \in SUBSET HoldersOf(g)
    BY <1>1 DEF NoNewHolder, HoldersOf, Job
  <2>2. Cardinality(HoldersOf(g)') <= Cardinality(HoldersOf(g)) /\ Cardinality(HoldersOf(g)') \in Nat
    BY <1>0, <2>1, FS_Subset, FS_CardinalityType
  <2> QED
    BY <1>0, <2>2, LeaseAssumption DEF AppCeiling
<1>2. ASSUME NEW p \in Procs, ClaimTaken(p) PROVE Cardinality(HoldersOf(g)') <= Most
  <2>1. \A q \in Procs : q # p => task'[q] = task[q]
    BY <1>2 DEF ClaimTaken, Becomes, TypeOK
  <2>2. Job(p)' = Job(p)
    BY <1>2 DEF ClaimTaken, Becomes, TypeOK, Task, Job
  <2>3. ~Holding(p)
    BY <1>2 DEF ClaimTaken, At, Holding
  <2>4. CASE GroupOf[Job(p)] # g
    <3>1. HoldersOf(g)' \in SUBSET HoldersOf(g)
      BY <2>1, <2>2, <2>4 DEF HoldersOf, Holding, Job
    <3>2. Cardinality(HoldersOf(g)') <= Cardinality(HoldersOf(g)) /\ Cardinality(HoldersOf(g)') \in Nat
      BY <1>0, <3>1, FS_Subset, FS_CardinalityType
    <3> QED
      BY <1>0, <3>2, LeaseAssumption DEF AppCeiling
  <2>5. CASE GroupOf[Job(p)] = g
    <3>1. HoldersOf(g)' \in SUBSET (HoldersOf(g) \cup {p})
      BY <2>1 DEF HoldersOf, Holding, Job
    <3>2. /\ IsFiniteSet(HoldersOf(g) \cup {p})
          /\ Cardinality(HoldersOf(g) \cup {p}) = Cardinality(HoldersOf(g)) + 1
      BY <1>0, <2>3, FS_AddElement DEF HoldersOf
    <3>3. Cardinality(HoldersOf(g)') <= Cardinality(HoldersOf(g)) + 1 /\ Cardinality(HoldersOf(g)') \in Nat
      BY <3>1, <3>2, FS_Subset, FS_CardinalityType
    <3>4. Cardinality(HoldersOf(g)) < Most
      BY <1>2, <2>5 DEF RoomToTake, ClaimTaken
    <3> QED
      BY <1>0, <3>3, <3>4, LeaseAssumption
  <2> QED
    BY <2>4, <2>5
<1> QED
  BY <1>1, <1>2, OnlyClaimsHold

\* Holders only leave: what there was room for there is room for still.
LEMMA FewerHolders ==
    ASSUME NEW g, HoldersOf(g)' \in SUBSET HoldersOf(g), Cardinality(HoldersOf(g)) < Most
    PROVE  Cardinality(HoldersOf(g)') < Most
<1>1. IsFiniteSet(HoldersOf(g)) /\ Cardinality(HoldersOf(g)) \in Nat
  BY JobSlotsAssumption, FS_Subset, FS_CardinalityType DEF HoldersOf
<1>2. Cardinality(HoldersOf(g)') <= Cardinality(HoldersOf(g)) /\ Cardinality(HoldersOf(g)') \in Nat
  BY <1>1, FS_Subset, FS_CardinalityType
<1> QED
  BY <1>1, <1>2, LeaseAssumption

\* Every step leaves room for the process that is about to take a slot: the
\* app's lock keeps every other new holder of the app out.
LEMMA NextRoom ==
    ASSUME TypeOK, HolderInv, TakerInv, RoomToTake, [Next]_vars
    PROVE  RoomToTake'
<1> SUFFICES ASSUME Timely, NEW q \in Procs, At(q, "take")', NEW g, g = GroupOf[Job(q)']
             PROVE  Cardinality(HoldersOf(g)') < Most
  BY DEF RoomToTake
<1>1. CASE NoNewHolder
  <2>1. HoldersOf(g)' \in SUBSET HoldersOf(g)
    BY <1>1 DEF NoNewHolder, HoldersOf, Job
  <2>2. Cardinality(HoldersOf(g)) < Most
    <3>1. CASE NoNewTaker
      BY <3>1 DEF NoNewTaker, RoomToTake, Job
    <3>2. ASSUME NEW p \in Procs, ClaimLook(p)
          PROVE  Cardinality(HoldersOf(g)) < Most
      <4>1. Job(p)' = Job(p) /\ \A u \in Procs : u # p => task'[u] = task[u]
        BY <3>2, LookTakes
      <4>2. CASE q = p
        BY <3>2, <4>1, <4>2, RoomForClaim
      <4>3. CASE q # p
        BY <4>1, <4>3 DEF RoomToTake, Job, At
      <4> QED
        BY <4>2, <4>3
    <3> QED
      BY <3>1, <3>2, OnlyLooksTake
  <2> QED
    BY <2>1, <2>2, FewerHolders
<1>2. ASSUME NEW p \in Procs, ClaimTaken(p)
      PROVE  Cardinality(HoldersOf(g)') < Most
  <2>1. /\ At(p, "take") /\ ~At(p, "take")'
        /\ Job(p)' = Job(p)
        /\ \A u \in Procs : u # p => task'[u] = task[u]
    BY <1>2, TakenTakes
  <2>2. q # p /\ At(q, "take") /\ Job(q)' = Job(q)
    BY <2>1 DEF At, Job
  <2>3. GroupOf[Job(p)] # g
    BY <2>1, <2>2 DEF TakerInv, OneTaker
  <2>4. HoldersOf(g)' \in SUBSET HoldersOf(g)
    BY <2>1, <2>2, <2>3 DEF HoldersOf, Holding, Job
  <2>5. Cardinality(HoldersOf(g)) < Most
    BY <2>2 DEF RoomToTake
  <2> QED
    BY <2>4, <2>5, FewerHolders
<1> QED
  BY <1>1, <1>2, OnlyClaimsHold

\* With timely renewals, the processes that hold slots of one app never exceed
\* its ceiling, however many slots late renewals bring back to life.
THEOREM CeilingKept == Timely => (Spec => []AppCeiling)
<1> SUFFICES ASSUME Timely PROVE Spec => []AppCeiling
  OBVIOUS
<1> DEFINE Inv == TypeOK /\ HolderInv /\ TakerInv /\ RoomToTake /\ AppCeiling
<1>1. Init => Inv
  <2>0. Init => RoomToTake
    BY DEF Init, RoomToTake, At, Idle
  <2> SUFFICES ASSUME Init, NEW g \in Groups PROVE Cardinality(HoldersOf(g)) <= Most
    BY <2>0, InitType, InitSlot, InitTaker DEF AppCeiling
  <2>1. HoldersOf(g) = {}
    BY DEF Init, HoldersOf, Holding, Idle
  <2> QED
    BY <2>1, FS_EmptySet, LeaseAssumption
<1>2. Inv /\ [Next]_vars => Inv'
  BY NextType, NextSlot, NextTaker, NextRoom, NextCeiling
<1>3. Inv => AppCeiling
  OBVIOUS
<1> QED
  BY <1>1, <1>2, <1>3, PTL DEF Spec

-----------------------------------------------------------------------------
(* Who spends a request. *)

\* A request goes away only by the taking of a slot or by an end of
\* turn with the slot's current epoch.
LEMMA NextSpends == TypeOK /\ [Next]_vars => [SpentByItsHolder]_vars
<1> SUFFICES ASSUME TypeOK, Next,
                    NEW j \in Names, rows[j].again, ~rows'[j].again
             PROVE  \E p \in Procs :
                        /\ Job(p) = j
                        /\ ~Holding(p)' \/ Spending(p)'
                        /\ \/ At(p, "take")
                           \/ Holding(p) /\ task[p].epoch = rows[j].epoch
  BY DEF SpentByItsHolder
<1>0. \A p \in Procs : Done(p) => ~Holding(p)'
  BY DoneNoHolder
<1>1. ASSUME NEW p \in Procs, NEW n \in Names, Take(n), n # j PROVE FALSE
  BY <1>1 DEF Take, TypeOK, LeasesTypeOK
<1>2. ASSUME NEW n \in Names, AskAgain(n) PROVE FALSE
  BY <1>2 DEF AskAgain, TypeOK, LeasesTypeOK, Row
<1>3. ASSUME NEW n \in Names, NEW e, Renew(n, e) PROVE FALSE
  BY <1>3 DEF Renew, TypeOK, LeasesTypeOK, Row
<1>4. ASSUME Elapse PROVE FALSE
  BY <1>4 DEF Elapse, TypeOK, LeasesTypeOK, Row
<1>5. ASSUME NEW n \in Names, NEW e, EndReleased(n, e) \/ EndLost(n, e) PROVE FALSE
  BY <1>5 DEF EndReleased, EndLost, TypeOK, LeasesTypeOK, Row
<1>6. ASSUME NEW n \in Names, NEW e, EndAgain(n, e) PROVE n = j /\ e = rows[j].epoch
  BY <1>6 DEF EndAgain, Holds, TypeOK, LeasesTypeOK
<1>7. ASSUME UNCHANGED rows PROVE FALSE
  BY <1>7
<1>8. \A p \in Procs : ~At(p, "idle") => Job(p) \in Names
  BY DEF TypeOK, Job, At
<1>9. ASSUME NEW p \in Procs, ClaimTaken(p)
      PROVE  Job(p) = j /\ Spending(p)' /\ At(p, "take")
  <2>1. At(p, "take") /\ Take(Job(p)) /\ Job(p) \in Names
    BY <1>8, <1>9 DEF ClaimTaken, At
  <2>2. Job(p) = j
    BY <1>1, <2>1
  <2>3. Spending(p)'
    BY <1>9 DEF ClaimTaken, Becomes, Spending, TypeOK, Task
  <2> QED
    BY <2>1, <2>2, <2>3
<1>10. ASSUME NEW p \in Procs, GiveBack(p) \/ Settle(p)
       PROVE  Job(p) = j /\ Spending(p)' /\ Holding(p) /\ task[p].epoch = rows[j].epoch
  <2>1. Job(p) \in Names /\ Holding(p)
    BY <1>8, <1>10 DEF GiveBack, Settle, At, Holding
  <2>2. EndAgain(Job(p), task[p].epoch)
    BY <1>5, <1>10, <2>1 DEF GiveBack, Settle
  <2>3. \E w \in {"begin", "begin_next"} : Goes(p, w)
    BY <1>5, <1>10, <2>1 DEF GiveBack, Settle
  <2>4. task'[p].pc \in {"begin", "begin_next"}
    BY <2>3 DEF Goes, Becomes, TypeOK, Task
  <2>5. Spending(p)'
    BY <2>4 DEF Spending
  <2> QED
    BY <1>6, <2>1, <2>2, <2>5
<1>11. ASSUME NEW p \in Procs, AnswerLost(p)
       PROVE  /\ Job(p) = j
              /\ ~Holding(p)'
              /\ \/ At(p, "take")
                 \/ Holding(p) /\ task[p].epoch = rows[j].epoch
  <2>1. Job(p) \in Names /\ ~Holding(p)'
    BY <1>0, <1>8, <1>11 DEF AnswerLost, At
  <2>2. CASE At(p, "take") /\ Take(Job(p))
    BY <1>1, <2>1, <2>2
  <2>3. CASE task[p].pc \in {"give_back", "settle"} /\ EndAgain(Job(p), task[p].epoch)
    BY <1>6, <2>1, <2>3 DEF Holding
  <2> QED
    BY <1>2, <1>5, <1>11, <2>1, <2>2, <2>3 DEF AnswerLost
<1>12. ASSUME NEW p \in Procs, AskQueued(p) PROVE FALSE
  BY <1>2, <1>8, <1>12 DEF AskQueued, At
<1>13. ASSUME NEW m \in wire, RenewLand(m) \/ RenewFail(m) PROVE FALSE
  BY <1>3, <1>7, <1>13 DEF RenewLand, RenewFail, TypeOK
<1>14. ASSUME Tick PROVE FALSE
  BY <1>4, <1>14 DEF Tick
<1>15. ASSUME \E p \in Procs :
                 \/ \E n \in Names : \/ RunJob(p, n) \/ StartFromApp(p, n)
                                   \/ FireTurn(p, n) \/ TakeOver(p, n)
                 \/ ClaimLook(p) \/ ClaimRefused(p) \/ Look(p) \/ LookQueued(p)
                 \/ CountAllowed(p) \/ CountRefused(p) \/ AskMissed(p) \/ Start(p) \/ StartFails(p)
                 \/ Finish(p) \/ RenewSend(p) \/ HangUp(p) \/ StoreFails(p)
       PROVE  FALSE
  BY <1>7, <1>15 DEF RunJob, StartFromApp, FireTurn, TakeOver, Comes, ClaimLook, ClaimRefused,
     Look, LookQueued, CountAllowed, CountRefused, AskMissed, Start, StartFails, Finish, RenewSend,
     HangUp, StoreFails
<1>16. ASSUME \E r \in Runners : Crash(r) PROVE FALSE
  BY <1>7, <1>16 DEF Crash
<1> QED
  BY <1>9, <1>10, <1>11, <1>12, <1>13, <1>14, <1>15, <1>16 DEF Next, Step

\* A holder that paused past its lease never acts on a request made of the new
\* holder, whatever the delays.
THEOREM RequestsSpentByHolders == Spec => RequestSpentByItsHolder
<1>1. TypeOK /\ [Next]_vars => [SpentByItsHolder]_vars
  BY NextSpends
<1>2. Spec => []TypeOK
  BY TypeCorrect
<1> QED
  BY <1>1, <1>2, PTL DEF Spec, RequestSpentByItsHolder

=============================================================================
