--------------------------- MODULE LoopsProofs -----------------------------
(* Proofs about the runner registry, for every set of processes and every   *)
(* pair of ages at which a heartbeat is stale and its row is forgotten; and *)
(* about the scheduler's sleep, for every length of its two bounds and of   *)
(* the time between a job's turns; and about an app's live connections, for *)
(* any of them, any queues and any bounds.                                  *)
EXTENDS Runners, Wakes, Sockets, SequenceTheorems, TLAPS

\* Behind OneServes, while heartbeats are punctual: a heartbeat that has yet to
\* be written has not grown stale, nor has the row of a process that is up or
\* about to be; so of two that are up the one that read last saw the other.
BeatsFresh == \A r \in Processes : beat[r] = "write" => began[r] < LiveFor

UpShown == \A r \in Processes :
    phase[r] = "up" \/ (phase[r] = "starting" /\ beat[r] = "read") => row[r] < LiveFor

SeenByOne == \A r, s \in Processes :
    phase[r] = "up" /\ phase[s] = "up" /\ r # s => s \in peers[r] \/ r \in peers[s]

RunnersInv == Punctual => BeatsFresh /\ UpShown /\ SeenByOne

LEMMA AgesType ==
    ASSUME NEW a \in 0..NoBeat
    PROVE  Ages(a) \in 0..NoBeat /\ Ages(a) <= a + 1
                                 /\ (a \in 0..ForgetAfter => Ages(a) \in 0..ForgetAfter)
BY RunnersAssumption DEF Ages, NoBeat

\* Ages, sets of peers and steps stay what they are.
THEOREM RunnersTypeCorrect == RunnersSpec => []RunnersTypeOK
<1>1. RunnersInit => RunnersTypeOK
  BY RunnersAssumption DEF RunnersInit, RunnersTypeOK, NoBeat
<1>2. RunnersTypeOK /\ [RunnersNext]_runnersVars => RunnersTypeOK'
  <2> SUFFICES ASSUME RunnersTypeOK, [RunnersNext]_runnersVars PROVE RunnersTypeOK'
    OBVIOUS
  <2> USE RunnersAssumption DEF RunnersTypeOK, NoBeat
  <2>1. ASSUME NEW r \in Processes, Register(r) PROVE RunnersTypeOK'
    BY <2>1 DEF Register
  <2>2. ASSUME NEW r \in Processes, Leave(r) \/ Exit(r) PROVE RunnersTypeOK'
    BY <2>2 DEF Leave, Exit
  <2>3. ASSUME NEW r \in Processes, BeatBegins(r) \/ BeatFails(r) PROVE RunnersTypeOK'
    BY <2>3 DEF BeatBegins, BeatFails
  <2>4. ASSUME NEW r \in Processes, BeatWrite(r) PROVE RunnersTypeOK'
    BY <2>4 DEF BeatWrite
  <2>5. ASSUME NEW r \in Processes, BeatRead(r) PROVE RunnersTypeOK'
    BY <2>5 DEF BeatRead
  <2>6. CASE RunnersTick
    BY <2>6, AgesType DEF RunnersTick
  <2>7. CASE UNCHANGED runnersVars
    BY <2>7 DEF runnersVars
  <2> QED
    BY <2>1, <2>2, <2>3, <2>4, <2>5, <2>6, <2>7 DEF RunnersNext
<1> QED
  BY <1>1, <1>2, PTL DEF RunnersSpec

\* runners.rs:4-8: however many processes there are, and however registrations,
\* heartbeats, failures and deaths fall, two never both open app databases while
\* every heartbeat is written before the last one is stale.
THEOREM OneServesAtATime == Punctual => (RunnersSpec => []OneServes)
<1> SUFFICES ASSUME Punctual PROVE RunnersSpec => []OneServes
  OBVIOUS
<1>1. RunnersInit => RunnersInv
  BY DEF RunnersInit, RunnersInv, BeatsFresh, UpShown, SeenByOne
<1>2. RunnersTypeOK /\ RunnersInv /\ [RunnersNext]_runnersVars => RunnersInv'
  <2> SUFFICES ASSUME RunnersTypeOK, RunnersInv, [RunnersNext]_runnersVars PROVE RunnersInv'
    OBVIOUS
  <2> USE RunnersAssumption DEF RunnersTypeOK, RunnersInv, BeatsFresh, UpShown, SeenByOne, NoBeat
  <2>1. ASSUME NEW r \in Processes, Register(r) PROVE RunnersInv'
    BY <2>1 DEF Register
  <2>2. ASSUME NEW r \in Processes, Leave(r) \/ Exit(r) PROVE RunnersInv'
    BY <2>2 DEF Leave, Exit
  <2>3. ASSUME NEW r \in Processes, BeatBegins(r) \/ BeatFails(r) PROVE RunnersInv'
    BY <2>3 DEF BeatBegins, BeatFails
  <2>4. ASSUME NEW r \in Processes, BeatWrite(r) PROVE RunnersInv'
    BY <2>4 DEF BeatWrite
  <2>5. ASSUME NEW r \in Processes, BeatRead(r) PROVE RunnersInv'
    <3>1. \A s \in Processes \ {r} : phase[s] = "up" => Beats(s, r)
      BY DEF Beats
    <3> QED
      BY <2>5, <3>1 DEF BeatRead
  <2>6. CASE RunnersTick
    <3>1. \A s \in Processes : ~Late(s)
      BY <2>6 DEF RunnersTick
    <3> QED
      BY <2>6, <3>1, AgesType DEF RunnersTick, Late
  <2>7. CASE UNCHANGED runnersVars
    BY <2>7 DEF runnersVars
  <2> QED
    BY <2>1, <2>2, <2>3, <2>4, <2>5, <2>6, <2>7 DEF RunnersNext
<1>3. RunnersInv => OneServes
  BY DEF RunnersInv, SeenByOne, OneServes, Serves
<1> QED
  BY <1>1, <1>2, <1>3, RunnersTypeCorrect, PTL DEF RunnersSpec

-----------------------------------------------------------------------------
(* The scheduler's sleep.                                                  *)

\* What is left to wait and what a turn has waited already come to at most the
\* least sleep beyond the time the turn is due, when the sleep was planned for
\* this turn; a sleep that was begun again by a notification, as long ago as
\* `quiet` says, with the turn due already, is the least one.
PlannedFor == wait + late <= due + MinSleep

BegunAgain == due = 0 /\ quiet + wait <= MinSleep

WakesInv ==
    /\ WakesTypeOK
    /\ late > 0 => due = 0
    /\ notified => quiet = 0
    /\ ~asleep /\ late > 0 => quiet = 0
    /\ asleep /\ ~notified /\ due # Never => PlannedFor \/ BegunAgain

LEMMA WakesStart == WakesInit => WakesInv
<1> SUFFICES ASSUME WakesInit PROVE WakesInv
  OBVIOUS
<1>1. WakesTypeOK
  <2>1. asleep \in BOOLEAN /\ notified \in BOOLEAN /\ orphan \in BOOLEAN
    BY Zenon DEF WakesInit
  <2>2. /\ due \in 0..Period \cup {Never} /\ late \in 0..MaxLate /\ wait \in 0..MaxSleep
        /\ quiet \in 0..MaxQuiet /\ sets \in 0..MaxSets
    BY WakesAssumption DEF WakesInit, MaxLate, MaxQuiet
  <2> QED
    BY <2>1, <2>2 DEF WakesTypeOK
<1> QED
  BY <1>1 DEF WakesInit, WakesInv

LEMMA WakesStep ==
    ASSUME WakesInv, [WakesNext]_wakesVars
    PROVE  WakesInv'
<1> USE WakesAssumption DEF WakesInv, WakesTypeOK, MaxLate, MaxQuiet
<1>1. CASE Plan
  BY <1>1 DEF Plan, UntilNext, PlannedFor, BegunAgain
<1>2. CASE Replan
  BY <1>2 DEF Replan
<1>3. CASE TickDue
  <2>1. due' \in 0..Period \cup {Never}
    BY <1>3 DEF TickDue
  <2>2. /\ late' = 0 /\ late' \in 0..MaxLate
        /\ wait' = wait /\ quiet' = quiet /\ sets' = sets
    BY <1>3 DEF TickDue
  <2>3. asleep' \in BOOLEAN /\ orphan' \in BOOLEAN /\ notified' \in BOOLEAN
    BY <1>3, Zenon DEF TickDue
  <2>4. ~asleep' /\ (notified' => quiet' = 0)
    BY <1>3 DEF TickDue
  <2> QED
    BY <2>1, <2>2, <2>3, <2>4
<1>4. CASE RunEnds
  BY <1>4 DEF RunEnds, Notify, PlannedFor, BegunAgain
<1>5. ASSUME NEW d \in 0..Period \cup {Never}, SetSooner(d) PROVE WakesInv'
  BY <1>5 DEF SetSooner, Notify, PlannedFor, BegunAgain
<1>6. CASE Owe
  BY <1>6 DEF Owe, PlannedFor, BegunAgain
<1>7. CASE SleepElapses
  BY <1>7 DEF SleepElapses, PlannedFor, BegunAgain
<1>8. CASE UNCHANGED wakesVars
  BY <1>8 DEF wakesVars, PlannedFor, BegunAgain
<1> QED
  BY <1>1, <1>2, <1>3, <1>4, <1>5, <1>6, <1>7, <1>8 DEF WakesNext

\* However close together notifications come, a turn that is due waits longer than
\* the shortest sleep only while one came within that sleep (schedule.rs:39-46);
\* so it starts one such sleep after the last of them.
THEOREM StartsUnlessNotified == WakesSpec => []LateOnlyWhenNotified
<1>1. WakesInit => WakesInv
  BY WakesStart
<1>2. WakesInv /\ [WakesNext]_wakesVars => WakesInv'
  BY WakesStep
<1>3. WakesInv => LateOnlyWhenNotified
  BY WakesAssumption DEF WakesInv, WakesTypeOK, MaxLate, MaxQuiet, PlannedFor, BegunAgain,
     LateOnlyWhenNotified
<1> QED
  BY <1>1, <1>2, <1>3, PTL DEF WakesSpec

-----------------------------------------------------------------------------
(* Lines: what a connection was sent and is to be sent.                     *)

LEMMA ItemType ==
    /\ \A x \in Item : x.upTo \in Nat
    /\ Goodbye \in Item
    /\ \A k \in 0..Publishes : Snapshot(k) \in Item /\ Snapshot(k) # Goodbye
                               /\ Snapshot(k).kind = "snapshot" /\ Snapshot(k).upTo = k
    /\ \A k \in 1..Publishes : Told(k) \in Item /\ Told(k) # Goodbye
                               /\ Told(k).kind = "told" /\ Told(k).upTo = k
<1>1. /\ Goodbye.upTo = 0 /\ Goodbye.kind = "close"
      /\ \A k : Snapshot(k).kind = "snapshot" /\ Snapshot(k).upTo = k
      /\ \A k : Told(k).kind = "told" /\ Told(k).upTo = k
  BY DEF Goodbye, Snapshot, Told
<1>2. /\ Goodbye \in Item
      /\ \A k \in 0..Publishes : Snapshot(k) \in Item
      /\ \A k \in 1..Publishes : Told(k) \in Item
  BY DEF Item
<1>3. \A k : Snapshot(k) # Goodbye /\ Told(k) # Goodbye
  <2> SUFFICES ASSUME NEW k PROVE Snapshot(k) # Goodbye /\ Told(k) # Goodbye
    OBVIOUS
  <2>1. "snapshot" # "close" /\ "told" # "close"
    OBVIOUS
  <2> QED BY <1>1, <2>1
<1>4. ASSUME NEW x \in Item PROVE x.upTo \in Nat
  <2>1. CASE x = Goodbye
    BY <2>1, <1>1
  <2>2. ASSUME NEW k \in 0..Publishes, x = Snapshot(k) \/ x = Told(k) PROVE x.upTo \in Nat
    BY <2>2, <1>1, SocketsAssumption
  <2> QED BY <2>1, <2>2, SocketsAssumption DEF Item
<1> QED BY <1>1, <1>2, <1>3, <1>4

\* Does a line tell of the topic; is all it tells of published, one by one.
TellsOf(line) == \E i \in 1..Len(line) : Tells(line, i)
ToldUpTo(line, n) == \A i \in 1..Len(line) : Tells(line, i) => line[i].kind = "told" /\ line[i].upTo <= n

\* A line that is cut off after some of its items.
StartOf(s, line) ==
    /\ s \in Seq(Item)
    /\ Len(s) <= Len(line)
    /\ \A i \in 1..Len(s) : s[i] = line[i]

\* What comes first, one after the other, does so in every start of a line.
LEMMA StartKeeps ==
    ASSUME NEW line \in Seq(Item), NEW s, StartOf(s, line)
    PROVE  /\ SnapshotFirst(line) => SnapshotFirst(s)
           /\ NoneLost(line) => NoneLost(s)
           /\ \A n \in Nat : ToldUpTo(line, n) => ToldUpTo(s, n)
           /\ ~TellsOf(line) => ~TellsOf(s)
<1> USE DEF StartOf, Tells
<1>1. \A i \in 1..Len(s) : Tells(s, i) <=> Tells(line, i)
  OBVIOUS
<1>2. SnapshotFirst(line) => SnapshotFirst(s)
  BY <1>1 DEF SnapshotFirst
<1>3. NoneLost(line) => NoneLost(s)
  <2> SUFFICES ASSUME NoneLost(line), NEW i \in 1..Len(s), NEW j \in 1..Len(s), TellsNext(s, i, j)
               PROVE  TellsNext(line, i, j)
    BY DEF NoneLost
  <2> QED BY <1>1 DEF TellsNext
<1>4. \A n \in Nat : ToldUpTo(line, n) => ToldUpTo(s, n)
  BY <1>1 DEF ToldUpTo
<1>5. ~TellsOf(line) => ~TellsOf(s)
  BY <1>1 DEF TellsOf
<1> QED BY <1>2, <1>3, <1>4, <1>5

\* A close tells of nothing.
LEMMA GoodbyeKeeps ==
    ASSUME NEW line \in Seq(Item), NEW m, m = Append(line, Goodbye)
    PROVE  /\ SnapshotFirst(line) => SnapshotFirst(m)
           /\ NoneLost(line) => NoneLost(m)
           /\ \A n \in Nat : ToTheLast(line, n) => ToTheLast(m, n)
           /\ \A n \in Nat : ToldUpTo(line, n) => ToldUpTo(m, n)
           /\ TellsOf(line) <=> TellsOf(m)
<1>1. /\ m \in Seq(Item) /\ Len(m) = Len(line) + 1
      /\ \A i \in 1..Len(line) : m[i] = line[i]
      /\ m[Len(line) + 1] = Goodbye
  BY ItemType
<1> HIDE DEF Goodbye
<1>2. /\ \A i \in 1..Len(line) : Tells(m, i) <=> Tells(line, i)
      /\ ~Tells(m, Len(line) + 1)
  BY <1>1 DEF Tells
<1>3. SnapshotFirst(line) => SnapshotFirst(m)
  BY <1>1, <1>2 DEF SnapshotFirst
<1>4. NoneLost(line) => NoneLost(m)
  <2> SUFFICES ASSUME NoneLost(line), NEW i \in 1..Len(m), NEW j \in 1..Len(m), TellsNext(m, i, j)
               PROVE  i \in 1..Len(line) /\ j \in 1..Len(line) /\ TellsNext(line, i, j)
    BY <1>1 DEF NoneLost
  <2>1. i \in 1..Len(line) /\ j \in 1..Len(line)
    BY <1>1, <1>2 DEF TellsNext
  <2> QED BY <2>1, <1>1, <1>2 DEF TellsNext
<1>5. \A n \in Nat : ToTheLast(line, n) => ToTheLast(m, n)
  <2> SUFFICES ASSUME NEW n \in Nat, ToTheLast(line, n), NEW i \in 1..Len(m), Tells(m, i),
                      \A k \in (i + 1)..Len(m) : ~Tells(m, k)
               PROVE  m[i].upTo = n
    BY DEF ToTheLast
  <2>1. i \in 1..Len(line) /\ Tells(line, i)
    BY <1>1, <1>2
  <2>2. \A k \in (i + 1)..Len(line) : ~Tells(line, k)
    BY <1>1, <1>2, <2>1
  <2> QED BY <2>1, <2>2, <1>1 DEF ToTheLast
<1>6. \A n \in Nat : ToldUpTo(line, n) => ToldUpTo(m, n)
  BY <1>1, <1>2 DEF ToldUpTo
<1>7. TellsOf(line) <=> TellsOf(m)
  BY <1>1, <1>2 DEF TellsOf
<1> QED BY <1>3, <1>4, <1>5, <1>6, <1>7

\* What is published next comes next.
LEMMA NextKeeps ==
    ASSUME NEW line \in Seq(Item), NEW n \in Nat, n + 1 <= Publishes,
           NEW m, m = Append(line, Told(n + 1)), ToTheLast(line, n), NoneLost(line)
    PROVE  /\ SnapshotFirst(line) /\ TellsOf(line) => SnapshotFirst(m)
           /\ NoneLost(m)
           /\ ToTheLast(m, n + 1)
           /\ ToldUpTo(line, n) => ToldUpTo(m, n + 1)
           /\ TellsOf(m)
<1> DEFINE t == Told(n + 1)
<1>0. t \in Item /\ t # Goodbye /\ t.kind = "told" /\ t.upTo = n + 1
  BY ItemType, SocketsAssumption
<1>1. /\ m \in Seq(Item) /\ Len(m) = Len(line) + 1
      /\ \A i \in 1..Len(line) : m[i] = line[i]
      /\ m[Len(line) + 1] = t
  BY <1>0
<1> HIDE DEF t
<1>2. /\ \A i \in 1..Len(line) : Tells(m, i) <=> Tells(line, i)
      /\ Tells(m, Len(line) + 1)
  BY <1>0, <1>1 DEF Tells
<1>3. SnapshotFirst(line) /\ TellsOf(line) => SnapshotFirst(m)
  <2> SUFFICES ASSUME SnapshotFirst(line), TellsOf(line), NEW i \in 1..Len(m), Tells(m, i),
                      \A k \in 1..(i - 1) : ~Tells(m, k)
               PROVE  i \in 1..Len(line) /\ (\A k \in 1..(i - 1) : ~Tells(line, k))
    BY <1>1, <1>2 DEF SnapshotFirst
  <2>1. PICK j \in 1..Len(line) : Tells(line, j)
    BY DEF TellsOf
  <2>2. i <= j
    BY <1>1, <1>2, <2>1
  <2> QED BY <1>1, <1>2, <2>1, <2>2
<1>4. NoneLost(m)
  <2> SUFFICES ASSUME NEW i \in 1..Len(m), NEW j \in 1..Len(m), TellsNext(m, i, j)
               PROVE  /\ m[j].kind = "told"
                      /\ m[j].upTo <= m[i].upTo + 1
                      /\ m[i].kind = "told" => m[j].upTo = m[i].upTo + 1
    BY DEF NoneLost
  <2>1. i \in 1..Len(line) /\ Tells(line, i)
    BY <1>1, <1>2 DEF TellsNext
  <2>2. CASE j \in 1..Len(line)
    <3>1. TellsNext(line, i, j)
      BY <2>1, <2>2, <1>1, <1>2 DEF TellsNext
    <3> QED BY <3>1, <2>1, <2>2, <1>1 DEF NoneLost
  <2>3. CASE j = Len(line) + 1
    <3>1. \A k \in (i + 1)..Len(line) : ~Tells(line, k)
      BY <2>1, <2>3, <1>1, <1>2 DEF TellsNext
    <3>2. line[i].upTo = n
      BY <3>1, <2>1 DEF ToTheLast
    <3> QED BY <3>2, <2>1, <2>3, <1>0, <1>1
  <2> QED BY <2>2, <2>3, <1>1
<1>5. ToTheLast(m, n + 1)
  <2> SUFFICES ASSUME NEW i \in 1..Len(m), Tells(m, i),
                      \A k \in (i + 1)..Len(m) : ~Tells(m, k)
               PROVE  m[i].upTo = n + 1
    BY DEF ToTheLast
  <2>1. i = Len(line) + 1
    BY <1>1, <1>2
  <2> QED BY <2>1, <1>0, <1>1
<1>6. ToldUpTo(line, n) => ToldUpTo(m, n + 1)
  <2> SUFFICES ASSUME ToldUpTo(line, n), NEW i \in 1..Len(m), Tells(m, i)
               PROVE  m[i].kind = "told" /\ m[i].upTo <= n + 1
    BY DEF ToldUpTo
  <2>1. CASE i \in 1..Len(line)
    <3>1. line[i].kind = "told" /\ line[i].upTo <= n /\ line[i] \in Item
      BY <2>1, <1>2 DEF ToldUpTo
    <3> QED BY <3>1, <2>1, <1>1, ItemType
  <2>2. CASE i = Len(line) + 1
    BY <2>2, <1>0, <1>1
  <2> QED BY <2>1, <2>2, <1>1
<1>7. TellsOf(m)
  BY <1>1, <1>2 DEF TellsOf
<1> QED BY <1>3, <1>4, <1>5, <1>6, <1>7

\* A snapshot goes before what it does or does not tell of.
LEMMA SnapshotBefore ==
    ASSUME NEW line \in Seq(Item), NEW n \in 0..Publishes,
           NEW m, m = <<Snapshot(n)>> \o line, ToldUpTo(line, n), NoneLost(line)
    PROVE  /\ SnapshotFirst(m)
           /\ NoneLost(m)
           /\ ToTheLast(line, n) => ToTheLast(m, n)
           /\ TellsOf(m)
<1> DEFINE t == Snapshot(n)
<1>0. t \in Item /\ t # Goodbye /\ t.kind = "snapshot" /\ t.upTo = n
  BY ItemType
<1>1. /\ m \in Seq(Item) /\ Len(m) = Len(line) + 1
      /\ \A i \in 1..Len(line) : m[i + 1] = line[i]
      /\ m[1] = t
  BY <1>0
<1> HIDE DEF t
<1>2. /\ \A i \in 1..Len(line) : Tells(m, i + 1) <=> Tells(line, i)
      /\ Tells(m, 1)
  BY <1>0, <1>1 DEF Tells
<1>2a. \A i \in 1..Len(m) : i # 1 => /\ i - 1 \in 1..Len(line) /\ m[i] = line[i - 1]
                                     /\ Tells(m, i) <=> Tells(line, i - 1)
  <2> SUFFICES ASSUME NEW i \in 1..Len(m), i # 1
               PROVE  /\ i - 1 \in 1..Len(line) /\ m[i] = line[i - 1]
                      /\ Tells(m, i) <=> Tells(line, i - 1)
    OBVIOUS
  <2>1. i - 1 \in 1..Len(line) /\ (i - 1) + 1 = i
    BY <1>1
  <2> QED BY <2>1, <1>1, <1>2
<1>3. SnapshotFirst(m)
  <2> SUFFICES ASSUME NEW i \in 1..Len(m), Tells(m, i), \A k \in 1..(i - 1) : ~Tells(m, k)
               PROVE  m[i].kind = "snapshot"
    BY DEF SnapshotFirst
  <2>1. i = 1
    BY <1>1, <1>2
  <2> QED BY <2>1, <1>0, <1>1
<1>4. NoneLost(m)
  <2> SUFFICES ASSUME NEW i \in 1..Len(m), NEW j \in 1..Len(m), TellsNext(m, i, j)
               PROVE  /\ m[j].kind = "told"
                      /\ m[j].upTo <= m[i].upTo + 1
                      /\ m[i].kind = "told" => m[j].upTo = m[i].upTo + 1
    BY DEF NoneLost
  <2>1. j # 1 /\ Tells(m, j) /\ Tells(m, i)
    BY <1>1 DEF TellsNext
  <2>2. j - 1 \in 1..Len(line) /\ m[j] = line[j - 1] /\ Tells(line, j - 1)
    BY <2>1, <1>2a
  <2>3. CASE i = 1
    <3>1. line[j - 1].kind = "told" /\ line[j - 1].upTo <= n /\ line[j - 1] \in Item
      BY <2>2 DEF ToldUpTo
    <3> QED BY <3>1, <2>2, <2>3, <1>0, <1>1, ItemType
  <2>4. CASE i # 1
    <3>1. i - 1 \in 1..Len(line) /\ m[i] = line[i - 1] /\ Tells(line, i - 1)
      BY <2>1, <2>4, <1>2a
    <3>2. \A k \in ((i - 1) + 1)..((j - 1) - 1) : ~Tells(line, k)
      <4> SUFFICES ASSUME NEW k \in ((i - 1) + 1)..((j - 1) - 1) PROVE ~Tells(line, k)
        OBVIOUS
      <4>1. k + 1 \in (i + 1)..(j - 1) /\ k \in 1..Len(line)
        BY <1>1
      <4> QED BY <4>1, <1>2 DEF TellsNext
    <3>3. TellsNext(line, i - 1, j - 1)
      BY <3>1, <3>2, <2>2 DEF TellsNext
    <3> QED BY <3>1, <3>3, <2>2 DEF NoneLost
  <2> QED BY <2>3, <2>4
<1>5. ToTheLast(line, n) => ToTheLast(m, n)
  <2> SUFFICES ASSUME ToTheLast(line, n), NEW i \in 1..Len(m), Tells(m, i),
                      \A k \in (i + 1)..Len(m) : ~Tells(m, k)
               PROVE  m[i].upTo = n
    BY DEF ToTheLast
  <2>1. CASE i = 1
    BY <2>1, <1>0, <1>1
  <2>2. CASE i # 1
    <3>1. i - 1 \in 1..Len(line) /\ m[i] = line[i - 1] /\ Tells(line, i - 1)
      BY <2>2, <1>2a
    <3>2. \A k \in ((i - 1) + 1)..Len(line) : ~Tells(line, k)
      <4> SUFFICES ASSUME NEW k \in ((i - 1) + 1)..Len(line) PROVE ~Tells(line, k)
        OBVIOUS
      <4>1. k + 1 \in (i + 1)..Len(m) /\ k \in 1..Len(line)
        BY <1>1
      <4> QED BY <4>1, <1>2
    <3> QED BY <3>1, <3>2 DEF ToTheLast
  <2> QED BY <2>1, <2>2
<1>6. TellsOf(m)
  BY <1>1, <1>2 DEF TellsOf
<1> QED BY <1>3, <1>4, <1>5, <1>6


-----------------------------------------------------------------------------
(* Types of the live connections.                                           *)

\* What a delivery leaves of a connection: what was held for it, what waits for
\* its transport, and whether it is cut off.
LEMMA Delivered ==
    ASSUME SocketsTypeOK, NEW to, NEW item \in Item, NEW from, Deliver(to, item, from)
    PROVE  /\ place' = place /\ joined' = joined /\ cut' \subseteq place /\ holding' \subseteq place
           /\ held' \in [Conns -> Seq(Item)] /\ outbox' \in [Conns -> Seq(Item)]
           /\ \A d \in Conns : Len(held'[d]) <= Queue /\ Len(outbox'[d]) <= Queue
           /\ \A d \in Conns :
                 \/ /\ d \in to /\ Reachable(d) /\ Reachable(d)' /\ Waits(d, from)
                    /\ held'[d] = Append(held[d], item) /\ outbox'[d] = outbox[d]
                    /\ ((d \in holding)' <=> d \in holding)
                 \/ /\ d \in to /\ Reachable(d) /\ Reachable(d)' /\ ~Waits(d, from)
                    /\ outbox'[d] = Append(outbox[d], item) /\ held'[d] = held[d]
                    /\ ((d \in holding)' <=> d \in holding)
                 \/ /\ d \in to /\ Reachable(d) /\ ~Reachable(d)' /\ ~HasRoom(d, from)
                    /\ held'[d] = <<>> /\ outbox'[d] = outbox[d]
                 \/ /\ ~(d \in to /\ Reachable(d)) /\ (Reachable(d)' <=> Reachable(d))
                    /\ held'[d] = held[d] /\ outbox'[d] = outbox[d]
                    /\ ((d \in holding)' <=> d \in holding)
<1> DEFINE reached == {c \in to : Reachable(c)}
           behind == {c \in reached : ~HasRoom(c, from)}
           holds(c) == c \in reached \ behind /\ Waits(c, from)
           takes(c) == c \in reached \ behind /\ ~Waits(c, from)
<1>1. /\ held' = [c \in Conns |-> IF c \in behind THEN <<>>
                                  ELSE IF holds(c) THEN Append(held[c], item) ELSE held[c]]
      /\ outbox' = [c \in Conns |-> IF takes(c) THEN Append(outbox[c], item) ELSE outbox[c]]
      /\ place' = place
      /\ cut' = (cut \union behind) \intersect place'
      /\ holding' = holding \ behind
      /\ joined' = joined \intersect place'
  BY DEF Deliver, KeepsPlace
<1>2. behind \subseteq place /\ reached \subseteq place /\ place \subseteq Conns
  BY DEF Reachable, SocketsTypeOK
<1>3. place' = place /\ joined' = joined /\ cut' \subseteq place /\ holding' \subseteq place
  BY <1>1, <1>2 DEF SocketsTypeOK
<1>4. /\ held \in [Conns -> Seq(Item)] /\ outbox \in [Conns -> Seq(Item)] /\ Queue \in Nat
      /\ \A d \in Conns : Len(held[d]) <= Queue /\ Len(outbox[d]) <= Queue
  BY SocketsAssumption DEF SocketsTypeOK
<1>5. ASSUME NEW d \in Conns
      PROVE  /\ held'[d] \in Seq(Item) /\ outbox'[d] \in Seq(Item)
             /\ Len(held'[d]) <= Queue /\ Len(outbox'[d]) <= Queue
  <2> HIDE DEF behind, holds, takes
  <2>1. CASE takes(d)
    <3>1. Len(outbox[d]) < Queue /\ d \notin behind /\ ~holds(d)
      BY <2>1 DEF takes, holds, behind, HasRoom
    <3> QED BY <3>1, <2>1, <1>1, <1>4
  <2>2. CASE holds(d)
    <3>1. Len(held[d]) < Queue - Len(outbox[d]) /\ d \notin behind /\ ~takes(d)
      BY <2>2 DEF takes, holds, behind, HasRoom
    <3>2. Len(held[d]) < Queue
      BY <3>1, <1>4
    <3> QED BY <3>1, <3>2, <2>2, <1>1, <1>4
  <2>3. CASE ~takes(d) /\ ~holds(d)
    <3>1. held'[d] = IF d \in behind THEN <<>> ELSE held[d]
      BY <2>3, <1>1
    <3>2. outbox'[d] = outbox[d]
      BY <2>3, <1>1
    <3> QED BY <3>1, <3>2, <1>4
  <2> QED BY <2>1, <2>2, <2>3
<1>6. held' \in [Conns -> Seq(Item)] /\ outbox' \in [Conns -> Seq(Item)]
  <2> HIDE DEF behind, holds, takes
  <2>1. held' = [c \in Conns |-> held'[c]] /\ outbox' = [c \in Conns |-> outbox'[c]]
    BY <1>1
  <2> QED BY <2>1, <1>5
<1>7. ASSUME NEW d \in Conns
      PROVE  /\ (Reachable(d)' <=> Reachable(d) /\ d \notin behind)
             /\ ((d \in holding)' <=> d \in holding /\ d \notin behind)
  BY <1>1, <1>2 DEF Reachable
<1>8. ASSUME NEW d \in Conns
      PROVE \/ /\ d \in to /\ Reachable(d) /\ Reachable(d)' /\ Waits(d, from)
               /\ held'[d] = Append(held[d], item) /\ outbox'[d] = outbox[d]
               /\ ((d \in holding)' <=> d \in holding)
            \/ /\ d \in to /\ Reachable(d) /\ Reachable(d)' /\ ~Waits(d, from)
               /\ outbox'[d] = Append(outbox[d], item) /\ held'[d] = held[d]
               /\ ((d \in holding)' <=> d \in holding)
            \/ /\ d \in to /\ Reachable(d) /\ ~Reachable(d)' /\ ~HasRoom(d, from)
               /\ held'[d] = <<>> /\ outbox'[d] = outbox[d]
            \/ /\ ~(d \in to /\ Reachable(d)) /\ (Reachable(d)' <=> Reachable(d))
               /\ held'[d] = held[d] /\ outbox'[d] = outbox[d]
               /\ ((d \in holding)' <=> d \in holding)
  <2>1. CASE d \in behind
    <3>1. ~takes(d) /\ d \in to /\ Reachable(d) /\ ~HasRoom(d, from)
      BY <2>1
    <3> HIDE DEF behind, holds, takes
    <3> QED BY <2>1, <3>1, <1>1, <1>7
  <2>2. CASE d \notin behind /\ holds(d)
    <3>1. ~takes(d) /\ d \in to /\ Reachable(d) /\ Waits(d, from)
      BY <2>2
    <3> HIDE DEF behind, holds, takes
    <3> QED BY <2>2, <3>1, <1>1, <1>7
  <2>3. CASE takes(d)
    <3>1. ~holds(d) /\ d \in to /\ Reachable(d) /\ ~Waits(d, from) /\ d \notin behind
      BY <2>3
    <3> HIDE DEF behind, holds, takes
    <3> QED BY <2>3, <3>1, <1>1, <1>7
  <2>4. CASE d \notin behind /\ ~holds(d) /\ ~takes(d)
    <3>1. ~(d \in to /\ Reachable(d))
      BY <2>4
    <3> HIDE DEF behind, holds, takes
    <3> QED BY <2>4, <3>1, <1>1, <1>7
  <2> QED BY <2>1, <2>2, <2>3, <2>4
<1> HIDE DEF behind, holds, takes
<1> QED BY <1>3, <1>5, <1>6, <1>8

\* Who is being let in has its place, and no worker yet.
OpeningShape(c) ==
    /\ step[c] \in {"connecting", "joined", "read", "greeted"} => c \in place
    /\ step[c] \in {"away"} \union Opening => worker[c] = "none"
    /\ step[c] = "read" => Len(inHand[c]) = 1

SocketsTypes == SocketsTypeOK /\ \A c \in Conns : OpeningShape(c)

LEMMA SocketsInitTypes == SocketsInit => SocketsTypes
<1> SUFFICES ASSUME SocketsInit PROVE SocketsTypes
  OBVIOUS
<1>0. Queue \in Nat /\ Publishes \in Nat /\ Frames \in Nat /\ "away" \in SocketSteps
      /\ "away" \notin {"connecting", "joined", "read", "greeted"}
  BY SocketsAssumption DEF SocketSteps
<1>1. hidden \in BOOLEAN /\ published \in 0..Publishes /\ place = {} /\ joined = {} /\ cut = {} /\ holding = {}
  <2>1. hidden = FALSE /\ published = 0 /\ place = {} /\ joined = {} /\ cut = {} /\ holding = {}
    BY DEF SocketsInit
  <2>2. hidden \in BOOLEAN
    BY <2>1
  <2>3. published \in 0..Publishes
    BY <1>0, <2>1
  <2> QED BY <2>1, <2>2, <2>3
<1>2. /\ \A q \in {held, outbox, inHand, got} : q = [c \in Conns |-> <<>>]
      /\ inbox = [c \in Conns |-> <<>>]
  BY DEF SocketsInit, NoFrame
<1>3. /\ step = [c \in Conns |-> "away"] /\ heard = [c \in Conns |-> 0]
      /\ sawEnd = [c \in Conns |-> FALSE] /\ worker = [c \in Conns |-> "none"]
  BY DEF SocketsInit
<1>4. {held, outbox, inHand, got} \subseteq [Conns -> Seq(Item)] /\ inbox \in [Conns -> Seq({"message", "close"})]
  <2>1. [c \in Conns |-> <<>>] \in [Conns -> Seq(Item)] /\ [c \in Conns |-> <<>>] \in [Conns -> Seq({"message", "close"})]
    OBVIOUS
  <2>2. \A q \in {held, outbox, inHand, got} : q \in [Conns -> Seq(Item)]
    BY <1>2, <2>1
  <2> QED BY <1>2, <2>1, <2>2
<1>5. \A c \in Conns : Len(held[c]) <= Queue /\ Len(outbox[c]) <= Queue
  BY <1>2, <1>0
<1>6. sawEnd \in [Conns -> BOOLEAN]
  BY <1>3
<1>7. /\ step \in [Conns -> SocketSteps] /\ heard \in [Conns -> 0..Frames]
      /\ worker \in [Conns -> {"none", "idle", "message", "close", "done"}]
  BY <1>0, <1>3
<1>8. \A c \in Conns : OpeningShape(c)
  BY <1>3 DEF OpeningShape
<1> QED BY <1>1, <1>4, <1>5, <1>6, <1>7, <1>8 DEF SocketsTypes, SocketsTypeOK

\* A connection another one's step leaves alone.
LEMMA OpeningStays ==
    ASSUME NEW d, OpeningShape(d), step'[d] = step[d], worker'[d] = worker[d],
           inHand'[d] = inHand[d], d \in place => d \in place'
    PROVE  OpeningShape(d)'
BY DEF OpeningShape

\* Every step keeps the types.
LEMMA SocketsStepTypes ==
    ASSUME SocketsTypes, [SocketsNext]_socketsVars
    PROVE  SocketsTypes'
<1>0. /\ Queue \in Nat \ {0} /\ Publishes \in Nat /\ Frames \in Nat
      /\ SocketSteps = {"away", "over"} \union Opening \union Looping \union Ending
  BY SocketsAssumption DEF SocketSteps
<1>01. /\ held \in [Conns -> Seq(Item)] /\ outbox \in [Conns -> Seq(Item)]
       /\ inHand \in [Conns -> Seq(Item)] /\ got \in [Conns -> Seq(Item)]
       /\ SocketsTypeOK /\ \A d \in Conns : OpeningShape(d)
  BY DEF SocketsTypeOK, SocketsTypes
<1>02. ASSUME NEW c \in Conns, Over(c)
       PROVE  /\ step' \in [Conns -> SocketSteps]
              /\ outbox' \in [Conns -> Seq(Item)]
              /\ inHand' \in [Conns -> Seq(Item)]
              /\ got' \in [Conns -> Seq(Item)]
              /\ heard' \in [Conns -> 0..Frames]
              /\ sawEnd' \in [Conns -> BOOLEAN]
              /\ inbox' \in [Conns -> Seq({"message", "close"})]
              /\ worker' \in [Conns -> {"none", "idle", "message", "close", "done"}]
              /\ \A d \in Conns : Len(outbox'[d]) <= Queue
  BY <1>02, <1>0, <1>01 DEF Over, SocketsTypeOK, NoFrame
<1>03. ASSUME NEW c \in Conns, Forget(c)
       PROVE  /\ place' \subseteq Conns
              /\ joined' \subseteq place' /\ cut' \subseteq place' /\ holding' \subseteq place'
              /\ held' \in [Conns -> Seq(Item)]
              /\ \A d \in Conns : Len(held'[d]) <= Queue
  BY <1>03, <1>0, <1>01 DEF Forget, SocketsTypeOK
<1>04. ASSUME NEW c \in Conns, NEW a, NEW b \in SocketSteps, LoopGoes(c, a, b)
       PROVE  /\ step' \in [Conns -> SocketSteps] /\ step[c] = a /\ step'[c] = b
              /\ \A d \in Conns : d # c => step'[d] = step[d]
  BY <1>04, <1>01 DEF LoopGoes, SocketsTypeOK
<1>05. ASSUME NEW c \in Conns, outbox[c] # <<>>
       PROVE  /\ Tail(outbox[c]) \in Seq(Item) /\ Head(outbox[c]) \in Item
              /\ Len(Tail(outbox[c])) <= Queue /\ <<Head(outbox[c])>> \in Seq(Item)
  <2>1. outbox[c] \in Seq(Item) /\ Len(outbox[c]) <= Queue /\ Queue \in Nat
    BY <1>0, <1>01 DEF SocketsTypeOK
  <2> QED BY <2>1, <1>05
<1>06. {"away", "over", "admitted", "connecting", "joined", "read", "greeted", "accepted", "select",
        "sending", "pinging", "parting", "leaving", "waits", "drains", "drainSends", "drained",
        "flushes", "flushSends"} \subseteq SocketSteps
  BY DEF SocketSteps, Opening, Looping, Ending
<1>07. ASSUME NEW c \in Conns, Over(c)
       PROVE  /\ step'[c] = "over" /\ worker'[c] = "none"
              /\ \A d \in Conns : d # c => step'[d] = step[d] /\ worker'[d] = worker[d] /\ inHand'[d] = inHand[d]
  BY <1>07, <1>01 DEF Over, SocketsTypeOK
<1>08. ASSUME NEW d, step'[d] \notin {"away"} \union Opening PROVE OpeningShape(d)'
  BY <1>08 DEF OpeningShape, Opening
<1> HIDE DEF SocketSteps
<1>09. ASSUME NEW c \in Conns, NEW a, NEW b \in SocketSteps, LoopGoes(c, a, b), b \notin {"away"} \union Opening,
              Sent(c) \/ NotSent(c)
       PROVE  SocketsTypeOK' /\ \A d \in Conns : OpeningShape(d)'
  <2>1. /\ inHand' \in [Conns -> Seq(Item)] /\ got' \in [Conns -> Seq(Item)]
        /\ \A d \in Conns : d # c => inHand'[d] = inHand[d]
    <3>1. inHand' = [inHand EXCEPT ![c] = <<>>]
      BY <1>09 DEF Sent, NotSent, NoFrame
    <3>2. got' = got \/ got' = [got EXCEPT ![c] = got[c] \o inHand[c]]
      BY <1>09 DEF Sent, NotSent
    <3>3. <<>> \in Seq(Item) /\ got[c] \o inHand[c] \in Seq(Item)
      BY <1>01
    <3> QED BY <3>1, <3>2, <3>3, <1>01
  <2>2. UNCHANGED <<hidden, published, registry, heard, sawEnd, inbox, worker>>
    BY <1>09 DEF Sent, NotSent
  <2>3. SocketsTypeOK'
    BY <2>1, <2>2, <1>01, <1>04, <1>09 DEF registry, SocketsTypeOK
  <2>4. OpeningShape(c)'
    BY <1>04, <1>08, <1>09
  <2> QED BY <2>1, <2>2, <2>3, <2>4, <1>01, <1>04, <1>09, OpeningStays DEF registry
<1>10. ASSUME NEW c \in Conns, NEW a, NEW b \in SocketSteps, LoopGoes(c, a, b), b \notin {"away"} \union Opening,
              UNCHANGED <<hidden, published, registry, inHand, got, heard, sawEnd, inbox, worker>>
       PROVE  SocketsTypeOK' /\ \A d \in Conns : OpeningShape(d)'
  <2>1. SocketsTypeOK'
    BY <1>01, <1>04, <1>10 DEF registry, SocketsTypeOK
  <2>2. OpeningShape(c)'
    BY <1>04, <1>08, <1>10
  <2> QED BY <2>1, <2>2, <1>01, <1>04, <1>10, OpeningStays DEF registry
<1>11. ASSUME NEW c \in Conns, Over(c), UNCHANGED <<hidden, published, place, joined, cut, holding, held>>
       PROVE  SocketsTypeOK' /\ \A d \in Conns : OpeningShape(d)'
  <2>1. SocketsTypeOK'
    BY <1>01, <1>02, <1>11 DEF SocketsTypeOK
  <2>2. OpeningShape(c)'
    BY <1>07, <1>08, <1>11 DEF Opening
  <2> QED BY <2>1, <2>2, <1>01, <1>07, <1>11, OpeningStays
<1> SUFFICES SocketsTypeOK' /\ \A d \in Conns : OpeningShape(d)'
  BY DEF SocketsTypes
<1>1. CASE Publish
  <2>1. published \in 0..Publishes /\ published < Publishes /\ published + 1 \in 1..Publishes
        /\ published + 1 \in 0..Publishes
    BY <1>1, <1>0, <1>01 DEF Publish, SocketsTypeOK
  <2>2. Told(published + 1) \in Item
    BY <2>1, ItemType
  <2>3. Deliver(joined, Told(published + 1), "others")
    BY <1>1 DEF Publish
  <2>4. SocketsTypeOK'
    BY <2>1, <2>2, <2>3, <1>1, <1>01, Delivered DEF Publish, SocketsTypeOK
  <2> QED BY <2>2, <2>3, <2>4, <1>1, <1>01, Delivered DEF Publish, OpeningShape
<1>2. CASE Hide
  <2>1. Goodbye \in Item
    BY ItemType
  <2>2. Deliver(place, Goodbye, "others")
    BY <1>2 DEF Hide
  <2>3. SocketsTypeOK'
    BY <2>1, <2>2, <1>2, <1>01, Delivered DEF Hide, SocketsTypeOK
  <2> QED BY <2>1, <2>2, <2>3, <1>2, <1>01, Delivered DEF Hide, OpeningShape
<1>3. ASSUME NEW c \in Conns, Opens(c) PROVE SocketsTypeOK' /\ \A d \in Conns : OpeningShape(d)'
  <2>1. CASE PassesDoor(c)
    <3>1. LoopGoes(c, "away", "admitted")
      BY <2>1 DEF PassesDoor
    <3>2. SocketsTypeOK'
      BY <2>1, <3>1, <1>01, <1>04, <1>06 DEF PassesDoor, registry, SocketsTypeOK
    <3>3. OpeningShape(c)'
      BY <2>1, <3>1, <1>01, <1>04, <1>06 DEF PassesDoor, registry, OpeningShape, Opening
    <3> QED BY <2>1, <3>1, <3>2, <3>3, <1>01, <1>04, <1>06, OpeningStays DEF PassesDoor, registry
  <2>2. CASE RegisterFrom(c)
    <3>1. LoopGoes(c, "admitted", "connecting") \/ LoopGoes(c, "admitted", "over")
      BY <2>2 DEF RegisterFrom
    <3>2. SocketsTypeOK'
      BY <2>2, <3>1, <1>01, <1>04, <1>06 DEF RegisterFrom, SocketsTypeOK
    <3>3. OpeningShape(c)'
      BY <2>2, <3>1, <1>01, <1>04, <1>06 DEF RegisterFrom, OpeningShape, Opening
    <3> QED BY <2>2, <3>1, <3>2, <3>3, <1>01, <1>04, <1>06, OpeningStays DEF RegisterFrom
  <2>3. CASE Join(c)
    <3>1. LoopGoes(c, "connecting", "joined")
      BY <2>3 DEF Join
    <3>2. c \in place
      BY <3>1, <1>01, <1>04, <1>06 DEF OpeningShape
    <3>3. SocketsTypeOK'
      BY <2>3, <3>1, <3>2, <1>01, <1>04, <1>06 DEF Join, SocketsTypeOK
    <3>4. OpeningShape(c)'
      BY <2>3, <3>1, <3>2, <1>01, <1>04, <1>06 DEF Join, OpeningShape, Opening
    <3> QED BY <2>3, <3>1, <3>3, <3>4, <1>01, <1>04, <1>06, OpeningStays DEF Join
  <2>4. CASE ReadSnapshot(c)
    <3>1. LoopGoes(c, "joined", "read")
      BY <2>4 DEF ReadSnapshot
    <3>2. <<Snapshot(published)>> \in Seq(Item) /\ Len(<<Snapshot(published)>>) = 1
      BY <1>01, ItemType DEF SocketsTypeOK
    <3>3. /\ inHand' \in [Conns -> Seq(Item)] /\ Len(inHand'[c]) = 1
          /\ \A d \in Conns : d # c => inHand'[d] = inHand[d]
      <4> DEFINE s == <<Snapshot(published)>>
      <4>1. inHand' = [inHand EXCEPT ![c] = s]
        BY <2>4 DEF ReadSnapshot
      <4> HIDE DEF s
      <4>2. inHand' \in [Conns -> Seq(Item)] /\ inHand'[c] = s
        BY <3>2, <4>1, <1>01 DEF s
      <4> QED BY <3>2, <4>1, <4>2, <1>01 DEF s
    <3>4. SocketsTypeOK'
      BY <2>4, <3>1, <3>3, <1>01, <1>04, <1>06 DEF ReadSnapshot, registry, SocketsTypeOK
    <3> QED BY <2>4, <3>1, <3>3, <3>4, <1>01, <1>04, <1>06, OpeningStays DEF ReadSnapshot, registry, OpeningShape, Opening
  <2>5. CASE Greet(c)
    <3>1. LoopGoes(c, "read", "greeted") /\ Deliver({c}, inHand[c][1], c)
      BY <2>5 DEF Greet
    <3>2. inHand[c][1] \in Item
      BY <3>1, <1>01, <1>04, <1>06 DEF OpeningShape
    <3>3. inHand' \in [Conns -> Seq(Item)] /\ \A d \in Conns : d # c => inHand'[d] = inHand[d]
      BY <2>5, <1>01 DEF Greet, NoFrame
    <3>0. /\ place' = place /\ joined' = joined /\ cut' \subseteq place /\ holding' \subseteq place
          /\ held' \in [Conns -> Seq(Item)] /\ outbox' \in [Conns -> Seq(Item)]
          /\ \A d \in Conns : Len(held'[d]) <= Queue /\ Len(outbox'[d]) <= Queue
      BY <3>1, <3>2, <1>01, Delivered
    <3>4. SocketsTypeOK'
      BY <2>5, <3>0, <3>1, <3>3, <1>01, <1>04, <1>06 DEF Greet, SocketsTypeOK
    <3>5. place' = place
      BY <3>1, <3>2, <1>01, Delivered
    <3> QED BY <2>5, <3>1, <3>3, <3>4, <3>5, <1>01, <1>04, <1>06, OpeningStays DEF Greet, OpeningShape, Opening
  <2>6. CASE Refused(c) \/ UpgradeLost(c)
    <3>1. Forget(c) /\ Over(c) /\ UNCHANGED <<hidden, published>>
      BY <2>6 DEF Refused, UpgradeLost
    <3>2. SocketsTypeOK'
      BY <3>1, <1>01, <1>02, <1>03 DEF SocketsTypeOK
    <3>3. \A d \in Conns : d # c /\ d \in place => d \in place'
      BY <3>1 DEF Forget
    <3>4. OpeningShape(c)'
      BY <3>1, <1>07, <1>08 DEF Opening
    <3> QED BY <3>1, <3>2, <3>3, <3>4, <1>01, <1>07, OpeningStays
  <2>7. CASE Accept(c)
    <3> DEFINE room == Queue - Len(outbox[c])
               k == IF Len(held[c]) < room THEN Len(held[c]) ELSE room
               flushed == SubSeq(held[c], 1, k)
    <3>1. /\ LoopGoes(c, "greeted", "accepted")
          /\ holding' = holding \ {c} /\ held' = [held EXCEPT ![c] = <<>>]
          /\ outbox' = [outbox EXCEPT ![c] = outbox[c] \o flushed]
          /\ cut' = (IF Len(held[c]) > room THEN cut \union {c} ELSE cut)
      BY <2>7 DEF Accept
    <3>2. k \in 0..Len(held[c]) /\ Len(outbox[c]) + k <= Queue /\ held[c] \in Seq(Item) /\ outbox[c] \in Seq(Item)
      BY <1>0, <1>01 DEF SocketsTypeOK
    <3>3. flushed \in Seq(Item) /\ Len(flushed) = k
      <4> HIDE DEF k
      <4> QED BY <3>2
    <3> HIDE DEF flushed, k
    <3>4. outbox[c] \o flushed \in Seq(Item) /\ Len(outbox[c] \o flushed) <= Queue
      BY <3>2, <3>3
    <3>5. outbox' \in [Conns -> Seq(Item)] /\ \A d \in Conns : Len(outbox'[d]) <= Queue
      BY <3>1, <3>4, <1>01 DEF SocketsTypeOK
    <3>6. held' \in [Conns -> Seq(Item)] /\ \A d \in Conns : Len(held'[d]) <= Queue
      BY <3>1, <1>0, <1>01 DEF SocketsTypeOK
    <3>7. c \in place
      BY <3>1, <1>01, <1>04, <1>06 DEF OpeningShape
    <3>8. SocketsTypeOK'
      BY <2>7, <3>1, <3>5, <3>6, <3>7, <1>01, <1>04, <1>06 DEF Accept, SocketsTypeOK
    <3>9. OpeningShape(c)'
      <4>1. step[c] = "greeted" /\ step'[c] = "accepted"
        BY <3>1, <1>04, <1>06
      <4>2. worker[c] = "none" /\ worker' = worker
        BY <2>7, <4>1, <1>01 DEF Accept, OpeningShape, Opening
      <4> QED BY <4>1, <4>2 DEF OpeningShape
    <3> QED BY <2>7, <3>1, <3>8, <3>9, <1>01, <1>04, <1>06, OpeningStays DEF Accept
  <2>8. CASE RunBegins(c)
    <3>1. LoopGoes(c, "accepted", "select")
      BY <2>8 DEF RunBegins
    <3>2. SocketsTypeOK'
      BY <2>8, <3>1, <1>01, <1>04, <1>06 DEF RunBegins, registry, SocketsTypeOK
    <3>3. OpeningShape(c)'
      BY <3>1, <1>04, <1>06, <1>08 DEF Opening
    <3>4. \A d \in Conns : d # c => worker'[d] = worker[d]
      BY <2>8, <1>01 DEF RunBegins, SocketsTypeOK
    <3> QED BY <2>8, <3>1, <3>2, <3>3, <3>4, <1>01, <1>04, <1>06, OpeningStays DEF RunBegins, registry
  <2> QED BY <1>3, <2>1, <2>2, <2>3, <2>4, <2>5, <2>6, <2>7, <2>8 DEF Opens
<1>4. ASSUME NEW c \in Conns, Loops(c) PROVE SocketsTypeOK' /\ \A d \in Conns : OpeningShape(d)'
  <2>1. CASE TakeOut(c)
    <3>1. LoopGoes(c, "select", "parting") \/ LoopGoes(c, "select", "sending")
      BY <2>1 DEF TakeOut
    <3>2. outbox' \in [Conns -> Seq(Item)] /\ \A d \in Conns : Len(outbox'[d]) <= Queue
      BY <2>1, <1>01, <1>05 DEF TakeOut, SocketsTypeOK
    <3>3. CASE outbox[c] = <<>>
      <4>1. inHand' = inHand \/ inHand' = [inHand EXCEPT ![c] = <<Head(outbox[c])>>]
        BY <2>1 DEF TakeOut
      <4>2. c \in cut
        BY <2>1, <3>3 DEF TakeOut
      <4>3. inHand' = inHand
        BY <2>1, <4>2 DEF TakeOut
      <4>4. SocketsTypeOK'
        BY <2>1, <3>1, <3>2, <4>3, <1>01, <1>04, <1>06 DEF TakeOut, SocketsTypeOK
      <4>5. OpeningShape(c)'
        BY <3>1, <1>04, <1>06, <1>08 DEF Opening
      <4> QED BY <2>1, <3>1, <4>3, <4>4, <4>5, <1>01, <1>04, <1>06, OpeningStays DEF TakeOut
    <3>4. CASE outbox[c] # <<>>
      <4>1. inHand' = inHand \/ inHand' = [inHand EXCEPT ![c] = <<Head(outbox[c])>>]
        BY <2>1 DEF TakeOut
      <4>2. inHand' \in [Conns -> Seq(Item)] /\ \A d \in Conns : d # c => inHand'[d] = inHand[d]
        BY <3>4, <4>1, <1>01, <1>05
      <4>4. SocketsTypeOK'
        BY <2>1, <3>1, <3>2, <4>2, <1>01, <1>04, <1>06 DEF TakeOut, SocketsTypeOK
      <4>5. OpeningShape(c)'
        BY <3>1, <1>04, <1>06, <1>08 DEF Opening
      <4> QED BY <2>1, <3>1, <4>2, <4>4, <4>5, <1>01, <1>04, <1>06, OpeningStays DEF TakeOut
    <3> QED BY <3>3, <3>4
  <2>2. CASE SendDone(c)
    <3>1. LoopGoes(c, "sending", "select") /\ Sent(c)
      BY <2>2 DEF SendDone
    <3> QED BY <3>1, <1>09, <1>04, <1>06 DEF Opening
  <2>3. CASE SendFails(c)
    <3>1. LoopGoes(c, "sending", "leaving") /\ NotSent(c)
      BY <2>3 DEF SendFails
    <3> QED BY <3>1, <1>09, <1>04, <1>06 DEF Opening
  <2>4. CASE Hear(c)
    <3>1. step' = step \/ LoopGoes(c, "select", "parting")
      BY <2>4 DEF Hear
    <3>2. step[c] = "select"
      BY <2>4 DEF Hear, LoopGoes
    <3>3. inbox' \in [Conns -> Seq({"message", "close"})]
      <4>1. inbox[c] \in Seq({"message", "close"})
        BY <1>01 DEF SocketsTypeOK
      <4>2. Append(inbox[c], "message") \in Seq({"message", "close"})
        BY <4>1
      <4> QED BY <2>4, <4>2, <1>01 DEF Hear, SocketsTypeOK
    <3>4. heard' \in [Conns -> 0..Frames]
      BY <2>4, <1>0, <1>01 DEF Hear, SocketsTypeOK
    <3>5. SocketsTypeOK'
      BY <2>4, <3>1, <3>3, <3>4, <1>01, <1>04, <1>06 DEF Hear, registry, SocketsTypeOK
    <3>6. OpeningShape(c)'
      BY <3>1, <3>2, <1>04, <1>06, <1>08 DEF Opening
    <3> QED BY <2>4, <3>1, <3>5, <3>6, <1>01, <1>04, <1>06, OpeningStays DEF Hear, registry
  <2>5. CASE PeerEnds(c)
    <3>1. LoopGoes(c, "select", "leaving")
      BY <2>5 DEF PeerEnds
    <3>2. sawEnd' \in [Conns -> BOOLEAN]
      BY <2>5, <1>01 DEF PeerEnds, SocketsTypeOK
    <3>3. SocketsTypeOK'
      BY <2>5, <3>1, <3>2, <1>01, <1>04, <1>06 DEF PeerEnds, registry, SocketsTypeOK
    <3>6. OpeningShape(c)'
      BY <3>1, <1>04, <1>06, <1>08 DEF Opening
    <3> QED BY <2>5, <3>1, <3>3, <3>6, <1>01, <1>04, <1>06, OpeningStays DEF PeerEnds, registry
  <2>6. CASE Check(c) \/ PingDone(c) \/ PartDone(c)
    <3>1. PICK a \in Looping, b \in {"parting", "pinging", "leaving", "select"} : LoopGoes(c, a, b)
      BY <2>6 DEF Check, PingDone, PartDone, Looping
    <3>2. UNCHANGED <<hidden, published, registry, inHand, got, heard, sawEnd, inbox, worker>>
      BY <2>6 DEF Check, PingDone, PartDone
    <3> QED BY <3>1, <3>2, <1>10, <1>06 DEF Opening
  <2> QED BY <1>4, <2>1, <2>2, <2>3, <2>4, <2>5, <2>6 DEF Loops
<1>5. ASSUME NEW c \in Conns, RunsOut(c) PROVE SocketsTypeOK' /\ \A d \in Conns : OpeningShape(d)'
  <2>1. CASE SendClose(c)
    <3>1. PICK b \in {"drains", "waits"} : LoopGoes(c, "leaving", b)
      BY <2>1 DEF SendClose
    <3>2. inbox' \in [Conns -> Seq({"message", "close"})]
      <4>1. inbox[c] \in Seq({"message", "close"})
        BY <1>01 DEF SocketsTypeOK
      <4>2. Append(inbox[c], "close") \in Seq({"message", "close"})
        BY <4>1
      <4> QED BY <2>1, <4>2, <1>01 DEF SendClose, SocketsTypeOK
    <3>3. SocketsTypeOK'
      BY <2>1, <3>1, <3>2, <1>01, <1>04, <1>06 DEF SendClose, registry, SocketsTypeOK
    <3>6. OpeningShape(c)'
      BY <3>1, <1>04, <1>06, <1>08 DEF Opening
    <3> QED BY <2>1, <3>1, <3>3, <3>6, <1>01, <1>04, <1>06, OpeningStays DEF SendClose, registry
  <2>2. CASE Draining(c)
    <3>1. LoopGoes(c, "drains", "drainSends") \/ LoopGoes(c, "drains", "drained")
      BY <2>2 DEF Draining
    <3>2. outbox' \in [Conns -> Seq(Item)] /\ \A d \in Conns : Len(outbox'[d]) <= Queue
      BY <2>2, <1>01, <1>05 DEF Draining, SocketsTypeOK
    <3>3. inHand' = inHand \/ (outbox[c] # <<>> /\ inHand' = [inHand EXCEPT ![c] = <<Head(outbox[c])>>])
      BY <2>2 DEF Draining
    <3>4. inHand' \in [Conns -> Seq(Item)] /\ \A d \in Conns : d # c => inHand'[d] = inHand[d]
      BY <3>3, <1>01, <1>05
    <3>5. SocketsTypeOK'
      BY <2>2, <3>1, <3>2, <3>4, <1>01, <1>04, <1>06 DEF Draining, SocketsTypeOK
    <3>6. OpeningShape(c)'
      BY <3>1, <1>04, <1>06, <1>08 DEF Opening
    <3> QED BY <2>2, <3>1, <3>4, <3>5, <3>6, <1>01, <1>04, <1>06, OpeningStays DEF Draining
  <2>3. CASE DrainSendDone(c) \/ FlushSendDone(c)
    <3>1. PICK a \in Ending, b \in {"drains", "flushes"} : LoopGoes(c, a, b)
      BY <2>3 DEF DrainSendDone, FlushSendDone, Ending
    <3>2. Sent(c)
      BY <2>3 DEF DrainSendDone, FlushSendDone
    <3> QED BY <3>1, <3>2, <1>09, <1>04, <1>06 DEF Opening
  <2>4. CASE DrainSendFails(c)
    <3>1. LoopGoes(c, "drainSends", "drained") /\ NotSent(c)
      BY <2>4 DEF DrainSendFails
    <3> QED BY <3>1, <1>09, <1>04, <1>06 DEF Opening
  <2>5. CASE WorkerSeen(c)
    <3>1. CASE Over(c)
      BY <2>5, <3>1, <1>11 DEF WorkerSeen
    <3>2. CASE LoopGoes(c, "drains", "flushes") /\ UNCHANGED <<inHand, got, heard, sawEnd, inbox, worker, outbox>>
      BY <2>5, <3>2, <1>10, <1>06 DEF WorkerSeen, registry, Opening
    <3> QED BY <2>5, <3>1, <3>2 DEF WorkerSeen
  <2>6. CASE Flush(c)
    <3>1. CASE Over(c)
      BY <2>6, <3>1, <1>11 DEF Flush
    <3>2. CASE ~Over(c)
      <4>1. outbox[c] # <<>> /\ step' = [step EXCEPT ![c] = "flushSends"]
            /\ inHand' = [inHand EXCEPT ![c] = <<Head(outbox[c])>>]
            /\ outbox' = [outbox EXCEPT ![c] = Tail(outbox[c])]
            /\ UNCHANGED <<got, heard, sawEnd, inbox, worker>>
        BY <2>6, <3>2 DEF Flush
      <4>2. LoopGoes(c, "flushes", "flushSends")
        BY <4>1, <2>6 DEF Flush, LoopGoes
      <4>3. outbox' \in [Conns -> Seq(Item)] /\ \A d \in Conns : Len(outbox'[d]) <= Queue
        BY <4>1, <1>01, <1>05 DEF SocketsTypeOK
      <4>4. inHand' \in [Conns -> Seq(Item)] /\ \A d \in Conns : d # c => inHand'[d] = inHand[d]
        BY <4>1, <1>01, <1>05
      <4>5. SocketsTypeOK'
        BY <2>6, <4>1, <4>2, <4>3, <4>4, <1>01, <1>04, <1>06 DEF Flush, SocketsTypeOK
      <4>6. OpeningShape(c)'
        BY <4>2, <1>04, <1>06, <1>08 DEF Opening
      <4> QED BY <2>6, <4>1, <4>2, <4>4, <4>5, <4>6, <1>01, <1>04, <1>06, OpeningStays DEF Flush
    <3> QED BY <3>1, <3>2
  <2>7. CASE FlushSendFails(c)
    BY <2>7, <1>11 DEF FlushSendFails
  <2> QED BY <1>5, <2>1, <2>2, <2>3, <2>4, <2>5, <2>6, <2>7 DEF RunsOut
<1>6. ASSUME NEW c \in Conns, Works(c) PROVE SocketsTypeOK' /\ \A d \in Conns : OpeningShape(d)'
  <2>0. worker[c] # "none" /\ step' = step /\ inHand' = inHand
        /\ \A d \in Conns : d # c => worker'[d] = worker[d]
    BY <1>6, <1>01 DEF Works, WorkerTakes, WorkerAnswers, WorkerCloses, WorkerEnds, SocketsTypeOK
  <2>01. OpeningShape(c)'
    BY <2>0, <1>01, <1>08 DEF OpeningShape
  <2>1. CASE WorkerTakes(c)
    <3>1. inbox[c] \in Seq({"message", "close"}) /\ inbox[c] # <<>>
      BY <2>1, <1>01 DEF WorkerTakes, SocketsTypeOK
    <3>2. Head(inbox[c]) \in {"message", "close"} /\ Tail(inbox[c]) \in Seq({"message", "close"})
      BY <3>1
    <3>3. inbox' \in [Conns -> Seq({"message", "close"})]
      BY <2>1, <3>2, <1>01 DEF WorkerTakes, SocketsTypeOK
    <3>4. worker' \in [Conns -> {"none", "idle", "message", "close", "done"}]
      BY <2>1, <3>2, <1>01 DEF WorkerTakes, SocketsTypeOK
    <3>5. SocketsTypeOK'
      BY <2>1, <3>3, <3>4, <1>01 DEF WorkerTakes, registry, SocketsTypeOK
    <3> QED BY <2>0, <2>01, <2>1, <3>5, <1>01, OpeningStays DEF WorkerTakes, registry
  <2>2. CASE WorkerAnswers(c)
    <3>1. SocketsTypeOK'
      BY <2>2, <1>01 DEF WorkerAnswers, registry, SocketsTypeOK
    <3> QED BY <2>0, <2>01, <2>2, <3>1, <1>01, OpeningStays DEF WorkerAnswers, registry
  <2>3. CASE WorkerCloses(c)
    <3>1. Goodbye \in Item /\ Deliver({c}, Goodbye, "others")
      BY <2>3, ItemType DEF WorkerCloses
    <3>2. /\ place' = place /\ joined' = joined /\ cut' \subseteq place /\ holding' \subseteq place
          /\ held' \in [Conns -> Seq(Item)] /\ outbox' \in [Conns -> Seq(Item)]
          /\ \A d \in Conns : Len(held'[d]) <= Queue /\ Len(outbox'[d]) <= Queue
      BY <3>1, <1>01, Delivered
    <3>3. SocketsTypeOK'
      BY <2>3, <3>2, <1>01 DEF WorkerCloses, SocketsTypeOK
    <3> QED BY <2>0, <2>01, <3>2, <3>3, <1>01, OpeningStays
  <2>4. CASE WorkerEnds(c)
    <3>1. SocketsTypeOK'
      BY <2>4, <1>01, <1>03 DEF WorkerEnds, SocketsTypeOK
    <3>2. \A d \in Conns : d # c /\ d \in place => d \in place'
      BY <2>4 DEF WorkerEnds, Forget
    <3> QED BY <2>0, <2>01, <3>1, <3>2, <1>01, OpeningStays
  <2> QED BY <1>6, <2>1, <2>2, <2>3, <2>4 DEF Works
<1>7. CASE UNCHANGED socketsVars
  BY <1>7, <1>01 DEF socketsVars, SocketsTypeOK, OpeningShape
<1> QED BY <1>1, <1>2, <1>3, <1>4, <1>5, <1>6, <1>7 DEF SocketsNext

\* Queues, steps and events stay what they are, and no queue exceeds its length.
THEOREM SocketsTypeCorrect == SocketsSpec => []SocketsTypeOK
<1>1. SocketsTypes => SocketsTypeOK
  BY DEF SocketsTypes
<1> QED BY <1>1, SocketsInitTypes, SocketsStepTypes, PTL DEF SocketsSpec


-----------------------------------------------------------------------------
(* What a connection was sent, is being sent and is to be sent.             *)

OneLine(g, i, o, h) == g \o (i \o (o \o h))

LEMMA LineIsItems ==
    ASSUME NEW g \in Seq(Item), NEW i \in Seq(Item), NEW o \in Seq(Item), NEW h \in Seq(Item)
    PROVE  OneLine(g, i, o, h) \in Seq(Item)
BY DEF OneLine

\* A prefix of a concatenation.
LEMMA FirstPart ==
    ASSUME NEW g \in Seq(Item), NEW h \in Seq(Item)
    PROVE  StartOf(g, g \o h)
BY DEF StartOf

LEMMA NothingMore ==
    ASSUME NEW g \in Seq(Item)
    PROVE  g \o <<>> = g /\ <<>> \o g = g
OBVIOUS

LEMMA Regroup ==
    ASSUME NEW a \in Seq(Item), NEW b \in Seq(Item), NEW c \in Seq(Item)
    PROVE  a \o (b \o c) = (a \o b) \o c
BY ConcatAssociative

LEMMA AppendedLast ==
    ASSUME NEW a \in Seq(Item), NEW b \in Seq(Item), NEW x \in Item
    PROVE  a \o Append(b, x) = Append(a \o b, x) /\ a \o b \in Seq(Item)
OBVIOUS

LEMMA TakenOut ==
    ASSUME NEW g \in Seq(Item), NEW o \in Seq(Item), NEW h \in Seq(Item), o # <<>>
    PROVE  /\ OneLine(g, <<Head(o)>>, Tail(o), h) = OneLine(g, <<>>, o, h)
           /\ Head(o) \in Item /\ Tail(o) \in Seq(Item)
<1>1. Head(o) \in Item /\ Tail(o) \in Seq(Item) /\ <<Head(o)>> \in Seq(Item)
  OBVIOUS
<1>2. <<Head(o)>> \o Tail(o) = o
  OBVIOUS
<1>3. <<Head(o)>> \o (Tail(o) \o h) = (<<Head(o)>> \o Tail(o)) \o h
  BY <1>1, Regroup
<1>4. o \o h \in Seq(Item)
  OBVIOUS
<1> QED BY <1>1, <1>2, <1>3, <1>4, NothingMore DEF OneLine

LEMMA SentOn ==
    ASSUME NEW g \in Seq(Item), NEW i \in Seq(Item), NEW o \in Seq(Item), NEW h \in Seq(Item)
    PROVE  OneLine(g \o i, <<>>, o, h) = OneLine(g, i, o, h)
<1>1. o \o h \in Seq(Item)
  OBVIOUS
<1>2. <<>> \o (o \o h) = o \o h
  BY <1>1, NothingMore
<1>3. (g \o i) \o (o \o h) = g \o (i \o (o \o h))
  BY <1>1, Regroup
<1> QED BY <1>2, <1>3 DEF OneLine

LEMMA CutShort ==
    ASSUME NEW g \in Seq(Item), NEW i \in Seq(Item), NEW o \in Seq(Item), NEW h \in Seq(Item)
    PROVE  /\ StartOf(g, OneLine(g, i, o, h))
           /\ StartOf(OneLine(g, i, o, <<>>), OneLine(g, i, o, h))
<1>1. o \o h \in Seq(Item) /\ i \o (o \o h) \in Seq(Item) /\ i \o o \in Seq(Item) /\ g \o (i \o o) \in Seq(Item)
  OBVIOUS
<1>2. StartOf(g, OneLine(g, i, o, h))
  BY <1>1, FirstPart DEF OneLine
<1>3. OneLine(g, i, o, <<>>) = g \o (i \o o)
  BY NothingMore DEF OneLine
<1>4. OneLine(g, i, o, h) = (g \o (i \o o)) \o h
  <2>1. i \o (o \o h) = (i \o o) \o h
    BY Regroup
  <2> QED BY <2>1, <1>1, Regroup DEF OneLine
<1> QED BY <1>1, <1>2, <1>3, <1>4, FirstPart

LEMMA LetGo ==
    ASSUME NEW g \in Seq(Item), NEW i \in Seq(Item), NEW o \in Seq(Item), NEW h \in Seq(Item), NEW k \in 0..Len(h)
    PROVE  /\ StartOf(OneLine(g, i, o \o SubSeq(h, 1, k), <<>>), OneLine(g, i, o, h))
           /\ k = Len(h) => OneLine(g, i, o \o SubSeq(h, 1, k), <<>>) = OneLine(g, i, o, h)
<1> DEFINE f == SubSeq(h, 1, k)
           r == SubSeq(h, k + 1, Len(h))
<1>1. f \in Seq(Item) /\ r \in Seq(Item)
  OBVIOUS
<1>2. f \o r = h
  <2>1. k \in (1 - 1)..Len(h) /\ Len(h) \in k..Len(h) /\ 1 \in 1..(Len(h) + 1)
    OBVIOUS
  <2> QED BY <2>1, ConcatAdjacentSubSeq, SubSeqFull
<1>3. k = Len(h) => f = h
  OBVIOUS
<1> HIDE DEF f, r
<1>4. o \o f \in Seq(Item) /\ (o \o f) \o r = o \o h
  <2>1. o \o (f \o r) = (o \o f) \o r
    BY <1>1, Regroup
  <2>2. o \o f \in Seq(Item)
    BY <1>1
  <2> QED BY <2>1, <2>2, <1>2
<1>5. OneLine(g, i, o \o f, r) = OneLine(g, i, o, h)
  <2>1. o \o h \in Seq(Item)
    OBVIOUS
  <2> QED BY <1>4 DEF OneLine
<1>6. StartOf(OneLine(g, i, o \o f, <<>>), OneLine(g, i, o \o f, r))
  BY <1>1, <1>4, CutShort
<1>7. (o \o h) \o <<>> = o \o h
  <2>1. o \o h \in Seq(Item)
    OBVIOUS
  <2> QED BY <2>1, NothingMore
<1> QED BY <1>3, <1>5, <1>6, <1>7 DEF f, OneLine

LEMMA InHandFirst ==
    ASSUME NEW h \in Seq(Item), NEW s \in Item
    PROVE  /\ OneLine(<<>>, <<s>>, <<>>, h) = <<s>> \o OneLine(<<>>, <<>>, <<>>, h)
           /\ OneLine(<<>>, <<>>, <<s>>, h) = OneLine(<<>>, <<s>>, <<>>, h)
<1>1. <<>> \o h = h /\ <<s>> \o h \in Seq(Item) /\ <<s>> \in Seq(Item)
  OBVIOUS
<1>2. <<>> \o (<<s>> \o h) = <<s>> \o h
  BY <1>1, NothingMore
<1> QED BY <1>1, <1>2 DEF OneLine


-----------------------------------------------------------------------------
(* A line at each step of its connection.                                   *)

LineOf(c) == OneLine(got[c], inHand[c], outbox[c], held[c])

\* A line that is to be sent, and one the snapshot is still to be put before.
InOrder(line, n, reached) ==
    /\ SnapshotFirst(line) /\ NoneLost(line)
    /\ reached => TellsOf(line) /\ ToTheLast(line, n)

Following(line, n, reached) ==
    /\ ToldUpTo(line, n) /\ NoneLost(line)
    /\ reached => ToTheLast(line, n)

\* What waits may still all be sent.
Whole(c) ==
    \/ step[c] \in {"greeted", "accepted", "select", "sending", "pinging",
                    "drains", "drainSends", "flushes", "flushSends"}
    \/ step[c] = "leaving" /\ sawEnd[c]

LineShape(c) ==
    /\ held[c] # <<>> => c \in holding /\ Reachable(c)
    /\ step[c] \in {"connecting", "joined", "read"} /\ Reachable(c) => c \in holding
    /\ step[c] \in {"away", "admitted"} => c \notin place
    /\ step[c] \in {"away", "admitted", "connecting", "joined", "read"} => outbox[c] = <<>> /\ got[c] = <<>>
    /\ step[c] = "connecting" => c \notin joined
    /\ inHand[c] # <<>> => step[c] \in {"read", "sending", "drainSends", "flushSends"}
    /\ sawEnd[c] => step[c] \in {"leaving", "drains", "drainSends", "drained", "flushes", "flushSends"}

LineOrder(c) ==
    /\ SnapshotFirst(got[c]) /\ NoneLost(got[c])
    /\ Whole(c) \/ step[c] = "read" =>
           InOrder(LineOf(c), published, Reachable(c)) /\ (Reachable(c) => c \in joined)
    /\ step[c] = "joined" =>
           Following(LineOf(c), published, Reachable(c)) /\ (Reachable(c) => c \in joined)
    /\ step[c] \in {"away", "admitted", "connecting"} => ~TellsOf(LineOf(c))

LineInv == SocketsTypes /\ \A c \in Conns : LineShape(c) /\ LineOrder(c)

LEMMA SilentLine ==
    ASSUME NEW line, ~TellsOf(line)
    PROVE  /\ SnapshotFirst(line) /\ NoneLost(line)
           /\ \A n \in Nat : ToTheLast(line, n) /\ ToldUpTo(line, n)
BY DEF TellsOf, SnapshotFirst, NoneLost, ToTheLast, ToldUpTo, TellsNext

LEMMA EmptyLine == ~TellsOf(<<>>)
BY DEF TellsOf

\* How a line may change in a step that leaves its connection where it is.
GoesOnAs(m, q, line, n, now, before) ==
    \/ m = Append(line, Told(n + 1)) /\ q = n + 1 /\ now /\ before
    \/ m = Append(line, Goodbye) /\ q = n /\ now /\ before
    \/ StartOf(m, line) /\ q \in {n, n + 1} /\ ~now
    \/ m = line /\ q = n /\ (now <=> before)

LEMMA OrderGoesOn ==
    ASSUME NEW line \in Seq(Item), NEW m, NEW n \in 0..Publishes, NEW q \in 0..Publishes,
           NEW now \in BOOLEAN, NEW before \in BOOLEAN, GoesOnAs(m, q, line, n, now, before)
    PROVE  /\ InOrder(line, n, before) => InOrder(m, q, now)
           /\ Following(line, n, before) => Following(m, q, now)
           /\ ~TellsOf(line) => ~TellsOf(m) \/ (before /\ m = Append(line, Told(n + 1)))
<1>0. n \in Nat /\ q \in Nat /\ Publishes \in Nat
  BY SocketsAssumption
<1>1. CASE m = Append(line, Told(n + 1)) /\ q = n + 1 /\ now /\ before
  <2>1. ToTheLast(line, n) /\ NoneLost(line) =>
           /\ SnapshotFirst(line) /\ TellsOf(line) => SnapshotFirst(m)
           /\ NoneLost(m)
           /\ ToTheLast(m, n + 1)
           /\ ToldUpTo(line, n) => ToldUpTo(m, n + 1)
           /\ TellsOf(m)
    <3>1. n + 1 <= Publishes /\ n \in Nat
      BY <1>0, <1>1
    <3>2. CASE ToTheLast(line, n) /\ NoneLost(line)
      BY <3>1, <3>2, <1>1, NextKeeps
    <3> QED BY <3>2
  <2> QED BY <1>1, <2>1 DEF InOrder, Following
<1>2. CASE m = Append(line, Goodbye) /\ q = n /\ now /\ before
  <2>1. /\ SnapshotFirst(line) => SnapshotFirst(m)
        /\ NoneLost(line) => NoneLost(m)
        /\ ToTheLast(line, n) => ToTheLast(m, n)
        /\ ToldUpTo(line, n) => ToldUpTo(m, n)
        /\ TellsOf(line) <=> TellsOf(m)
    BY <1>0, <1>2, GoodbyeKeeps
  <2> QED BY <1>2, <2>1 DEF InOrder, Following
<1>3. CASE StartOf(m, line) /\ q \in {n, n + 1} /\ ~now
  <2>1. /\ SnapshotFirst(line) => SnapshotFirst(m)
        /\ NoneLost(line) => NoneLost(m)
        /\ ToldUpTo(line, n) => ToldUpTo(m, n)
        /\ ~TellsOf(line) => ~TellsOf(m)
    BY <1>0, <1>3, StartKeeps
  <2>2. ToldUpTo(m, n) => ToldUpTo(m, q)
    <3>1. \A i \in 1..Len(m) : m[i] \in Item
      BY <1>3 DEF StartOf
    <3> QED BY <3>1, <1>0, <1>3, ItemType DEF ToldUpTo
  <2> QED BY <1>3, <2>1, <2>2 DEF InOrder, Following
<1>4. CASE m = line /\ q = n /\ (now <=> before)
  BY <1>4 DEF InOrder, Following
<1> QED BY <1>1, <1>2, <1>3, <1>4 DEF GoesOnAs

LEMMA LineType ==
    ASSUME SocketsTypes, NEW c \in Conns
    PROVE  /\ got[c] \in Seq(Item) /\ inHand[c] \in Seq(Item) /\ outbox[c] \in Seq(Item) /\ held[c] \in Seq(Item)
           /\ LineOf(c) \in Seq(Item)
           /\ published \in 0..Publishes /\ published \in Nat
           /\ Reachable(c) \in BOOLEAN
           /\ StartOf(LineOf(c), LineOf(c))
<1>1. got[c] \in Seq(Item) /\ inHand[c] \in Seq(Item) /\ outbox[c] \in Seq(Item) /\ held[c] \in Seq(Item)
  BY DEF SocketsTypes, SocketsTypeOK
<1>2. LineOf(c) \in Seq(Item)
  BY <1>1, LineIsItems DEF LineOf
<1>3. published \in 0..Publishes /\ published \in Nat
  BY SocketsAssumption DEF SocketsTypes, SocketsTypeOK
<1>4. Reachable(c) \in BOOLEAN
  BY DEF Reachable
<1> QED BY <1>1, <1>2, <1>3, <1>4 DEF StartOf

\* What is sent to others may be held, queued, or cut the connection off.
LEMMA LineDelivered ==
    ASSUME SocketsTypes, NEW to, NEW item \in Item, Deliver(to, item, "others"),
           NEW d \in Conns, LineShape(d),
           UNCHANGED <<step, got, inHand, sawEnd>>
    PROVE  /\ LineShape(d)'
           /\ \/ d \in to /\ Reachable(d) /\ Reachable(d)' /\ LineOf(d)' = Append(LineOf(d), item)
              \/ ~Reachable(d)' /\ StartOf(LineOf(d)', LineOf(d))
              \/ d \notin to /\ (Reachable(d)' <=> Reachable(d)) /\ LineOf(d)' = LineOf(d)
           /\ joined' = joined
<1>1. /\ place' = place /\ joined' = joined
      /\ \/ /\ d \in to /\ Reachable(d) /\ Reachable(d)' /\ Waits(d, "others")
            /\ held'[d] = Append(held[d], item) /\ outbox'[d] = outbox[d]
            /\ ((d \in holding)' <=> d \in holding)
         \/ /\ d \in to /\ Reachable(d) /\ Reachable(d)' /\ ~Waits(d, "others")
            /\ outbox'[d] = Append(outbox[d], item) /\ held'[d] = held[d]
            /\ ((d \in holding)' <=> d \in holding)
         \/ /\ d \in to /\ Reachable(d) /\ ~Reachable(d)' /\ ~HasRoom(d, "others")
            /\ held'[d] = <<>> /\ outbox'[d] = outbox[d]
         \/ /\ ~(d \in to /\ Reachable(d)) /\ (Reachable(d)' <=> Reachable(d))
            /\ held'[d] = held[d] /\ outbox'[d] = outbox[d]
            /\ ((d \in holding)' <=> d \in holding)
  BY Delivered DEF SocketsTypes
<1>2. Waits(d, "others") <=> d \in holding
  BY SocketsAssumption DEF Waits
<1>3. held[d] # <<>> => d \in holding
  BY DEF LineShape
<1>4. Reachable(d) => d \in place
  BY DEF Reachable
<1>5. /\ got[d] \in Seq(Item) /\ inHand[d] \in Seq(Item) /\ outbox[d] \in Seq(Item) /\ held[d] \in Seq(Item)
      /\ LineOf(d) \in Seq(Item) /\ StartOf(LineOf(d), LineOf(d))
  BY LineType
<1>6. LineOf(d)' = OneLine(got[d], inHand[d], outbox'[d], held'[d])
  BY DEF LineOf
<1>7. \/ d \in to /\ Reachable(d) /\ Reachable(d)' /\ LineOf(d)' = Append(LineOf(d), item)
      \/ ~Reachable(d)' /\ StartOf(LineOf(d)', LineOf(d))
      \/ d \notin to /\ (Reachable(d)' <=> Reachable(d)) /\ LineOf(d)' = LineOf(d)
  <2> DEFINE g == got[d]
             i == inHand[d]
             o == outbox[d]
             h == held[d]
  <2>0. /\ OneLine(g, i, o, Append(h, item)) = Append(OneLine(g, i, o, h), item)
        /\ h = <<>> => OneLine(g, i, Append(o, item), h) = Append(OneLine(g, i, o, h), item)
        /\ LineOf(d) = OneLine(g, i, o, h)
    <3>1. g \in Seq(Item) /\ i \in Seq(Item) /\ o \in Seq(Item) /\ h \in Seq(Item)
      BY <1>5
    <3>2. LineOf(d) = OneLine(g, i, o, h)
      BY DEF LineOf
    <3> HIDE DEF g, i, o, h
    <3>3. ASSUME NEW p \in Seq(Item)
          PROVE  i \o Append(p, item) = Append(i \o p, item) /\ g \o Append(i \o p, item) = Append(g \o (i \o p), item)
      <4>1. i \o Append(p, item) = Append(i \o p, item) /\ i \o p \in Seq(Item)
        BY <3>1, AppendedLast
      <4> QED BY <3>1, <4>1, AppendedLast
    <3>4. o \o Append(h, item) = Append(o \o h, item) /\ o \o h \in Seq(Item)
      BY <3>1, AppendedLast
    <3>5. h = <<>> => Append(o, item) \o h = Append(o \o h, item)
      <4>1. Append(o, item) \in Seq(Item)
        BY <3>1
      <4> QED BY <3>1, <4>1, NothingMore
    <3>6. i \o Append(o \o h, item) = Append(i \o (o \o h), item)
          /\ g \o Append(i \o (o \o h), item) = Append(g \o (i \o (o \o h)), item)
      BY <3>1, <3>3, <3>4
    <3> QED BY <3>2, <3>4, <3>5, <3>6 DEF OneLine
  <2>1. OneLine(got[d], inHand[d], outbox[d], Append(held[d], item)) = Append(LineOf(d), item)
    BY <1>5, <2>0
  <2>2. held[d] = <<>> => OneLine(got[d], inHand[d], Append(outbox[d], item), held[d]) = Append(LineOf(d), item)
    BY <1>5, <2>0
  <2>3. StartOf(OneLine(got[d], inHand[d], outbox[d], <<>>), LineOf(d))
    BY <1>5, CutShort DEF LineOf
  <2>4. OneLine(got[d], inHand[d], outbox[d], held[d]) = LineOf(d)
    BY DEF LineOf
  <2> QED BY <1>1, <1>2, <1>3, <1>5, <1>6, <2>1, <2>2, <2>3, <2>4
<1>8. LineShape(d)'
  BY <1>1, <1>2, <1>3, <1>4 DEF LineShape
<1> QED BY <1>1, <1>7, <1>8

\* What another connection's step leaves alone.
Untouched(d) ==
    /\ step'[d] = step[d] /\ sawEnd'[d] = sawEnd[d] /\ published' = published
    /\ got'[d] = got[d] /\ inHand'[d] = inHand[d] /\ outbox'[d] = outbox[d] /\ held'[d] = held[d]
    /\ (Reachable(d)' <=> Reachable(d)) /\ (d \in place' <=> d \in place)
    /\ (d \in joined' <=> d \in joined) /\ (d \in holding' <=> d \in holding)

LEMMA LineStays ==
    ASSUME NEW d, LineShape(d), LineOrder(d), Untouched(d)
    PROVE  LineShape(d)' /\ LineOrder(d)'
<1>1. LineShape(d)'
  BY DEF LineShape, Untouched
<1>2. LineOf(d)' = LineOf(d) /\ (Whole(d)' <=> Whole(d))
  BY DEF LineOf, Whole, Untouched
<1>3. LineOrder(d)'
  BY <1>2 DEF LineOrder, InOrder, Following, Untouched
<1> QED BY <1>1, <1>3


-----------------------------------------------------------------------------
(* Each step keeps the lines in order.                                      *)

\* What is told to others, or closes them.
LEMMA TellingKeepsLines ==
    ASSUME LineInv, NEW to, NEW item \in Item, Deliver(to, item, "others"),
           UNCHANGED <<step, got, inHand, sawEnd>>, published' \in 0..Publishes,
           \/ item = Goodbye /\ published' = published
           \/ item = Told(published + 1) /\ published' = published + 1 /\ to = joined,
           NEW d \in Conns
    PROVE  LineShape(d)' /\ LineOrder(d)'
<1>0. SocketsTypes /\ LineShape(d) /\ LineOrder(d)
  BY DEF LineInv
<1>1. LineShape(d)' /\ joined' = joined
  BY <1>0, LineDelivered
<1>2. \/ d \in to /\ Reachable(d) /\ Reachable(d)' /\ LineOf(d)' = Append(LineOf(d), item)
      \/ ~Reachable(d)' /\ StartOf(LineOf(d)', LineOf(d))
      \/ d \notin to /\ (Reachable(d)' <=> Reachable(d)) /\ LineOf(d)' = LineOf(d)
  BY <1>0, LineDelivered
<1>3. /\ LineOf(d) \in Seq(Item) /\ StartOf(LineOf(d), LineOf(d))
      /\ published \in 0..Publishes /\ published \in Nat
      /\ Reachable(d) \in BOOLEAN /\ Reachable(d)' \in BOOLEAN
  BY <1>0, LineType DEF Reachable
<1>4. (Whole(d)' <=> Whole(d)) /\ step'[d] = step[d] /\ got'[d] = got[d]
  BY DEF Whole
<1>5. CASE step[d] = "over" \/ (~Whole(d) /\ step[d] \notin {"away", "admitted", "connecting", "joined", "read"})
  BY <1>0, <1>1, <1>4, <1>5 DEF LineOrder, Whole
<1>6. CASE Whole(d) \/ step[d] \in {"away", "admitted", "connecting", "joined", "read"}
  <2>1. Reachable(d) => (d \in joined <=> Whole(d) \/ step[d] \in {"joined", "read"})
    <3>1. d \in joined => d \in place
      BY <1>0 DEF SocketsTypes, SocketsTypeOK
    <3> QED BY <3>1, <1>0, <1>6 DEF LineOrder, LineShape, Whole
  <2>2. GoesOnAs(LineOf(d)', published', LineOf(d), published, Reachable(d)', Reachable(d))
        \/ (~Whole(d) /\ step[d] \in {"away", "admitted", "connecting"} /\ LineOf(d)' = LineOf(d))
    <3>1. published' \in {published, published + 1}
      OBVIOUS
    <3>2. CASE d \in to /\ Reachable(d) /\ Reachable(d)' /\ LineOf(d)' = Append(LineOf(d), item)
      BY <3>2 DEF GoesOnAs
    <3>3. CASE ~Reachable(d)' /\ StartOf(LineOf(d)', LineOf(d))
      BY <3>1, <3>3 DEF GoesOnAs
    <3>4. CASE d \notin to /\ (Reachable(d)' <=> Reachable(d)) /\ LineOf(d)' = LineOf(d)
      <4>1. CASE item = Goodbye /\ published' = published
        BY <3>4, <4>1 DEF GoesOnAs
      <4>2. CASE to = joined /\ ~Reachable(d)
        BY <3>1, <3>4, <4>2, <1>3 DEF GoesOnAs
      <4>3. CASE to = joined /\ Reachable(d)
        BY <3>4, <4>3, <1>6, <2>1
      <4> QED BY <4>1, <4>2, <4>3
    <3> QED BY <1>2, <3>2, <3>3, <3>4
  <2>3. CASE ~Whole(d) /\ step[d] \in {"away", "admitted", "connecting"} /\ LineOf(d)' = LineOf(d)
    <3>1. ~TellsOf(LineOf(d))'
      BY <2>3, <1>0 DEF LineOrder, TellsOf
    <3> QED BY <2>3, <3>1, <1>0, <1>1, <1>4 DEF LineOrder
  <2>4. CASE GoesOnAs(LineOf(d)', published', LineOf(d), published, Reachable(d)', Reachable(d))
    <3>1. /\ InOrder(LineOf(d), published, Reachable(d)) => InOrder(LineOf(d)', published', Reachable(d)')
          /\ Following(LineOf(d), published, Reachable(d)) => Following(LineOf(d)', published', Reachable(d)')
          /\ ~TellsOf(LineOf(d)) =>
                 ~TellsOf(LineOf(d)') \/ (Reachable(d) /\ LineOf(d)' = Append(LineOf(d), Told(published + 1)))
      <4> DEFINE line == LineOf(d)
                 m == LineOf(d)'
                 n == published
                 q == published'
                 now == Reachable(d)'
                 before == Reachable(d)
      <4>1. line \in Seq(Item) /\ n \in 0..Publishes /\ q \in 0..Publishes /\ now \in BOOLEAN /\ before \in BOOLEAN
            /\ GoesOnAs(m, q, line, n, now, before)
        BY <1>3, <2>4
      <4> HIDE DEF line, m, n, q, now, before
      <4>2. /\ InOrder(line, n, before) => InOrder(m, q, now)
            /\ Following(line, n, before) => Following(m, q, now)
            /\ ~TellsOf(line) => ~TellsOf(m) \/ (before /\ m = Append(line, Told(n + 1)))
        BY <4>1, OrderGoesOn
      <4> QED BY <4>2 DEF line, m, n, q, now, before
    <3>2. CASE step[d] \in {"away", "admitted", "connecting"}
      <4>1. ~Reachable(d) \/ d \notin to \/ item = Goodbye
        BY <2>1, <3>2 DEF Whole
      <4>2. ~TellsOf(LineOf(d))
        BY <1>0, <3>2 DEF LineOrder
      <4>3. ~TellsOf(LineOf(d)')
        <5>1. CASE Reachable(d) /\ d \in to
          <6>1. LineOf(d)' = Append(LineOf(d), Goodbye) \/ StartOf(LineOf(d)', LineOf(d))
            BY <1>2, <4>1, <5>1
          <6> QED BY <6>1, <4>2, <1>3, GoodbyeKeeps, StartKeeps
        <5>2. CASE ~(Reachable(d) /\ d \in to)
          <6>1. LineOf(d)' = LineOf(d) \/ StartOf(LineOf(d)', LineOf(d))
            BY <1>2, <5>2
          <6> QED BY <6>1, <4>2, <1>3, StartKeeps
        <5> QED BY <5>1, <5>2
      <4> QED BY <1>0, <1>1, <1>4, <3>2, <4>3 DEF LineOrder, Whole
    <3>3. CASE Whole(d) \/ step[d] \in {"joined", "read"}
      <4>1. Reachable(d)' => d \in joined'
        <5>1. Reachable(d)' => Reachable(d)
          BY <1>0, Delivered DEF SocketsTypes
        <5> QED BY <5>1, <1>1, <2>1, <3>3
      <4> QED BY <1>0, <1>1, <1>4, <3>1, <3>3, <4>1 DEF LineOrder, Whole
    <3> QED BY <1>6, <3>2, <3>3
  <2> QED BY <2>2, <2>3, <2>4
<1> QED BY <1>1, <1>5, <1>6


\* A step of a connection that goes on being sent what is in its line.
LEMMA KeptLine ==
    ASSUME SocketsTypes, NEW c \in Conns, LineOrder(c), Whole(c) \/ step[c] = "read",
           LineOf(c)' = LineOf(c) \/ (StartOf(LineOf(c)', LineOf(c)) /\ ~Reachable(c)'),
           StartOf(got'[c], LineOf(c)),
           published' = published, joined' = joined, Reachable(c)' => Reachable(c),
           step'[c] \notin {"away", "admitted", "connecting", "joined"}
    PROVE  LineOrder(c)'
<1>1. /\ LineOf(c) \in Seq(Item) /\ StartOf(LineOf(c), LineOf(c))
      /\ published \in 0..Publishes
      /\ Reachable(c) \in BOOLEAN /\ Reachable(c)' \in BOOLEAN
  BY LineType DEF Reachable
<1>2. InOrder(LineOf(c), published, Reachable(c)) /\ (Reachable(c) => c \in joined)
  BY DEF LineOrder
<1>3. SnapshotFirst(got'[c]) /\ NoneLost(got'[c])
  BY <1>1, <1>2, StartKeeps DEF InOrder
<1>4. InOrder(LineOf(c)', published', Reachable(c)')
  <2> DEFINE line == LineOf(c)
             m == LineOf(c)'
             n == published
             q == published'
             now == Reachable(c)'
             before == Reachable(c)
  <2>1. line \in Seq(Item) /\ n \in 0..Publishes /\ q \in 0..Publishes /\ now \in BOOLEAN /\ before \in BOOLEAN
        /\ GoesOnAs(m, q, line, n, now, before) /\ InOrder(line, n, before)
    BY <1>1, <1>2 DEF GoesOnAs
  <2> HIDE DEF line, m, n, q, now, before
  <2>2. /\ InOrder(line, n, before) => InOrder(m, q, now)
        /\ Following(line, n, before) => Following(m, q, now)
        /\ ~TellsOf(line) => ~TellsOf(m) \/ (before /\ m = Append(line, Told(n + 1)))
    BY <2>1, OrderGoesOn
  <2> QED BY <2>1, <2>2 DEF m, q, now
<1> QED BY <1>2, <1>3, <1>4 DEF LineOrder

\* A step after which a connection is sent no more.
LEMMA DroppedLine ==
    ASSUME NEW c, LineOrder(c), got'[c] = got[c] \/ got'[c] = <<>>,
           ~Whole(c)', step'[c] \notin {"away", "admitted", "connecting", "joined", "read"}
    PROVE  LineOrder(c)'
<1>1. SnapshotFirst(got'[c]) /\ NoneLost(got'[c])
  BY EmptyLine, SilentLine DEF LineOrder
<1> QED BY <1>1 DEF LineOrder

\* What every step of a connection finds of its line.
LEMMA LineFacts ==
    ASSUME LineInv, NEW c \in Conns
    PROVE  /\ SocketsTypes /\ LineShape(c) /\ LineOrder(c)
           /\ got[c] \in Seq(Item) /\ inHand[c] \in Seq(Item) /\ outbox[c] \in Seq(Item) /\ held[c] \in Seq(Item)
           /\ LineOf(c) = OneLine(got[c], inHand[c], outbox[c], held[c])
           /\ LineOf(c)' = OneLine(got'[c], inHand'[c], outbox'[c], held'[c])
           /\ StartOf(got[c], LineOf(c)) /\ StartOf(LineOf(c), LineOf(c))
           /\ c \in joined => c \in place
           /\ c \in cut => c \in place
<1>1. /\ SocketsTypes /\ LineShape(c) /\ LineOrder(c)
      /\ c \in joined => c \in place
      /\ c \in cut => c \in place
  BY DEF LineInv, SocketsTypes, SocketsTypeOK
<1>2. /\ got[c] \in Seq(Item) /\ inHand[c] \in Seq(Item) /\ outbox[c] \in Seq(Item) /\ held[c] \in Seq(Item)
      /\ StartOf(LineOf(c), LineOf(c))
  BY <1>1, LineType
<1>3. LineOf(c) = OneLine(got[c], inHand[c], outbox[c], held[c])
  BY DEF LineOf
<1>4. LineOf(c)' = OneLine(got'[c], inHand'[c], outbox'[c], held'[c])
  BY DEF LineOf
<1>5. StartOf(got[c], LineOf(c))
  BY <1>2, <1>3, CutShort
<1> QED BY <1>1, <1>2, <1>3, <1>4, <1>5

\* A connection whose tasks are over has nothing to be sent.
LEMMA OverKeepsLine ==
    ASSUME LineInv, NEW c \in Conns, Over(c),
           \/ Forget(c)
           \/ UNCHANGED <<place, joined, cut, holding, held>>
    PROVE  LineShape(c)' /\ LineOrder(c)'
<1>1. SocketsTypes /\ LineShape(c) /\ LineOrder(c)
  BY LineFacts
<1>2. /\ step'[c] = "over" /\ got'[c] = <<>> /\ inHand'[c] = <<>> /\ sawEnd'[c] = FALSE
  BY <1>1 DEF Over, NoFrame, SocketsTypes, SocketsTypeOK
<1>3. held'[c] = <<>> \/ (held' = held /\ place' = place /\ cut' = cut /\ holding' = holding)
  BY <1>1 DEF Forget, SocketsTypes, SocketsTypeOK
<1>4. LineShape(c)'
  BY <1>1, <1>2, <1>3 DEF LineShape, Reachable
<1>5. LineOrder(c)'
  BY <1>1, <1>2, DroppedLine DEF Whole
<1> QED BY <1>4, <1>5

\* A connection is let in, told what was told so far, and goes on.
LEMMA OpeningKeepsLine ==
    ASSUME LineInv, NEW c \in Conns, Opens(c)
    PROVE  LineShape(c)' /\ LineOrder(c)'
<1>1. /\ SocketsTypes /\ LineShape(c) /\ LineOrder(c)
      /\ got[c] \in Seq(Item) /\ inHand[c] \in Seq(Item) /\ outbox[c] \in Seq(Item) /\ held[c] \in Seq(Item)
      /\ LineOf(c) = OneLine(got[c], inHand[c], outbox[c], held[c])
      /\ LineOf(c)' = OneLine(got'[c], inHand'[c], outbox'[c], held'[c])
      /\ StartOf(got[c], LineOf(c)) /\ StartOf(LineOf(c), LineOf(c))
      /\ c \in joined => c \in place
      /\ c \in cut => c \in place
  BY LineFacts
<1>2. ASSUME NEW a, NEW b, LoopGoes(c, a, b) PROVE step[c] = a /\ step'[c] = b
  BY <1>1, <1>2 DEF LoopGoes, SocketsTypes, SocketsTypeOK
<1>3. CASE PassesDoor(c)
  <2>1. step[c] = "away" /\ step'[c] = "admitted"
    BY <1>2, <1>3 DEF PassesDoor
  <2>2. UNCHANGED <<published, place, joined, cut, holding, held, outbox, inHand, got, sawEnd>>
    BY <1>3 DEF PassesDoor, registry
  <2>3. LineShape(c)'
    BY <1>1, <2>1, <2>2 DEF LineShape, Reachable
  <2>4. LineOf(c)' = LineOf(c)
    BY <1>1, <2>2
  <2>5. ~TellsOf(LineOf(c)')
    BY <1>1, <2>1, <2>4 DEF LineOrder
  <2> QED BY <1>1, <2>1, <2>2, <2>3, <2>5 DEF LineOrder, Whole
<1>4. CASE RegisterFrom(c)
  <2>1. UNCHANGED <<published, joined, cut, held, outbox, inHand, got, sawEnd>>
    BY <1>4 DEF RegisterFrom
  <2>2. CASE LoopGoes(c, "admitted", "connecting") /\ place' = place \union {c} /\ holding' = holding \union {c}
    <3>1. step[c] = "admitted" /\ step'[c] = "connecting"
      BY <1>2, <2>2
    <3>2. c \notin place
      BY <1>1, <3>1 DEF LineShape
    <3>3. LineShape(c)'
      BY <1>1, <2>1, <2>2, <3>1, <3>2 DEF LineShape, Reachable
    <3>4. LineOf(c)' = LineOf(c)
      BY <1>1, <2>1
    <3>5. ~TellsOf(LineOf(c)')
      BY <1>1, <3>1, <3>4 DEF LineOrder
    <3> QED BY <1>1, <2>1, <3>1, <3>3, <3>5 DEF LineOrder, Whole
  <2>3. CASE LoopGoes(c, "admitted", "over") /\ UNCHANGED <<place, holding>>
    <3>1. step[c] = "admitted" /\ step'[c] = "over"
      BY <1>2, <2>3
    <3>2. LineShape(c)'
      BY <1>1, <2>1, <2>3, <3>1 DEF LineShape, Reachable
    <3>3. LineOrder(c)'
      BY <1>1, <2>1, <3>1, DroppedLine DEF Whole
    <3> QED BY <3>2, <3>3
  <2> QED BY <1>4, <2>2, <2>3 DEF RegisterFrom
<1>5. CASE Join(c)
  <2>1. step[c] = "connecting" /\ step'[c] = "joined"
    BY <1>2, <1>5 DEF Join
  <2>2. UNCHANGED <<published, place, cut, holding, held, outbox, inHand, got, sawEnd>> /\ joined' = joined \union {c}
    BY <1>5 DEF Join
  <2>3. LineShape(c)'
    BY <1>1, <2>1, <2>2 DEF LineShape, Reachable
  <2>4. LineOf(c)' = LineOf(c)
    BY <1>1, <2>2
  <2>5. ~TellsOf(LineOf(c)')
    BY <1>1, <2>1, <2>4 DEF LineOrder
  <2>6. published' \in Nat
    BY <1>1, <2>2, LineType
  <2>7. Following(LineOf(c)', published', Reachable(c)')
    BY <2>5, <2>6, SilentLine DEF Following
  <2> QED BY <1>1, <2>1, <2>2, <2>3, <2>7 DEF LineOrder, Whole
<1>6. CASE ReadSnapshot(c)
  <2> DEFINE s == Snapshot(published)
  <2>1. step[c] = "joined" /\ step'[c] = "read"
    BY <1>2, <1>6 DEF ReadSnapshot
  <2>2. UNCHANGED <<published, place, joined, cut, holding, held, outbox, got, sawEnd>>
    BY <1>6 DEF ReadSnapshot, registry
  <2>3. inHand'[c] = <<s>> /\ inHand[c] = <<>> /\ outbox[c] = <<>> /\ got[c] = <<>>
    BY <1>1, <1>6, <2>1 DEF ReadSnapshot, LineShape, SocketsTypes, SocketsTypeOK
  <2>4. LineShape(c)'
    BY <1>1, <2>1, <2>2 DEF LineShape, Reachable
  <2>5. published \in 0..Publishes /\ LineOf(c) \in Seq(Item) /\ s \in Item
    BY <1>1, LineType, ItemType
  <2>6. LineOf(c)' = <<s>> \o LineOf(c)
    <3> HIDE DEF s
    <3> QED BY <1>1, <2>2, <2>3, <2>5, InHandFirst
  <2>7. Following(LineOf(c), published, Reachable(c)) /\ (Reachable(c) => c \in joined)
    BY <1>1, <2>1 DEF LineOrder
  <2>8. /\ SnapshotFirst(LineOf(c)') /\ NoneLost(LineOf(c)') /\ TellsOf(LineOf(c)')
        /\ ToTheLast(LineOf(c), published) => ToTheLast(LineOf(c)', published)
    BY <2>5, <2>6, <2>7, SnapshotBefore DEF Following
  <2>9. Reachable(c)' <=> Reachable(c)
    BY <2>2 DEF Reachable
  <2>10. InOrder(LineOf(c)', published', Reachable(c)')
    BY <2>2, <2>7, <2>8, <2>9 DEF InOrder, Following
  <2> QED BY <1>1, <2>1, <2>2, <2>4, <2>7, <2>9, <2>10 DEF LineOrder, Whole
<1>7. CASE Greet(c)
  <2> DEFINE s == inHand[c][1]
  <2>1. step[c] = "read" /\ step'[c] = "greeted"
    BY <1>2, <1>7 DEF Greet
  <2>2. UNCHANGED <<published, got, sawEnd>> /\ Deliver({c}, s, c) /\ inHand'[c] = <<>>
    BY <1>1, <1>7 DEF Greet, NoFrame, SocketsTypes, SocketsTypeOK
  <2>3. inHand[c] = <<s>> /\ s \in Item
    <3>1. Len(inHand[c]) = 1
      BY <1>1, <2>1 DEF SocketsTypes, OpeningShape
    <3> QED BY <1>1, <3>1
  <2> HIDE DEF s
  <2>4. outbox[c] = <<>> /\ got[c] = <<>>
    BY <1>1, <2>1 DEF LineShape
  <2>5. HasRoom(c, c) /\ ~Waits(c, c)
    BY <2>4, SocketsAssumption DEF HasRoom, Waits
  <2>6. /\ joined' = joined /\ place' = place
        /\ \/ /\ Reachable(c) /\ Reachable(c)' /\ ((c \in holding)' <=> c \in holding)
              /\ outbox'[c] = Append(outbox[c], s) /\ held'[c] = held[c]
           \/ /\ ~Reachable(c) /\ ~Reachable(c)'
              /\ held'[c] = held[c] /\ outbox'[c] = outbox[c]
    BY <1>1, <2>2, <2>3, <2>5, Delivered DEF SocketsTypes
  <2>7. LineShape(c)'
    BY <1>1, <2>1, <2>2, <2>4, <2>6 DEF LineShape
  <2>8. CASE Reachable(c)
    <3>1. outbox'[c] = <<s>> /\ held'[c] = held[c]
      BY <2>3, <2>4, <2>6, <2>8
    <3>2. LineOf(c)' = LineOf(c)
      BY <1>1, <2>2, <2>3, <2>4, <3>1, InHandFirst
    <3>3. LineOrder(c)'
      BY <1>1, <2>1, <2>2, <2>6, <2>8, <3>2, KeptLine
    <3> QED BY <2>7, <3>3
  <2>9. CASE ~Reachable(c)
    <3>1. held[c] = <<>>
      BY <1>1, <2>9 DEF LineShape
    <3>2. LineOf(c)' = <<>>
      BY <1>1, <2>2, <2>4, <2>6, <2>9, <3>1 DEF OneLine
    <3>3. <<>> \in Seq(Item) /\ StartOf(<<>>, LineOf(c))
      BY <1>1, LineType DEF StartOf
    <3>4. LineOrder(c)'
      BY <1>1, <2>1, <2>2, <2>4, <2>6, <2>9, <3>2, <3>3, KeptLine
    <3> QED BY <2>7, <3>4
  <2> QED BY <2>8, <2>9
<1>8. CASE Refused(c) \/ UpgradeLost(c)
  BY <1>8, OverKeepsLine DEF Refused, UpgradeLost
<1>9. CASE Accept(c)
  <2> DEFINE room == Queue - Len(outbox[c])
             k == IF Len(held[c]) < room THEN Len(held[c]) ELSE room
             flushed == SubSeq(held[c], 1, k)
  <2>1. step[c] = "greeted" /\ step'[c] = "accepted"
    BY <1>2, <1>9 DEF Accept
  <2>2. /\ UNCHANGED <<published, place, joined, inHand, got, sawEnd>>
        /\ held'[c] = <<>> /\ outbox'[c] = outbox[c] \o flushed
        /\ cut' = (IF Len(held[c]) > room THEN cut \union {c} ELSE cut)
    BY <1>1, <1>9 DEF Accept, SocketsTypes, SocketsTypeOK
  <2>3. k \in 0..Len(held[c]) /\ (Len(held[c]) > room \/ k = Len(held[c]))
    BY <1>1, SocketsAssumption DEF SocketsTypes, SocketsTypeOK
  <2>4. LineShape(c)'
    BY <1>1, <2>1, <2>2 DEF LineShape
  <2>5. /\ StartOf(LineOf(c)', LineOf(c))
        /\ k = Len(held[c]) => LineOf(c)' = LineOf(c)
    <3> HIDE DEF k
    <3> QED BY <1>1, <2>2, <2>3, LetGo
  <2>6. (Reachable(c)' => Reachable(c)) /\ (~Reachable(c)' \/ k = Len(held[c]))
    BY <2>2, <2>3 DEF Reachable
  <2> HIDE DEF k, room, flushed
  <2>7. LineOrder(c)'
    BY <1>1, <2>1, <2>2, <2>5, <2>6, KeptLine DEF Whole
  <2> QED BY <2>4, <2>7
<1>10. CASE RunBegins(c)
  <2>1. step[c] = "accepted" /\ step'[c] = "select"
    BY <1>2, <1>10 DEF RunBegins
  <2>2. UNCHANGED <<published, place, joined, cut, holding, held, outbox, inHand, got, sawEnd>>
    BY <1>10 DEF RunBegins, registry
  <2>3. LineShape(c)'
    BY <1>1, <2>1, <2>2 DEF LineShape, Reachable
  <2>4. LineOf(c)' = LineOf(c) /\ (Reachable(c)' => Reachable(c))
    BY <1>1, <2>2 DEF Reachable
  <2>5. LineOrder(c)'
    BY <1>1, <2>1, <2>2, <2>4, KeptLine DEF Whole
  <2> QED BY <2>3, <2>5
<1> QED BY <1>3, <1>4, <1>5, <1>6, <1>7, <1>8, <1>9, <1>10 DEF Opens


\* A connection's loop, while it runs and while it ends, sends what comes first.
LEMMA LoopKeepsLine ==
    ASSUME LineInv, NEW c \in Conns, Loops(c) \/ RunsOut(c)
    PROVE  LineShape(c)' /\ LineOrder(c)'
<1>1. /\ SocketsTypes /\ LineShape(c) /\ LineOrder(c)
      /\ got[c] \in Seq(Item) /\ inHand[c] \in Seq(Item) /\ outbox[c] \in Seq(Item) /\ held[c] \in Seq(Item)
      /\ LineOf(c) = OneLine(got[c], inHand[c], outbox[c], held[c])
      /\ LineOf(c)' = OneLine(got'[c], inHand'[c], outbox'[c], held'[c])
      /\ StartOf(got[c], LineOf(c)) /\ StartOf(LineOf(c), LineOf(c))
  BY LineFacts
<1>2. ASSUME NEW a, NEW b, LoopGoes(c, a, b) PROVE step[c] = a /\ step'[c] = b
  BY <1>1, <1>2 DEF LoopGoes, SocketsTypes, SocketsTypeOK
\* The next of what waits is taken in hand, or nothing is and the line is given up.
<1>3. ASSUME NEW a \in {"select", "drains", "flushes"}, NEW b \in {"sending", "drainSends", "flushSends"},
             step[c] = a, step'[c] = b, outbox[c] # <<>>,
             inHand' = [inHand EXCEPT ![c] = <<Head(outbox[c])>>], outbox'[c] = Tail(outbox[c]),
             UNCHANGED <<published, place, joined, cut, holding, held, got, sawEnd>>,
             b # "sending" \/ a = "select"
      PROVE  LineShape(c)' /\ LineOrder(c)'
  <2>1. inHand[c] = <<>> /\ inHand'[c] = <<Head(outbox[c])>>
    BY <1>1, <1>3 DEF LineShape, SocketsTypes, SocketsTypeOK
  <2>2. LineOf(c)' = LineOf(c)
    BY <1>1, <1>3, <2>1, TakenOut
  <2>3. LineShape(c)'
    BY <1>1, <1>3 DEF LineShape, Reachable
  <2>4. Reachable(c)' => Reachable(c)
    BY <1>3 DEF Reachable
  <2>5. LineOrder(c)'
    BY <1>1, <1>3, <2>2, <2>4, KeptLine DEF Whole
  <2> QED BY <2>3, <2>5
<1>4. ASSUME NEW a \in {"sending", "drainSends", "flushSends"}, NEW b \in {"select", "drains", "flushes"},
             LoopGoes(c, a, b), Sent(c), a # "sending" <=> b # "select"
      PROVE  LineShape(c)' /\ LineOrder(c)'
  <2>1. step[c] = a /\ step'[c] = b
    BY <1>2, <1>4
  <2>2. /\ inHand'[c] = <<>> /\ got'[c] = got[c] \o inHand[c]
        /\ UNCHANGED <<published, place, joined, cut, holding, held, outbox, sawEnd>>
    BY <1>1, <1>4 DEF Sent, NoFrame, registry, SocketsTypes, SocketsTypeOK
  <2>3. got[c] \o inHand[c] \in Seq(Item)
    BY <1>1
  <2>4. LineOf(c)' = LineOf(c)
    BY <1>1, <2>2, SentOn
  <2>5. StartOf(got'[c], LineOf(c))
    <3> DEFINE p == got[c] \o inHand[c]
    <3>0. p \in Seq(Item) /\ <<>> \in Seq(Item)
      BY <2>3
    <3> HIDE DEF p
    <3>1. StartOf(p, OneLine(p, <<>>, outbox[c], held[c]))
      BY <1>1, <3>0, CutShort
    <3>2. LineOf(c)' = OneLine(p, <<>>, outbox[c], held[c]) /\ got'[c] = p
      BY <1>1, <2>2 DEF p
    <3> QED BY <2>4, <3>1, <3>2
  <2>6. LineShape(c)'
    BY <1>1, <1>4, <2>1, <2>2 DEF LineShape, Reachable
  <2>7. Reachable(c)' => Reachable(c)
    BY <2>2 DEF Reachable
  <2>8. LineOrder(c)'
    BY <1>1, <1>4, <2>1, <2>2, <2>4, <2>5, <2>7, KeptLine DEF Whole
  <2> QED BY <2>6, <2>8
<1>5. ASSUME NEW a \in {"select", "sending", "pinging", "parting", "leaving", "drains", "drainSends"},
             NEW b \in {"parting", "leaving", "waits", "drained"},
             LoopGoes(c, a, b), sawEnd' = sawEnd, sawEnd[c] => b = "drained",
             inHand'[c] = <<>> \/ (inHand' = inHand /\ inHand[c] = <<>>),
             UNCHANGED <<published, place, joined, cut, holding, held, got>>
      PROVE  LineShape(c)' /\ LineOrder(c)'
  <2>1. step[c] = a /\ step'[c] = b
    BY <1>2, <1>5
  <2>2. LineShape(c)'
    BY <1>1, <1>5, <2>1 DEF LineShape, Reachable
  <2>3. LineOrder(c)'
    BY <1>1, <1>5, <2>1, DroppedLine DEF Whole
  <2> QED BY <2>2, <2>3
<1>6. ASSUME NEW a \in {"select", "pinging", "leaving", "drains"},
             NEW b \in {"select", "pinging", "leaving", "drains", "flushes"},
             step[c] = a, step'[c] = b, Whole(c), Whole(c)',
             sawEnd'[c] => b \in {"leaving", "drains", "flushes"},
             UNCHANGED <<published, registry, inHand, got>>
      PROVE  LineShape(c)' /\ LineOrder(c)'
  <2>1. UNCHANGED <<published, place, joined, cut, holding, held, outbox, inHand, got>>
    BY <1>6 DEF registry
  <2>2. LineShape(c)'
    BY <1>1, <1>6, <2>1 DEF LineShape, Reachable
  <2>3. LineOf(c)' = LineOf(c) /\ (Reachable(c)' => Reachable(c))
    BY <1>1, <2>1 DEF Reachable
  <2>4. LineOrder(c)'
    BY <1>1, <1>6, <2>1, <2>3, KeptLine
  <2> QED BY <2>2, <2>4
<1>7. step[c] \in {"select", "pinging", "parting", "leaving", "drains", "flushes"} => inHand[c] = <<>>
  BY <1>1 DEF LineShape
<1>8. step[c] \in {"select", "sending", "pinging", "parting"} => ~sawEnd[c]
  BY <1>1 DEF LineShape
<1>9. CASE TakeOut(c)
  <2>1. step[c] = "select" /\ UNCHANGED <<published, place, joined, cut, holding, held, got, sawEnd>>
    BY <1>2, <1>9 DEF TakeOut
  <2>2. CASE c \in cut \/ Head(outbox[c]) = Goodbye
    <3>1. LoopGoes(c, "select", "parting") /\ inHand' = inHand
      BY <1>9, <2>2 DEF TakeOut
    <3> QED BY <1>5, <1>7, <1>8, <2>1, <3>1
  <2>3. CASE ~(c \in cut \/ Head(outbox[c]) = Goodbye)
    <3>1. /\ outbox[c] # <<>> /\ LoopGoes(c, "select", "sending")
          /\ inHand' = [inHand EXCEPT ![c] = <<Head(outbox[c])>>]
          /\ outbox' = [outbox EXCEPT ![c] = IF @ = <<>> THEN @ ELSE Tail(@)]
      BY <1>9, <2>3 DEF TakeOut
    <3>2. outbox'[c] = Tail(outbox[c]) /\ step'[c] = "sending"
      BY <1>1, <1>2, <3>1 DEF SocketsTypes, SocketsTypeOK
    <3> QED BY <1>3, <2>1, <3>1, <3>2
  <2> QED BY <2>2, <2>3
<1>10. CASE SendDone(c)
  BY <1>4, <1>10 DEF SendDone
<1>11. CASE SendFails(c)
  <2>1. inHand'[c] = <<>> /\ LoopGoes(c, "sending", "leaving") /\ UNCHANGED <<published, registry, got, sawEnd>>
    BY <1>1, <1>11 DEF SendFails, NotSent, NoFrame, SocketsTypes, SocketsTypeOK
  <2>2. ~sawEnd[c]
    BY <1>2, <1>8, <2>1
  <2>3. UNCHANGED <<published, place, joined, cut, holding, held, got>> /\ sawEnd' = sawEnd
        /\ (inHand'[c] = <<>> \/ (inHand' = inHand /\ inHand[c] = <<>>))
    BY <2>1 DEF registry
  <2> QED BY <1>5, <2>1, <2>2, <2>3
<1>12. CASE Hear(c)
  <2>1. UNCHANGED <<published, registry, inHand, got, sawEnd>>
    BY <1>12 DEF Hear
  <2>2. step[c] = "select"
    BY <1>2, <1>12 DEF Hear
  <2>3. CASE step' = step
    BY <1>6, <1>8, <2>1, <2>2, <2>3 DEF Whole
  <2>4. CASE LoopGoes(c, "select", "parting")
    BY <1>5, <1>7, <1>8, <2>1, <2>2, <2>4 DEF registry
  <2> QED BY <1>12, <2>3, <2>4 DEF Hear
<1>13. CASE PeerEnds(c)
  <2>1. step[c] = "select" /\ step'[c] = "leaving" /\ UNCHANGED <<published, registry, inHand, got>>
    BY <1>2, <1>13 DEF PeerEnds
  <2>2. sawEnd'[c] = TRUE
    BY <1>1, <1>13 DEF PeerEnds, SocketsTypes, SocketsTypeOK
  <2> QED BY <1>6, <2>1, <2>2 DEF Whole
<1>14. CASE Check(c)
  <2>1. UNCHANGED <<published, registry, inHand, got, sawEnd>>
    BY <1>14 DEF Check
  <2>2. step[c] = "select"
    BY <1>2, <1>14 DEF Check
  <2>3. CASE LoopGoes(c, "select", "parting") \/ LoopGoes(c, "select", "leaving")
    BY <1>5, <1>7, <1>8, <2>1, <2>2, <2>3 DEF registry
  <2>4. CASE LoopGoes(c, "select", "pinging")
    <3>1. step'[c] = "pinging"
      BY <1>2, <2>4
    <3> QED BY <1>6, <1>8, <2>1, <2>2, <3>1 DEF Whole
  <2> QED BY <1>14, <2>3, <2>4 DEF Check
<1>15. CASE PingDone(c)
  <2>1. UNCHANGED <<published, registry, inHand, got, sawEnd>>
    BY <1>15 DEF PingDone
  <2>2. step[c] = "pinging"
    BY <1>2, <1>15 DEF PingDone
  <2>3. CASE LoopGoes(c, "pinging", "leaving")
    BY <1>5, <1>7, <1>8, <2>1, <2>2, <2>3 DEF registry
  <2>4. CASE LoopGoes(c, "pinging", "select")
    <3>1. step'[c] = "select"
      BY <1>2, <2>4
    <3> QED BY <1>6, <1>8, <2>1, <2>2, <3>1 DEF Whole
  <2> QED BY <1>15, <2>3, <2>4 DEF PingDone
<1>16. CASE PartDone(c)
  <2>1. LoopGoes(c, "parting", "leaving") /\ UNCHANGED <<published, registry, inHand, got, sawEnd>>
    BY <1>16 DEF PartDone
  <2>2. step[c] = "parting"
    BY <1>2, <2>1
  <2> QED BY <1>5, <1>7, <1>8, <2>1, <2>2 DEF registry
<1>17. CASE SendClose(c)
  <2>1. UNCHANGED <<published, registry, inHand, got, sawEnd>>
        /\ LoopGoes(c, "leaving", IF sawEnd[c] THEN "drains" ELSE "waits")
    BY <1>17 DEF SendClose
  <2>2. CASE sawEnd[c]
    <3>1. step[c] = "leaving" /\ step'[c] = "drains"
      BY <1>2, <2>1, <2>2
    <3> QED BY <1>6, <2>1, <2>2, <3>1 DEF Whole
  <2>3. CASE ~sawEnd[c]
    <3>1. LoopGoes(c, "leaving", "waits") /\ step[c] = "leaving"
      BY <1>2, <2>1, <2>3
    <3> QED BY <1>5, <1>7, <2>1, <2>3, <3>1 DEF registry
  <2> QED BY <2>2, <2>3
<1>18. CASE Draining(c)
  <2>1. step[c] = "drains" /\ UNCHANGED <<published, place, joined, cut, holding, held, got, sawEnd>>
    BY <1>2, <1>18 DEF Draining
  <2>2. CASE outbox[c] # <<>> /\ Head(outbox[c]) # Goodbye
    <3>1. /\ LoopGoes(c, "drains", "drainSends")
          /\ inHand' = [inHand EXCEPT ![c] = <<Head(outbox[c])>>]
          /\ outbox' = [outbox EXCEPT ![c] = IF @ = <<>> THEN @ ELSE Tail(@)]
      BY <1>18, <2>2 DEF Draining
    <3>2. outbox'[c] = Tail(outbox[c]) /\ step'[c] = "drainSends"
      BY <1>1, <1>2, <2>2, <3>1 DEF SocketsTypes, SocketsTypeOK
    <3> QED BY <1>3, <2>1, <2>2, <3>1, <3>2
  <2>3. CASE ~(outbox[c] # <<>> /\ Head(outbox[c]) # Goodbye)
    <3>1. LoopGoes(c, "drains", "drained") /\ inHand' = inHand
      BY <1>18, <2>3 DEF Draining
    <3> QED BY <1>5, <1>7, <2>1, <3>1
  <2> QED BY <2>2, <2>3
<1>19. CASE DrainSendDone(c) \/ FlushSendDone(c)
  BY <1>4, <1>19 DEF DrainSendDone, FlushSendDone
<1>20. CASE DrainSendFails(c)
  <2>1. inHand'[c] = <<>> /\ LoopGoes(c, "drainSends", "drained") /\ UNCHANGED <<published, registry, got, sawEnd>>
    BY <1>1, <1>20 DEF DrainSendFails, NotSent, NoFrame, SocketsTypes, SocketsTypeOK
  <2>3. UNCHANGED <<published, place, joined, cut, holding, held, got>> /\ sawEnd' = sawEnd
        /\ (inHand'[c] = <<>> \/ (inHand' = inHand /\ inHand[c] = <<>>))
    BY <2>1 DEF registry
  <2> QED BY <1>5, <2>1, <2>3
<1>21. CASE WorkerSeen(c)
  <2>1. UNCHANGED <<published, place, joined, cut, holding, held>>
    BY <1>21 DEF WorkerSeen
  <2>2. CASE Over(c)
    BY <2>1, <2>2, OverKeepsLine
  <2>3. CASE LoopGoes(c, "drains", "flushes") /\ UNCHANGED <<inHand, got, heard, sawEnd, inbox, worker, outbox>>
    <3>1. step[c] = "drains" /\ step'[c] = "flushes"
      BY <1>2, <2>3
    <3> QED BY <1>6, <2>1, <2>3, <3>1 DEF registry, Whole
  <2> QED BY <1>21, <2>2, <2>3 DEF WorkerSeen
<1>22. CASE Flush(c)
  <2>1. step[c] = "flushes" /\ UNCHANGED <<published, place, joined, cut, holding, held>>
    BY <1>22 DEF Flush
  <2>2. CASE Over(c)
    BY <2>1, <2>2, OverKeepsLine
  <2>3. CASE ~Over(c)
    <3>1. /\ outbox[c] # <<>> /\ step' = [step EXCEPT ![c] = "flushSends"]
          /\ inHand' = [inHand EXCEPT ![c] = <<Head(outbox[c])>>]
          /\ outbox' = [outbox EXCEPT ![c] = Tail(@)]
          /\ UNCHANGED <<got, heard, sawEnd, inbox, worker>>
      BY <1>22, <2>3 DEF Flush
    <3>2. outbox'[c] = Tail(outbox[c]) /\ step'[c] = "flushSends"
      BY <1>1, <3>1 DEF SocketsTypes, SocketsTypeOK
    <3> QED BY <1>3, <2>1, <3>1, <3>2
  <2> QED BY <2>2, <2>3
<1>23. CASE FlushSendFails(c)
  BY <1>23, OverKeepsLine DEF FlushSendFails
<1>24. CASE Loops(c)
  BY <1>24, <1>9, <1>10, <1>11, <1>12, <1>13, <1>14, <1>15, <1>16 DEF Loops
<1>25. CASE RunsOut(c)
  BY <1>25, <1>17, <1>18, <1>19, <1>20, <1>21, <1>22, <1>23 DEF RunsOut
<1> QED BY <1>24, <1>25

\* What one connection's step leaves of the others.
LEMMA OthersStay ==
    ASSUME SocketsTypes, NEW c \in Conns, NEW d \in Conns, d # c,
           Opens(c) \/ Loops(c) \/ RunsOut(c) \/ WorkerTakes(c) \/ WorkerAnswers(c) \/ WorkerEnds(c)
    PROVE  Untouched(d)
<1>1. /\ step \in [Conns -> SocketSteps] /\ sawEnd \in [Conns -> BOOLEAN]
      /\ held \in [Conns -> Seq(Item)] /\ outbox \in [Conns -> Seq(Item)]
      /\ inHand \in [Conns -> Seq(Item)] /\ got \in [Conns -> Seq(Item)]
  BY DEF SocketsTypes, SocketsTypeOK
<1>2. ASSUME NEW a, NEW b, LoopGoes(c, a, b) PROVE step'[d] = step[d]
  BY <1>1, <1>2 DEF LoopGoes
<1>3. Over(c) => /\ step'[d] = step[d] /\ outbox'[d] = outbox[d] /\ inHand'[d] = inHand[d] /\ got'[d] = got[d]
                 /\ sawEnd'[d] = sawEnd[d]
  BY <1>1 DEF Over, NoFrame
<1>4. Forget(c) => /\ (d \in place' <=> d \in place) /\ (d \in joined' <=> d \in joined)
                   /\ (d \in cut' <=> d \in cut) /\ (d \in holding' <=> d \in holding)
                   /\ held'[d] = held[d]
  BY <1>1 DEF Forget
<1>5. Sent(c) => UNCHANGED <<published, registry, sawEnd>> /\ inHand'[d] = inHand[d] /\ got'[d] = got[d]
  BY <1>1 DEF Sent, NoFrame
<1>6. NotSent(c) => UNCHANGED <<published, registry, sawEnd, got>> /\ inHand'[d] = inHand[d]
  BY <1>1 DEF NotSent, NoFrame
<1>7. CASE Greet(c)
  <2>1. step[c] = "read"
    BY <1>1, <1>7 DEF Greet, LoopGoes
  <2>2. inHand[c][1] \in Item
    BY <1>1, <2>1 DEF SocketsTypes, OpeningShape
  <2>3. Deliver({c}, inHand[c][1], c) /\ step'[d] = step[d] /\ inHand'[d] = inHand[d]
        /\ UNCHANGED <<published, got, sawEnd>>
    BY <1>1, <1>2, <1>7 DEF Greet, NoFrame
  <2> DEFINE s == inHand[c][1]
  <2>5. s \in Item /\ Deliver({c}, s, c) /\ d \notin {c} /\ SocketsTypeOK
    BY <2>2, <2>3 DEF SocketsTypes
  <2> HIDE DEF s
  <2>4. /\ place' = place /\ joined' = joined /\ (Reachable(d)' <=> Reachable(d))
        /\ held'[d] = held[d] /\ outbox'[d] = outbox[d]
        /\ ((d \in holding)' <=> d \in holding)
    BY <2>5, Delivered
  <2> QED BY <2>3, <2>4 DEF Untouched
<1>8. CASE PassesDoor(c) \/ RegisterFrom(c) \/ Join(c) \/ RunBegins(c)
  BY <1>1, <1>2, <1>8 DEF PassesDoor, RegisterFrom, Join, RunBegins, registry, Untouched, Reachable
<1>9. CASE ReadSnapshot(c)
  BY <1>1, <1>2, <1>9 DEF ReadSnapshot, registry, Untouched, Reachable
<1>10. CASE Refused(c) \/ UpgradeLost(c)
  BY <1>3, <1>4, <1>10 DEF Refused, UpgradeLost, Untouched, Reachable
<1>11. CASE Accept(c)
  <2>1. /\ held'[d] = held[d] /\ outbox'[d] = outbox[d] /\ step'[d] = step[d]
        /\ (d \in cut' <=> d \in cut) /\ (d \in holding' <=> d \in holding)
        /\ UNCHANGED <<published, place, joined, inHand, got, sawEnd>>
    BY <1>1, <1>2, <1>11 DEF Accept
  <2> QED BY <2>1 DEF Untouched, Reachable
<1>12. CASE TakeOut(c) \/ Draining(c)
  <2>1. /\ step'[d] = step[d] /\ inHand'[d] = inHand[d] /\ outbox'[d] = outbox[d]
        /\ UNCHANGED <<published, place, joined, cut, holding, held, got, sawEnd>>
    BY <1>1, <1>2, <1>12 DEF TakeOut, Draining
  <2> QED BY <2>1 DEF Untouched, Reachable
<1>13. CASE SendDone(c) \/ SendFails(c) \/ DrainSendDone(c) \/ DrainSendFails(c) \/ FlushSendDone(c)
  <2>1. step'[d] = step[d]
    BY <1>2, <1>13 DEF SendDone, SendFails, DrainSendDone, DrainSendFails, FlushSendDone
  <2>2. Sent(c) \/ NotSent(c)
    BY <1>13 DEF SendDone, SendFails, DrainSendDone, DrainSendFails, FlushSendDone
  <2> QED BY <1>5, <1>6, <2>1, <2>2 DEF registry, Untouched, Reachable
<1>14. CASE Hear(c) \/ PeerEnds(c) \/ SendClose(c)
  BY <1>1, <1>2, <1>14 DEF Hear, PeerEnds, SendClose, registry, Untouched, Reachable
<1>15. CASE Check(c) \/ PingDone(c) \/ PartDone(c)
  BY <1>1, <1>2, <1>15 DEF Check, PingDone, PartDone, registry, Untouched, Reachable
<1>16. CASE WorkerSeen(c)
  BY <1>1, <1>2, <1>3, <1>16 DEF WorkerSeen, Untouched, Reachable
<1>17. CASE Flush(c) \/ FlushSendFails(c)
  BY <1>1, <1>3, <1>17 DEF Flush, FlushSendFails, Untouched, Reachable
<1>18. CASE WorkerTakes(c) \/ WorkerAnswers(c)
  BY <1>18 DEF WorkerTakes, WorkerAnswers, registry, Untouched, Reachable
<1>19. CASE WorkerEnds(c)
  BY <1>4, <1>19 DEF WorkerEnds, Untouched, Reachable
<1> QED BY <1>7, <1>8, <1>9, <1>10, <1>11, <1>12, <1>13, <1>14, <1>15, <1>16, <1>17, <1>18, <1>19 DEF Opens, Loops, RunsOut


LEMMA LineInit == SocketsInit => LineInv
<1> SUFFICES ASSUME SocketsInit PROVE LineInv
  OBVIOUS
<1>1. SocketsTypes
  BY SocketsInitTypes
<1> SUFFICES ASSUME NEW c \in Conns PROVE LineShape(c) /\ LineOrder(c)
  BY <1>1 DEF LineInv
<1>2. /\ step[c] = "away" /\ place = {} /\ joined = {} /\ sawEnd[c] = FALSE
      /\ held[c] = <<>> /\ outbox[c] = <<>> /\ inHand[c] = <<>> /\ got[c] = <<>>
  BY DEF SocketsInit, NoFrame
<1>3. LineShape(c)
  BY <1>2 DEF LineShape
<1>4. LineOf(c) = <<>>
  BY <1>2 DEF LineOf, OneLine
<1>5. LineOrder(c)
  BY <1>2, <1>4, EmptyLine, SilentLine DEF LineOrder, Whole
<1> QED BY <1>3, <1>5

\* The worker's last event: what was held for the connection goes with its place.
LEMMA EndsLine ==
    ASSUME LineInv, NEW c \in Conns, WorkerEnds(c)
    PROVE  LineShape(c)' /\ LineOrder(c)'
<1>1. /\ SocketsTypes /\ LineShape(c) /\ LineOrder(c)
      /\ got[c] \in Seq(Item) /\ inHand[c] \in Seq(Item) /\ outbox[c] \in Seq(Item) /\ held[c] \in Seq(Item)
      /\ LineOf(c) = OneLine(got[c], inHand[c], outbox[c], held[c])
      /\ LineOf(c)' = OneLine(got'[c], inHand'[c], outbox'[c], held'[c])
      /\ StartOf(got[c], LineOf(c))
  BY LineFacts
<1>2. /\ UNCHANGED <<published, step, outbox, inHand, got, sawEnd>>
      /\ c \notin place' /\ held'[c] = <<>> /\ c \notin joined'
  BY <1>1 DEF WorkerEnds, Forget, SocketsTypes, SocketsTypeOK
<1>3. LineShape(c)' /\ ~Reachable(c)'
  BY <1>1, <1>2 DEF LineShape, Reachable
<1>4. StartOf(LineOf(c)', LineOf(c))
  BY <1>1, <1>2, CutShort
<1>5. LineOf(c) \in Seq(Item) /\ published \in Nat
  BY <1>1, LineType
<1>6. /\ SnapshotFirst(LineOf(c)) => SnapshotFirst(LineOf(c)')
      /\ NoneLost(LineOf(c)) => NoneLost(LineOf(c)')
      /\ ToldUpTo(LineOf(c), published) => ToldUpTo(LineOf(c)', published)
      /\ ~TellsOf(LineOf(c)) => ~TellsOf(LineOf(c)')
  BY <1>4, <1>5, StartKeeps
<1>7. Whole(c)' <=> Whole(c)
  BY <1>2 DEF Whole
<1>8. LineOrder(c)'
  BY <1>1, <1>2, <1>3, <1>6, <1>7 DEF LineOrder, InOrder, Following
<1> QED BY <1>3, <1>8

LEMMA LineStep == LineInv /\ [SocketsNext]_socketsVars => LineInv'
<1> SUFFICES ASSUME LineInv, [SocketsNext]_socketsVars PROVE LineInv'
  OBVIOUS
<1>0. SocketsTypes /\ \A d \in Conns : LineShape(d) /\ LineOrder(d)
  BY DEF LineInv
<1>1. SocketsTypes' /\ published' \in 0..Publishes
  BY <1>0, SocketsStepTypes DEF SocketsTypes, SocketsTypeOK
<1> SUFFICES \A d \in Conns : LineShape(d)' /\ LineOrder(d)'
  BY <1>1 DEF LineInv
<1>2. CASE Publish
  <2>1. published + 1 \in 1..Publishes
    BY <1>0, <1>2, SocketsAssumption DEF Publish, SocketsTypes, SocketsTypeOK
  <2>2. Told(published + 1) \in Item
    BY <2>1, ItemType
  <2> QED BY <1>1, <1>2, <2>2, TellingKeepsLines DEF Publish
<1>3. CASE Hide
  BY <1>1, <1>3, ItemType, TellingKeepsLines DEF Hide
<1>4. ASSUME NEW c \in Conns, WorkerCloses(c) PROVE \A d \in Conns : LineShape(d)' /\ LineOrder(d)'
  BY <1>1, <1>4, ItemType, TellingKeepsLines DEF WorkerCloses
<1>5. ASSUME NEW c \in Conns, Opens(c) \/ Loops(c) \/ RunsOut(c) \/ WorkerTakes(c) \/ WorkerAnswers(c) \/ WorkerEnds(c)
      PROVE  \A d \in Conns : LineShape(d)' /\ LineOrder(d)'
  <2>1. ASSUME NEW d \in Conns, d # c PROVE LineShape(d)' /\ LineOrder(d)'
    <3>1. Untouched(d)
      BY <1>0, <1>5, <2>1, OthersStay
    <3> QED BY <1>0, <3>1, LineStays
  <2>2. CASE WorkerTakes(c) \/ WorkerAnswers(c)
    <3>1. Untouched(c)
      BY <2>2 DEF WorkerTakes, WorkerAnswers, registry, Untouched, Reachable
    <3>2. LineShape(c)' /\ LineOrder(c)'
      BY <1>0, <3>1, LineStays
    <3> QED BY <2>1, <3>2
  <2>3. CASE WorkerEnds(c)
    <3>1. LineShape(c)' /\ LineOrder(c)'
      BY <2>3, EndsLine
    <3> QED BY <2>1, <3>1
  <2>4. CASE Opens(c)
    <3>1. LineShape(c)' /\ LineOrder(c)'
      BY <2>4, OpeningKeepsLine
    <3> QED BY <2>1, <3>1
  <2>5. CASE Loops(c) \/ RunsOut(c)
    <3>1. LineShape(c)' /\ LineOrder(c)'
      BY <2>5, LoopKeepsLine
    <3> QED BY <2>1, <3>1
  <2> QED BY <1>5, <2>2, <2>3, <2>4, <2>5
<1>6. CASE UNCHANGED socketsVars
  <2> SUFFICES ASSUME NEW d \in Conns PROVE LineShape(d)' /\ LineOrder(d)'
    OBVIOUS
  <2>1. Untouched(d)
    BY <1>6 DEF socketsVars, Untouched, Reachable
  <2> QED BY <1>0, <2>1, LineStays
<1> QED BY <1>2, <1>3, <1>4, <1>5, <1>6 DEF SocketsNext, Works

LEMMA LineShown == LineInv => SnapshotThenTheRest
<1> SUFFICES ASSUME LineInv, NEW c \in Conns
             PROVE  /\ SnapshotFirst(Line(c))
                    /\ NoneLost(Line(c))
                    /\ GoesOn(c) /\ Reachable(c) => ToTheLast(Line(c), published)
  BY DEF SnapshotThenTheRest
<1>1. LineOrder(c) /\ got[c] \in Seq(Item)
  BY LineFacts
<1>2. CASE GoesOn(c)
  <2>1. Line(c) = LineOf(c)
    BY <1>2 DEF Line, LineOf, OneLine
  <2>2. Whole(c)
    BY <1>2 DEF GoesOn, Whole
  <2> QED BY <1>1, <2>1, <2>2 DEF LineOrder, InOrder
<1>3. CASE ~GoesOn(c)
  <2>1. Line(c) = got[c]
    BY <1>1, <1>3, NothingMore DEF Line
  <2> QED BY <1>1, <1>3, <2>1 DEF LineOrder
<1> QED BY <1>2, <1>3

\* runtime/connections.rs:15-16: whatever is published, said or cut off while an
\* app's handler joins, reads and answers, its snapshot is the first thing its
\* connection is told, and nothing published after it is missing.
THEOREM SnapshotComesFirst == SocketsSpec => []SnapshotThenTheRest
BY LineInit, LineStep, LineShown, PTL DEF SocketsSpec
=============================================================================
