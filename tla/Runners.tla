------------------------------ MODULE Runners ------------------------------
(***************************************************************************)
(* The runner registry, src/src/state/runners.rs, and the refusal it       *)
(* feeds: app databases are SQLite files on one volume, and a runner that  *)
(* sees another one does not open them (Stores::sqlite_refusal).           *)
(*                                                                         *)
(* Heartbeats are kept as ages, counted up to the age at which a row is    *)
(* forgotten; the clocks of the runners agree.                             *)
(***************************************************************************)
EXTENDS Integers, FiniteSets

CONSTANTS Processes,  \* server processes, each with an id of its own
          LiveFor,    \* LIVE_FOR
          ForgetAfter,\* FORGET_AFTER
          Punctual    \* whether heartbeats are written before the last one is LiveFor old

ASSUME RunnersAssumption ==
    /\ IsFiniteSet(Processes)
    /\ LiveFor \in Nat \ {0}
    /\ ForgetAfter \in Nat /\ ForgetAfter >= LiveFor
    /\ Punctual \in BOOLEAN

VARIABLES row,    \* state.runners: the age of each runner's heartbeat, NoBeat without a row
          peers,  \* Runner.peers: the others it saw at its last heartbeat
          phase,   \* down, starting, up, leaving
          beat,   \* where its heartbeat is: none, write, read
          began   \* how long ago that heartbeat read the clock

runnersVars == <<row, peers, phase, beat, began>>

NoBeat == ForgetAfter + 1

RunnersTypeOK ==
    /\ row \in [Processes -> 0..NoBeat]
    /\ peers \in [Processes -> SUBSET Processes]
    /\ phase \in [Processes -> {"down", "starting", "up", "leaving"}]
    /\ beat \in [Processes -> {"none", "write", "read"}]
    /\ began \in [Processes -> 0..ForgetAfter]

RunnersInit ==
    /\ row = [r \in Processes |-> NoBeat]
    /\ peers = [r \in Processes |-> {}]
    /\ phase = [r \in Processes |-> "down"]
    /\ beat = [r \in Processes |-> "none"]
    /\ began = [r \in Processes |-> 0]

Running(r) == phase[r] # "down"

\* Mutants: live for too short a time; live for as long as there is a row.
BeatsShort(s, r) == row[s] - began[r] < LiveFor - 1

BeatsForEver(s, r) == row[s] # NoBeat

\* What r counts as live, by the clock it read when its heartbeat began.
Beats(s, r) == row[s] # NoBeat /\ row[s] - began[r] < LiveFor

\* Stores::sqlite_refusal: whether the process opens app databases.
Serves(r) == phase[r] = "up" /\ peers[r] = {}

-----------------------------------------------------------------------------

\* register: rows of runners long gone are swept, and the first heartbeat begins.
\* A restart is a new runner: an id is free again once its row is.
Register(r) ==
    /\ phase[r] = "down"
    /\ row[r] >= ForgetAfter
    /\ phase' = [phase EXCEPT ![r] = "starting"]
    /\ row' = [s \in Processes |-> IF row[s] >= ForgetAfter THEN NoBeat ELSE row[s]]
    /\ beat' = [beat EXCEPT ![r] = "write"]
    /\ began' = [began EXCEPT ![r] = 0]
    /\ UNCHANGED peers

\* spawn: the next heartbeat begins; leaving does not stop it.
BeatBegins(r) ==
    /\ phase[r] \in {"up", "leaving"}
    /\ beat[r] = "none"
    /\ beat' = [beat EXCEPT ![r] = "write"]
    /\ began' = [began EXCEPT ![r] = 0]
    /\ UNCHANGED <<row, peers, phase>>

\* A row someone swept, or this process took out, is written again.
BeatWrite(r) ==
    /\ beat[r] = "write"
    /\ row' = [row EXCEPT ![r] = began[r]]
    /\ beat' = [beat EXCEPT ![r] = "read"]
    /\ UNCHANGED <<peers, phase, began>>

BeatRead(r) ==
    /\ beat[r] = "read"
    /\ peers' = [peers EXCEPT ![r] = {s \in Processes \ {r} : Beats(s, r)}]
    /\ beat' = [beat EXCEPT ![r] = "none"]
    /\ began' = [began EXCEPT ![r] = 0]
    /\ phase' = [phase EXCEPT ![r] = IF @ = "starting" THEN "up" ELSE @]
    /\ UNCHANGED row

\* A heartbeat that fails leaves what was seen before; one that fails at
\* start stops the start.
BeatFails(r) ==
    /\ beat[r] \in {"write", "read"}
    /\ beat' = [beat EXCEPT ![r] = "none"]
    /\ began' = [began EXCEPT ![r] = 0]
    /\ phase' = [phase EXCEPT ![r] = IF @ = "starting" THEN "down" ELSE @]
    /\ UNCHANGED <<row, peers>>

\* leave, on SIGTERM, and the exit that follows it.
Leave(r) ==
    /\ phase[r] = "up"
    /\ phase' = [phase EXCEPT ![r] = "leaving"]
    /\ row' = [row EXCEPT ![r] = NoBeat]
    /\ UNCHANGED <<peers, beat, began>>

\* It exits, or dies at any moment; its row stays.
Exit(r) ==
    /\ Running(r)
    /\ phase' = [phase EXCEPT ![r] = "down"]
    /\ peers' = [peers EXCEPT ![r] = {}]
    /\ beat' = [beat EXCEPT ![r] = "none"]
    /\ began' = [began EXCEPT ![r] = 0]
    /\ UNCHANGED row

Ages(a) == IF a < ForgetAfter THEN a + 1 ELSE a

\* Time cannot pass without the heartbeat of r, or the row of it, becoming stale.
Late(r) ==
    \/ beat[r] = "write" /\ began[r] + 1 >= LiveFor
    \/ (phase[r] = "up" \/ beat[r] = "read") /\ row[r] + 1 >= LiveFor

RunnersTick ==
    /\ Punctual => \A r \in Processes : ~Late(r)
    /\ row' = [r \in Processes |-> Ages(row[r])]
    /\ began' = [r \in Processes |-> IF beat[r] = "none" THEN 0 ELSE Ages(began[r])]
    /\ UNCHANGED <<peers, phase, beat>>

RunnersNext ==
    \/ \E r \in Processes :
          \/ Register(r) \/ Leave(r) \/ Exit(r)
          \/ BeatBegins(r) \/ BeatWrite(r) \/ BeatRead(r) \/ BeatFails(r)
    \/ RunnersTick

RunnersSpec == RunnersInit /\ [][RunnersNext]_runnersVars

-----------------------------------------------------------------------------

\* runners.rs:4-8, two live runners would be two writers on one set of SQLite
\* files: while heartbeats are punctual, however registrations, heartbeats and
\* deaths fall, two processes never both open app databases.
OneServes == \A r, s \in Processes : Serves(r) /\ Serves(s) => r = s

\* runners.rs:4-8 and report, "alone on the database again: app databases are
\* served": a runner that is left alone comes to serve them.
LeftAlone(r) == phase[r] = "up" /\ \A s \in Processes \ {r} : phase[s] = "down"

AloneServes == \A r \in Processes : LeftAlone(r) ~> (Serves(r) \/ ~LeftAlone(r))

=============================================================================
