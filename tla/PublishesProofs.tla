--------------------------- MODULE PublishesProofs ---------------------------
(* Proofs about the published files of an app, for any number of files,       *)
(* writers, readers and runners, and however many are lost.                   *)
EXTENDS Publishes, TLAPS

\* What a writer left at a key, or something newer, is there.
WroteBefore == \A w \in Writers, k \in Keys : writer[w].wrote[k] <= objects[k]

\* Generations come from one sequence, and a reader has one of them.
NumbersGiven ==
    /\ generation <= sequence
    /\ \A e \in cache : e[2] <= sequence
    /\ \A a \in Readers : reader[a].generation <= sequence

Asks(a) == reader[a].at \in {"look", "fetched"}

ReadersAsk == \A a \in Readers : Asks(a) => reader[a].runner \in Runners /\ reader[a].key \in Keys

Counted(w) == writer[w].at \in {"release", "retire", "ok"}

\* A file fetched under the current generation, like one kept.
FetchedAsDone ==
    \A w \in Writers, a \in Readers :
        Counted(w) /\ reader[a].at = "fetched" /\ generation > 0 /\ reader[a].generation = generation =>
            reader[a].got >= writer[w].wrote[reader[a].key]

CacheInv == NumbersGiven /\ ReadersAsk /\ FetchedAsDone /\ DoneIsServed

-----------------------------------------------------------------------------

WriteOf(w, k) == Put(w, k) \/ Delete(w, k) \/ MoveToTrash(w, k) \/ MoveBack(w, k)

LEMMA TypeUnfolded ==
    ASSUME PublishesTypeOK
    PROVE  /\ objects \in [Keys -> Nat]
           /\ writer \in [Writers -> Operation]
           /\ \A w \in Writers : /\ writer[w] \in Operation
                                 /\ writer[w].left \subseteq Keys
                                 /\ writer[w].wrote \in [Keys -> Nat]
  BY DEF PublishesTypeOK, Operation

\* A call of a writer about a key.
LEMMA WriteFacts ==
    ASSUME PublishesTypeOK, NEW w \in Writers, NEW k \in Keys, WriteOf(w, k)
    PROVE  /\ writer[w].at \in {"write", "dropped"}
           /\ there' \subseteq Keys
           /\ trash' \subseteq Keys
           /\ \E answered \in BOOLEAN, changes \in BOOLEAN : Call(w, k, answered, changes)
<1>0. /\ TRUE \in BOOLEAN /\ FALSE \in BOOLEAN
      /\ (k \in there) \in BOOLEAN /\ (k \in trash) \in BOOLEAN
  OBVIOUS
<1> USE DEF PublishesTypeOK, Writing
<1>1. CASE Put(w, k)
  BY <1>1 DEF Put
<1>2. CASE Delete(w, k)
  <2>1. Call(w, k, TRUE, k \in there) \/ Call(w, k, FALSE, TRUE)
    BY <1>2 DEF Delete
  <2>2. \E answered \in BOOLEAN, changes \in BOOLEAN : Call(w, k, answered, changes)
    BY <1>0, <2>1, Zenon
  <2> QED
    BY <1>2, <2>2 DEF Delete
<1>3. CASE MoveToTrash(w, k)
  <2>1. Call(w, k, TRUE, k \in there) \/ Call(w, k, FALSE, TRUE)
    BY <1>3 DEF MoveToTrash
  <2>2. \E answered \in BOOLEAN, changes \in BOOLEAN : Call(w, k, answered, changes)
    BY <1>0, <2>1, Zenon
  <2> QED
    BY <1>3, <2>2 DEF MoveToTrash
<1>4. CASE MoveBack(w, k)
  <2>1. Call(w, k, TRUE, k \in trash) \/ Call(w, k, FALSE, TRUE)
    BY <1>4 DEF MoveBack
  <2>2. \E answered \in BOOLEAN, changes \in BOOLEAN : Call(w, k, answered, changes)
    BY <1>0, <2>1, Zenon
  <2> QED
    BY <1>4, <2>2 DEF MoveBack
<1> QED
  BY <1>1, <1>2, <1>3, <1>4 DEF WriteOf

LEMMA CallFacts ==
    ASSUME PublishesTypeOK, NEW w \in Writers, NEW k \in Keys,
           NEW answered \in BOOLEAN, NEW changes \in BOOLEAN, Call(w, k, answered, changes)
    PROVE  /\ objects' \in [Keys -> Nat]
           /\ \A j \in Keys : objects'[j] >= objects[j]
           /\ writer' \in [Writers -> Operation]
           /\ \A v \in Writers \ {w} : writer'[v] = writer[v]
           /\ writer'[w].at = writer[w].at
           /\ \A j \in Keys : writer'[w].wrote[j] \in {writer[w].wrote[j], objects'[j]}
           /\ losses' \in 0..Losses
           /\ UNCHANGED <<generation, sequence, cache, turn, reader>>
<1> DEFINE left == IF answered THEN writer[w].left \ {k} ELSE writer[w].left
           new == IF changes THEN objects[k] + 1 ELSE writer[w].wrote[k]
           wrote == [writer[w].wrote EXCEPT ![k] = new]
           r == [writer[w] EXCEPT !.left = left, !.wrote = wrote]
<1>1. objects \in [Keys -> Nat] /\ writer[w] \in Operation /\ writer[w].left \subseteq Keys
      /\ writer[w].wrote \in [Keys -> Nat] /\ writer \in [Writers -> Operation]
  BY TypeUnfolded
<1>2. objects' = IF changes THEN [objects EXCEPT ![k] = @ + 1] ELSE objects
  BY DEF Call
<1>3. objects' \in [Keys -> Nat] /\ \A j \in Keys : objects'[j] >= objects[j]
  BY <1>1, <1>2
<1>4. new \in Nat /\ (new = writer[w].wrote[k] \/ new = objects'[k])
  BY <1>1, <1>2
<1>5. wrote \in [Keys -> Nat] /\ \A j \in Keys : wrote[j] \in {writer[w].wrote[j], objects'[j]}
  <2> HIDE DEF new
  <2> QED
    BY <1>1, <1>4
<1>6. left \subseteq Keys
  BY <1>1
<1>7. writer' = [writer EXCEPT ![w] = r]
  BY <1>1 DEF Call
<1>8. r \in Operation /\ r.at = writer[w].at /\ r.wrote = wrote
  <2> HIDE DEF wrote, left
  <2> QED
    BY <1>1, <1>5, <1>6 DEF Operation
<1>9. losses' \in 0..Losses
  BY PublishesAssumption DEF Call, Lose, PublishesTypeOK
<1> QED
  <2> HIDE DEF r, wrote
  <2>1. writer' \in [Writers -> Operation] /\ writer'[w] = r
        /\ \A v \in Writers \ {w} : writer'[v] = writer[v]
    BY <1>1, <1>7, <1>8
  <2> QED
    BY <1>3, <1>5, <1>8, <1>9, <2>1 DEF Call

\* A writer that goes on without a call: it takes its turn, counts, lets go or ends.
LEMMA EndsFacts ==
    ASSUME PublishesTypeOK, NEW w \in Writers, NEW at \in {"retire", "dropped", "ok", "failed"},
           Ends(w, at)
    PROVE  /\ writer' \in [Writers -> Operation]
           /\ \A v \in Writers \ {w} : writer'[v] = writer[v]
           /\ writer'[w].at = at
           /\ \A j \in Keys : writer'[w].wrote[j] \in {writer[w].wrote[j], 0}
<1>1. writer \in [Writers -> Operation] /\ writer[w] \in Operation
  BY TypeUnfolded
<1> DEFINE r == IF at = "failed" THEN EndsAs(at) ELSE [writer[w] EXCEPT !.at = at]
<1>2. r \in Operation /\ r.at = at /\ \A j \in Keys : r.wrote[j] \in {writer[w].wrote[j], 0}
  BY <1>1 DEF Operation, EndsAs, Untouched
<1>3. writer' = [writer EXCEPT ![w] = r]
  BY <1>1 DEF Ends
<1> QED
  <2> HIDE DEF r
  <2> QED
    BY <1>1, <1>2, <1>3

LEMMA ReadingType ==
    ASSUME PublishesTypeOK, NEW a \in Readers,
           Look(a) \/ Fetch(a) \/ Keep(a) \/ Leaves(a), ReadersAsk
    PROVE  /\ reader' \in [Readers -> Request]
           /\ cache' \subseteq Runners \X Nat \X Keys \X Nat
<1> USE DEF PublishesTypeOK, Operation, Request
<1>1. CASE Look(a)
  <2>1. PICK r \in Runners, k \in Keys :
            reader' = [reader EXCEPT ![a] = [NoRequest("look") EXCEPT !.runner = r, !.key = k,
                                                                      !.generation = generation]]
    BY <1>1 DEF Look
  <2> DEFINE q == [NoRequest("look") EXCEPT !.runner = r, !.key = k, !.generation = generation]
  <2>2. q \in Request
    BY DEF NoRequest
  <2>3. reader' = [reader EXCEPT ![a] = q] /\ cache' = cache
    BY <1>1, <2>1 DEF Look
  <2> QED
    <3> HIDE DEF q
    <3> QED
      BY <2>2, <2>3
<1>2. CASE Fetch(a)
  <2> DEFINE r == [reader[a] EXCEPT !.at = "fetched", !.got = objects[reader[a].key],
                                    !.found = reader[a].key \in there]
  <2>1. objects[reader[a].key] \in Nat /\ reader[a] \in Request
    BY <1>2 DEF Fetch, ReadersAsk, Asks
  <2>2. r \in Request
    <3> DEFINE found == reader[a].key \in there
    <3>1. found \in BOOLEAN
      OBVIOUS
    <3> HIDE DEF found
    <3> QED
      BY <2>1, <3>1 DEF found
  <2>3. reader' = [reader EXCEPT ![a] = r] /\ cache' = cache
    BY <1>2 DEF Fetch
  <2> QED
    <3> HIDE DEF r
    <3> QED
      BY <2>2, <2>3
<1>3. CASE Leaves(a)
  BY <1>3 DEF Leaves, NoRequest
<1>4. CASE Keep(a)
  <2>1. reader[a].runner \in Runners /\ reader[a].key \in Keys
    BY <1>4 DEF Keep, ReadersAsk, Asks
  <2>2. cache' \subseteq Runners \X Nat \X Keys \X Nat
    BY <1>4, <2>1 DEF Keep
  <2> QED
    BY <1>4, <2>2 DEF Keep, NoRequest
<1> QED
  BY <1>1, <1>2, <1>3, <1>4

LEMMA InitPublishes == PublishesInit => PublishesTypeOK /\ WroteBefore /\ CacheInv
<1> SUFFICES ASSUME PublishesInit PROVE PublishesTypeOK /\ WroteBefore /\ CacheInv
  OBVIOUS
<1> USE PublishesAssumption DEF PublishesInit, Untouched, EndsAs, NoRequest
<1>1. PublishesTypeOK
  BY DEF PublishesTypeOK, Operation, Request
<1>2. WroteBefore
  BY DEF WroteBefore
<1>3. CacheInv
  BY DEF CacheInv, NumbersGiven, ReadersAsk, Asks, FetchedAsDone, DoneIsServed
<1> QED
  BY <1>1, <1>2, <1>3

LEMMA NextPublishesType ==
    PublishesTypeOK /\ ReadersAsk /\ [PublishesNext]_publishesVars => PublishesTypeOK'
<1> SUFFICES ASSUME PublishesTypeOK, ReadersAsk, [PublishesNext]_publishesVars
             PROVE  PublishesTypeOK'
  OBVIOUS
<1> USE PublishesAssumption DEF bucket
<1>1. ASSUME NEW w \in Writers, TakeTurn(w) PROVE PublishesTypeOK'
  <2>1. PICK op \in {"publish", "unpublish", "remove", "page", "restore"} :
            \E keys \in About(op), at \in {"write", "release"} :
                writer' = [writer EXCEPT ![w] = [op |-> op, at |-> at, left |-> keys, wrote |-> Untouched]]
    BY <1>1 DEF TakeTurn
  <2>2. PICK keys \in SUBSET Keys, at \in {"write", "release"} :
            writer' = [writer EXCEPT ![w] = [op |-> op, at |-> at, left |-> keys, wrote |-> Untouched]]
    <3>1. About(op) \subseteq SUBSET Keys
      BY DEF About
    <3> QED
      BY <2>1, <3>1
  <2>3. [op |-> op, at |-> at, left |-> keys, wrote |-> Untouched] \in Operation
    BY <2>1, <2>2 DEF Operation, Untouched
  <2>4. writer' \in [Writers -> Operation]
    BY <2>2, <2>3, TypeUnfolded
  <2>5. turn' \in Writers /\ UNCHANGED <<bucket, generation, sequence, cache, reader, losses>>
    BY <1>1 DEF TakeTurn
  <2> QED
    BY <2>4, <2>5 DEF PublishesTypeOK, Request
<1>2. ASSUME NEW w \in Writers, CountGeneration(w) PROVE PublishesTypeOK'
  <2>1. writer' \in [Writers -> Operation]
    BY <1>2 DEF CountGeneration, PublishesTypeOK, Operation
  <2>2. sequence' \in Nat /\ generation' \in Nat
    BY <1>2 DEF CountGeneration, NextGeneration, PublishesTypeOK
  <2>3. UNCHANGED <<bucket, cache, turn, reader, losses>>
    BY <1>2 DEF CountGeneration
  <2> QED
    BY <2>1, <2>2, <2>3 DEF PublishesTypeOK, Request
<1>3. ASSUME NEW w \in Writers, Release(w) PROVE PublishesTypeOK'
  <2>1. \E at \in {"retire", "dropped", "ok", "failed"} : Ends(w, at)
    BY <1>3 DEF Release
  <2>2. turn' \in Writers \union {NoOne} /\ UNCHANGED <<bucket, generation, sequence, cache, reader, losses>>
    BY <1>3 DEF Release, LetsGo, PublishesTypeOK
  <2> QED
    BY <2>1, <2>2, EndsFacts DEF PublishesTypeOK, Request
<1>4. ASSUME NEW w \in Writers, Retire(w) PROVE PublishesTypeOK'
  <2>1. Ends(w, "ok") /\ generation' = 0 /\ UNCHANGED <<bucket, sequence, cache, turn, reader, losses>>
    BY <1>4 DEF Retire
  <2> QED
    BY <2>1, EndsFacts DEF PublishesTypeOK, Request
<1>5. ASSUME NEW w \in Writers, CallerGoes(w) PROVE PublishesTypeOK'
  <2>1. \E at \in {"retire", "dropped", "ok", "failed"} : Ends(w, at)
    BY <1>5 DEF CallerGoes
  <2>2. turn' \in Writers \union {NoOne} /\ UNCHANGED <<bucket, generation, sequence, cache, reader>>
    BY <1>5 DEF CallerGoes, LetsGo, PublishesTypeOK
  <2>3. losses' \in 0..Losses
    BY <1>5 DEF CallerGoes, Lose, PublishesTypeOK
  <2> QED
    BY <2>1, <2>2, <2>3, EndsFacts DEF PublishesTypeOK, Request
<1>6. ASSUME NEW w \in Writers, NEW k \in Keys, WriteOf(w, k) PROVE PublishesTypeOK'
  <2>1. there' \subseteq Keys /\ trash' \subseteq Keys
    BY <1>6, WriteFacts
  <2>2. /\ objects' \in [Keys -> Nat] /\ writer' \in [Writers -> Operation]
        /\ losses' \in 0..Losses
        /\ UNCHANGED <<generation, sequence, cache, turn, reader>>
    BY <1>6, WriteFacts, CallFacts
  <2> QED
    BY <2>1, <2>2 DEF PublishesTypeOK, Request
<1>7. CASE TurnIsLost
  BY <1>7 DEF TurnIsLost, Lose, PublishesTypeOK, Operation, Request
<1>8. ASSUME NEW a \in Readers, Look(a) \/ Fetch(a) \/ Keep(a) \/ Leaves(a)
      PROVE  PublishesTypeOK'
  <2>1. UNCHANGED <<bucket, generation, sequence, turn, writer, losses>>
    BY <1>8 DEF Look, Fetch, Keep, Leaves
  <2> QED
    BY <1>8, <2>1, ReadingType DEF PublishesTypeOK, Operation, Request
<1>9. CASE UNCHANGED publishesVars
  BY <1>9 DEF publishesVars, PublishesTypeOK, Operation, Request
<1> QED
  BY <1>1, <1>2, <1>3, <1>4, <1>5, <1>6, <1>7, <1>8, <1>9 DEF PublishesNext, WriteOf

\* What a step of a writer leaves of its operation and of what is at the keys.
LEMMA WriterSteps ==
    ASSUME PublishesTypeOK, NEW w \in Writers,
           \/ TakeTurn(w) \/ Release(w) \/ Retire(w) \/ CallerGoes(w)
    PROVE  /\ \A v \in Writers \ {w} : writer'[v] = writer[v]
           /\ \A j \in Keys : writer'[w].wrote[j] \in {writer[w].wrote[j], 0}
           /\ Counted(w)' => Counted(w) \/ \A j \in Keys : writer'[w].wrote[j] = 0
           /\ UNCHANGED <<objects, sequence, cache, reader>>
           /\ generation' \in {generation, 0}
<1> USE DEF bucket
<1>1. CASE TakeTurn(w)
  BY <1>1, TypeUnfolded DEF TakeTurn, Untouched
<1>2. CASE Release(w)
  <2>1. PICK at \in {"retire", "ok", "failed"} : Ends(w, at)
    BY <1>2 DEF Release
  <2>2. ASSUME Counted(w)', ~Counted(w), NEW j \in Keys PROVE writer'[w].wrote[j] = 0
    <3>1. writer[w].at = "write" /\ writer'[w].at # "failed"
      BY <1>2, <2>2 DEF Release, Counted
    <3>2. writer[w].left = {} /\ ~MustCount(w)
      <4>1. at # "failed"
        BY <2>1, <3>1, EndsFacts
      <4> DEFINE done == writer[w].left = {} /\ (writer[w].at = "release" \/ ~MustCount(w))
      <4>2. Ends(w, IF ~done THEN "failed" ELSE IF writer[w].op = "remove" THEN "retire" ELSE "ok")
        BY <1>2 DEF Release
      <4>3. ~done => writer'[w].at = "failed"
        BY <4>2, EndsFacts
      <4> QED
        BY <3>1, <4>3
    <3>3. Touched(w) = {}
      BY <3>2 DEF MustCount, Known
    <3>4. writer[w].wrote[j] = 0
      BY <3>3 DEF Touched
    <3> QED
      BY <2>1, <3>4, EndsFacts
  <2> QED
    BY <1>2, <2>1, <2>2, EndsFacts DEF Release
<1>3. CASE Retire(w)
  BY <1>3, EndsFacts DEF Retire, Counted
<1>4. CASE CallerGoes(w)
  BY <1>4, EndsFacts DEF CallerGoes, Counted
<1> QED
  BY <1>1, <1>2, <1>3, <1>4

LEMMA NextWrote ==
    PublishesTypeOK /\ WroteBefore /\ [PublishesNext]_publishesVars => WroteBefore'
<1> SUFFICES ASSUME PublishesTypeOK, WroteBefore, [PublishesNext]_publishesVars
             PROVE  WroteBefore'
  OBVIOUS
<1> USE TypeUnfolded DEF WroteBefore
<1>1. ASSUME NEW w \in Writers, TakeTurn(w) \/ Release(w) \/ Retire(w) \/ CallerGoes(w)
      PROVE  WroteBefore'
  BY <1>1, WriterSteps
<1>2. ASSUME NEW w \in Writers, CountGeneration(w) PROVE WroteBefore'
  BY <1>2 DEF CountGeneration, bucket
<1>3. ASSUME NEW w \in Writers, NEW k \in Keys, WriteOf(w, k) PROVE WroteBefore'
  <2>1. PICK answered \in BOOLEAN, changes \in BOOLEAN : Call(w, k, answered, changes)
    BY <1>3, WriteFacts
  <2>2. /\ objects' \in [Keys -> Nat]
        /\ \A j \in Keys : objects'[j] >= objects[j]
        /\ \A v \in Writers \ {w} : writer'[v] = writer[v]
        /\ \A j \in Keys : writer'[w].wrote[j] \in {writer[w].wrote[j], objects'[j]}
    BY <2>1, CallFacts
  <2> QED
    BY <2>2
<1>4. CASE UNCHANGED <<bucket, writer>>
  BY <1>4 DEF bucket
<1> QED
  BY <1>1, <1>2, <1>3, <1>4
  DEF PublishesNext, WriteOf, TurnIsLost, Look, Fetch, Keep, Leaves, publishesVars, bucket

\* Each step keeps what is cached under the current generation, and what is on
\* its way there, no older than what was counted.
LEMMA NextCache ==
    PublishesTypeOK /\ WroteBefore /\ CacheInv /\ [PublishesNext]_publishesVars => CacheInv'
<1> SUFFICES ASSUME PublishesTypeOK, WroteBefore, CacheInv, [PublishesNext]_publishesVars
             PROVE  CacheInv'
  OBVIOUS
<1> USE DEF CacheInv, NumbersGiven, ReadersAsk, Asks, FetchedAsDone, DoneIsServed, Counted
<1>0. /\ sequence \in Nat /\ generation \in Nat
      /\ \A e \in cache : e[2] \in Nat /\ e[3] \in Keys /\ e[4] \in Nat
      /\ \A a \in Readers : reader[a] \in Request /\ reader[a].generation \in Nat /\ reader[a].got \in Nat
  BY DEF PublishesTypeOK, Request
<1>1. ASSUME NEW w \in Writers, TakeTurn(w) \/ Release(w) \/ Retire(w) \/ CallerGoes(w)
      PROVE  CacheInv'
  <2>1. /\ \A v \in Writers \ {w} : writer'[v] = writer[v]
        /\ \A j \in Keys : writer'[w].wrote[j] \in {writer[w].wrote[j], 0}
        /\ Counted(w)' => Counted(w) \/ \A j \in Keys : writer'[w].wrote[j] = 0
        /\ UNCHANGED <<objects, sequence, cache, reader>>
        /\ generation' \in {generation, 0}
    BY <1>1, WriterSteps
  <2>2. NumbersGiven' /\ ReadersAsk'
    BY <2>1, <1>0
  <2>3. DoneIsServed'
    BY <2>1, <1>0
  <2>4. FetchedAsDone'
    BY <2>1, <1>0
  <2> QED
    BY <2>2, <2>3, <2>4
<1>2. ASSUME NEW w \in Writers, CountGeneration(w) PROVE CacheInv'
  <2>1. /\ sequence' = sequence + 1 /\ generation' = sequence + 1
        /\ UNCHANGED <<cache, reader>>
    BY <1>2 DEF CountGeneration, NextGeneration
  <2>2. (\A e \in cache : e[2] # generation') /\ \A a \in Readers : reader[a].generation # generation'
    BY <2>1, <1>0
  <2>3. NumbersGiven'
    BY <2>1, <1>0
  <2> QED
    BY <2>1, <2>2, <2>3
<1>3. ASSUME NEW w \in Writers, NEW k \in Keys, WriteOf(w, k) PROVE CacheInv'
  <2>1. PICK answered \in BOOLEAN, changes \in BOOLEAN : Call(w, k, answered, changes)
    BY <1>3, WriteFacts
  <2>2. /\ \A v \in Writers \ {w} : writer'[v] = writer[v]
        /\ writer'[w].at = writer[w].at
        /\ UNCHANGED <<generation, sequence, cache, turn, reader>>
    BY <2>1, CallFacts
  <2>3. writer[w].at \notin {"release", "retire", "ok"}
    BY <1>3, WriteFacts
  <2> QED
    BY <2>2, <2>3
<1>4. CASE TurnIsLost
  BY <1>4 DEF TurnIsLost
<1>5. ASSUME NEW a \in Readers, Look(a) PROVE CacheInv'
  <2>1. PICK r \in Runners, k \in Keys :
            reader' = [reader EXCEPT ![a] = [NoRequest("look") EXCEPT !.runner = r, !.key = k,
                                                                      !.generation = generation]]
    BY <1>5 DEF Look
  <2>2. /\ \A b \in Readers : b # a => reader'[b] = reader[b]
        /\ reader'[a].at = "look" /\ reader'[a].runner \in Runners
        /\ reader'[a].key \in Keys /\ reader'[a].generation = generation
    BY <2>1 DEF PublishesTypeOK, NoRequest
  <2>3. UNCHANGED <<generation, sequence, cache, writer>>
    BY <1>5 DEF Look
  <2> QED
    BY <2>2, <2>3
<1>6. ASSUME NEW a \in Readers, Fetch(a) PROVE CacheInv'
  <2>1. /\ \A b \in Readers : b # a => reader'[b] = reader[b]
        /\ reader[a].at = "look" /\ reader'[a].runner = reader[a].runner
        /\ reader'[a].key = reader[a].key /\ reader'[a].generation = reader[a].generation
        /\ reader'[a].got = objects[reader[a].key]
    BY <1>6 DEF Fetch, PublishesTypeOK, Request
  <2>2. UNCHANGED <<generation, sequence, cache, writer>>
    BY <1>6 DEF Fetch
  <2>3. \A w \in Writers : reader'[a].got >= writer[w].wrote[reader[a].key]
    BY <2>1, TypeUnfolded DEF WroteBefore
  <2> QED
    BY <2>1, <2>2, <2>3
<1>7. ASSUME NEW a \in Readers, Keep(a) \/ Leaves(a) PROVE CacheInv'
  <2>1. /\ \A b \in Readers : b # a => reader'[b] = reader[b]
        /\ reader'[a].at = "done" /\ reader'[a].generation = 0
    BY <1>7 DEF Keep, Leaves, NoRequest, PublishesTypeOK
  <2>2. UNCHANGED <<generation, sequence, writer>>
    BY <1>7 DEF Keep, Leaves
  <2> DEFINE e == <<reader[a].runner, reader[a].generation, reader[a].key, reader[a].got>>
  <2>3. cache' \subseteq cache \/ (reader[a].at = "fetched" /\ cache' \subseteq cache \union {e})
    BY <1>7 DEF Keep, Leaves
  <2>4. reader[a].at = "fetched" =>
          /\ e[2] <= sequence
          /\ \A w \in Writers : Counted(w) /\ generation > 0 /\ e[2] = generation
               => e[4] >= writer[w].wrote[e[3]]
    OBVIOUS
  <2>5. \A x \in cache' :
          /\ x[2] <= sequence
          /\ \A w \in Writers : Counted(w) /\ generation > 0 /\ x[2] = generation
               => x[4] >= writer[w].wrote[x[3]]
    <3> HIDE DEF e
    <3> QED
      BY <2>3, <2>4
  <2> QED
    BY <2>1, <2>2, <2>5, <1>0
<1>8. CASE UNCHANGED publishesVars
  BY <1>8 DEF publishesVars
<1> QED
  BY <1>1, <1>2, <1>3, <1>4, <1>5, <1>6, <1>7, <1>8 DEF PublishesNext, WriteOf

-----------------------------------------------------------------------------

\* Operations, requests and what the bucket and the cache hold stay what they are.
THEOREM PublishesTypeCorrect == PublishesSpec => []PublishesTypeOK
<1>1. PublishesTypeOK /\ WroteBefore /\ CacheInv /\ [PublishesNext]_publishesVars
        => PublishesTypeOK' /\ WroteBefore' /\ CacheInv'
  BY NextPublishesType, NextWrote, NextCache DEF CacheInv
<1> QED
  BY <1>1, InitPublishes, PTL DEF PublishesSpec

\* files/mod.rs:17-24: for any runners and readers, and however late a fetched
\* file is kept, what a counted publish, delete, removal or restore replaced is in
\* no cache of the current generation, whatever callers, connections and answers
\* are lost beside it.
THEOREM DoneServed == PublishesSpec => []DoneIsServed
<1>1. PublishesTypeOK /\ WroteBefore /\ CacheInv /\ [PublishesNext]_publishesVars
        => PublishesTypeOK' /\ WroteBefore' /\ CacheInv'
  BY NextPublishesType, NextWrote, NextCache DEF CacheInv
<1>2. CacheInv => DoneIsServed
  BY DEF CacheInv
<1> QED
  BY <1>1, <1>2, InitPublishes, PTL DEF PublishesSpec

=============================================================================
