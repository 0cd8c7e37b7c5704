----------------------------- MODULE Publishes -----------------------------
(***************************************************************************)
(* One app's published files on Postgres: objects in the bucket, the       *)
(* generation the catalog counts, each runner's cache by generation, and   *)
(* the writers that take the app's turn (src/src/content/files and         *)
(* src/src/platform/trash.rs).                                             *)
(*                                                                         *)
(* A bucket call and a statement on Postgres are one step each.  What a    *)
(* key holds, nothing included, is named by how often it has changed.      *)
(***************************************************************************)
EXTENDS Integers, FiniteSets

CONSTANTS Keys,      \* the app's files
          Tree,      \* those that move as one tree: the app's, not its sidecars
          Writers,   \* publishes, removals and restores, each one operation
          Runners,
          Readers,   \* requests for a file, one each
          NoOne,
          Losses     \* bound: callers, connections and answers lost

ASSUME PublishesAssumption ==
    /\ IsFiniteSet(Keys)
    /\ Tree \subseteq Keys
    /\ IsFiniteSet(Writers)
    /\ Losses \in Nat
    /\ NoOne \notin Writers \union Keys \union Runners

VARIABLES objects,   \* what the bucket holds at each key
          there,     \* the keys where that is a file
          trash,     \* the keys of which the removal's entry holds a file
          generation,\* platform.pages: 0 without a row
          sequence,  \* platform.generations: the last number given out
          cache,     \* <<runner, generation, key, contents>>: a file on its
                     \* disk, or a key remembered as absent
          turn,      \* the writer whose turn it is
          writer,    \* each writer's operation and how far it is
          reader,    \* each reader's request and how far it is
          losses

publishesVars == <<objects, there, trash, generation, sequence, cache, turn, writer, reader,
                   losses>>
bucket == <<objects, there, trash>>

\* left: the keys it has yet to be answered OK about; wrote: what it left at each
\* key it changed, 0 where it changed nothing.
Operation == [op : {"none", "publish", "unpublish", "remove", "page", "restore"},
              at : {"idle", "write", "release", "retire", "dropped", "ok", "failed"},
              left : SUBSET Keys, wrote : [Keys -> Nat]]

Request == [at : {"idle", "look", "fetched", "done"}, runner : Runners \union {NoOne},
            key : Keys \union {NoOne}, generation : Nat, got : Nat, found : BOOLEAN]

PublishesTypeOK ==
    /\ objects \in [Keys -> Nat]
    /\ there \subseteq Keys
    /\ trash \subseteq Keys
    /\ generation \in Nat
    /\ sequence \in Nat
    /\ cache \subseteq Runners \X Nat \X Keys \X Nat
    /\ turn \in Writers \union {NoOne}
    /\ writer \in [Writers -> Operation]
    /\ reader \in [Readers -> Request]
    /\ losses \in 0..Losses

Untouched == [k \in Keys |-> 0]

EndsAs(at) == [op |-> "none", at |-> at, left |-> {}, wrote |-> Untouched]

NoRequest(at) == [at |-> at, runner |-> NoOne, key |-> NoOne, generation |-> 0, got |-> 0,
              found |-> FALSE]

\* Nothing was ever published, or all of the app is.
PublishesInit ==
    /\ there \in {{}, Keys}
    /\ generation = IF there = {} THEN 0 ELSE 1
    /\ objects = [k \in Keys |-> generation]
    /\ trash = {}
    /\ sequence = generation
    /\ cache = {}
    /\ turn = NoOne
    /\ writer = [w \in Writers |-> EndsAs("idle")]
    /\ reader = [a \in Readers |-> NoRequest("idle")]
    /\ losses = 0

-----------------------------------------------------------------------------
(* Writers. *)

\* Mutant: the number after the app's own.
NextInRow == generation + 1

\* From one sequence, so a name published again meets no old cache.
NextGeneration == sequence + 1

MayTake(w) == turn = NoOne

Lose == losses < Losses /\ losses' = losses + 1

\* A removal's entry can be put back once the removal is done; one removal is
\* followed.
Allowed(op) ==
    LET removals == {w \in Writers : writer[w].op \in {"remove", "page"}}
    IN  /\ op \in {"remove", "page"} => removals = {}
        /\ op = "restore" => \E w \in removals : writer[w].at = "ok"

\* A publish is of a bundle, of one file, or of a name to be held.
About(op) ==
    CASE op = "publish" -> SUBSET Keys
      [] op = "unpublish" -> {{k} : k \in Keys}
      [] op = "page" -> {{k} : k \in Keys \ Tree}
      [] OTHER -> {Keys}

\* Each takes the app's turn.  A restore asks in it whether anything is published,
\* and goes on when the catalog cannot say.
TakeTurn(w) ==
    \E op \in {"publish", "unpublish", "remove", "page", "restore"} :
        /\ writer[w].at = "idle"
        /\ MayTake(w)
        /\ Allowed(op)
        /\ turn' = w
        /\ \E keys \in About(op), at \in {"write", "release"} :
              /\ at = "release" => op = "restore" /\ generation > 0
              /\ writer' = [writer EXCEPT ![w] =
                    [op |-> op, at |-> at, left |-> keys, wrote |-> Untouched]]
        /\ UNCHANGED <<bucket, generation, sequence, cache, reader, losses>>

Touched(w) == {k \in Keys : writer[w].wrote[k] # 0}

\* A removal and a restore end with their runner; the others' calls may be on
\* their way still when the caller is gone.
Writing(w, ops, k) ==
    /\ writer[w].op \in ops /\ k \in writer[w].left \ Touched(w)
    /\ writer[w].at = "write" \/ (writer[w].at = "dropped" /\ writer[w].op \in {"publish", "unpublish"})

\* The call about k is answered OK, or is not; it changes what is at k, or does not.
Call(w, k, answered, changes) ==
    /\ objects' = IF changes THEN [objects EXCEPT ![k] = @ + 1] ELSE objects
    /\ writer' = [writer EXCEPT ![w].left = IF answered THEN @ \ {k} ELSE @,
                                ![w].wrote[k] = IF changes THEN objects[k] + 1 ELSE @]
    /\ IF answered THEN UNCHANGED losses ELSE Lose
    /\ UNCHANGED <<generation, sequence, cache, turn, reader>>

\* A put refused ends the writing: what is left is never put.
Put(w, k) ==
    /\ Writing(w, {"publish"}, k)
    /\ \E answered \in BOOLEAN : Call(w, k, answered, TRUE)
    /\ there' = there \union {k}
    /\ UNCHANGED trash

Delete(w, k) ==
    /\ Writing(w, {"unpublish"}, k)
    /\ Call(w, k, TRUE, k \in there) \/ (k \in there /\ Call(w, k, FALSE, TRUE))
    /\ there' = there \ {k}
    /\ UNCHANGED trash

\* The tree first, then the sidecars one by one; the first that fails is the last.
InOrder(w, k) == k \notin Tree => writer[w].left \intersect (Tree \union Touched(w)) = {}

\* A move is a copy and a delete: it may end without an answer after either.
MoveToTrash(w, k) ==
    /\ Writing(w, {"remove", "page"}, k)
    /\ InOrder(w, k)
    /\ trash' = IF k \in there THEN trash \union {k} ELSE trash
    /\ \/ Call(w, k, TRUE, k \in there) /\ there' = there \ {k}
       \/ k \in there /\ Call(w, k, FALSE, TRUE) /\ there' = there \ {k}

\* Nothing is put back over a key in use, nor a tree where one key of it is.
InUse(w, k) == \E j \in there \ Touched(w) : j = k \/ {j, k} \subseteq Tree

MoveBack(w, k) ==
    /\ Writing(w, {"restore"}, k)
    /\ InOrder(w, k)
    /\ k \in trash => ~InUse(w, k)
    /\ Call(w, k, TRUE, k \in trash) \/ (k \in trash /\ Call(w, k, FALSE, TRUE))
    /\ there' = there \union ({k} \intersect trash)
    /\ trash' = trash \ {k}

\* What a removal, or a restore, knows it moved: of the tree nothing, until all of
\* it moved.
Known(w) ==
    {k \in Touched(w) \ writer[w].left : k \in Tree => writer[w].left \intersect Tree = {}}

\* A publish is counted even when it was refused part way.
MustCount(w) == writer[w].op = "publish" \/ Known(w) # {}

\* The app's database moved too, or its meta came back.
MayCount(w) == MustCount(w) \/ (writer[w].op \in {"remove", "restore"} /\ writer[w].left = {})

CountGeneration(w) ==
    /\ writer[w].at = "write"
    /\ MayCount(w)
    /\ sequence' = NextGeneration
    /\ generation' = NextGeneration
    /\ writer' = [writer EXCEPT ![w].at = "release"]
    /\ UNCHANGED <<bucket, cache, turn, reader, losses>>

Ends(w, at) == writer' = [writer EXCEPT ![w] = IF at = "failed" THEN EndsAs(at) ELSE [@ EXCEPT !.at = at]]

LetsGo(w) == turn' = IF turn = w THEN NoOne ELSE turn

\* Not done where something was refused, or the catalog refused the count.  A
\* removal that is done goes on to the catalog, out of its turn.
Release(w) ==
    LET op == writer[w]
        done == op.left = {} /\ (op.at = "release" \/ ~MustCount(w))
    IN  /\ op.at \in {"write", "release"}
        /\ LetsGo(w)
        /\ Ends(w, IF ~done THEN "failed" ELSE IF op.op = "remove" THEN "retire" ELSE "ok")
        /\ UNCHANGED <<bucket, generation, sequence, cache, reader, losses>>

\* Catalog::retire: the app's row goes, and its generation with it.
Retire(w) ==
    /\ writer[w].at = "retire"
    /\ generation' = 0
    /\ Ends(w, "ok")
    /\ UNCHANGED <<bucket, sequence, cache, turn, reader, losses>>

\* The caller goes, its runner dies, or the catalog step fails: the turn is let go
\* at once, while what a publish was putting may be on its way yet, and all that a
\* bundle has left is.
CallerGoes(w) ==
    /\ writer[w].at \in {"write", "release", "retire"}
    /\ LetsGo(w)
    /\ Ends(w, "failed") \/ (writer[w].at = "write" /\ Ends(w, "dropped"))
    /\ Lose
    /\ UNCHANGED <<bucket, generation, sequence, cache, reader>>

\* The connection that holds the turn is lost, and its writer does not know.
TurnIsLost ==
    /\ turn # NoOne
    /\ turn' = NoOne
    /\ Lose
    /\ UNCHANGED <<bucket, generation, sequence, cache, writer, reader>>

-----------------------------------------------------------------------------
(* Readers: Bucket::lookup. *)

\* The generation is read once, from the catalog.
Look(a) ==
    \E r \in Runners, k \in Keys :
        /\ reader[a].at = "idle"
        /\ generation > 0
        /\ reader' = [reader EXCEPT ![a] = [NoRequest("look") EXCEPT !.runner = r, !.key = k,
                                                                     !.generation = generation]]
        /\ UNCHANGED <<bucket, generation, sequence, cache, turn, writer, losses>>

Cached(r, g, k) == \E e \in cache : e[1] = r /\ e[2] = g /\ e[3] = k

\* Not cached: the object is fetched as it is now.
Fetch(a) ==
    /\ reader[a].at = "look"
    /\ ~Cached(reader[a].runner, reader[a].generation, reader[a].key)
    /\ reader' = [reader EXCEPT ![a].at = "fetched", ![a].got = objects[reader[a].key],
                                ![a].found = reader[a].key \in there]
    /\ UNCHANGED <<bucket, generation, sequence, cache, turn, writer, losses>>

\* It is kept some time after, over what another read of the same generation
\* left; a file goes before a key remembered as absent.
Keep(a) ==
    LET r == reader[a]
        same == {e \in cache : e[1] = r.runner /\ e[2] = r.generation /\ e[3] = r.key}
    IN  /\ r.at = "fetched"
        /\ cache' = IF ~r.found /\ same # {} THEN cache
                    ELSE (cache \ same) \union {<<r.runner, r.generation, r.key, r.got>>}
        /\ reader' = [reader EXCEPT ![a] = NoRequest("done")]
        /\ UNCHANGED <<bucket, generation, sequence, turn, writer, losses>>

\* Found in the cache, or the request went.
Leaves(a) ==
    /\ reader[a].at \in {"look", "fetched"}
    /\ reader' = [reader EXCEPT ![a] = NoRequest("done")]
    /\ UNCHANGED <<bucket, generation, sequence, cache, turn, writer, losses>>

PublishesNext ==
    \/ \E w \in Writers :
          \/ TakeTurn(w) \/ CountGeneration(w) \/ Release(w)
          \/ Retire(w) \/ CallerGoes(w)
          \/ \E k \in Keys : Put(w, k) \/ Delete(w, k) \/ MoveToTrash(w, k) \/ MoveBack(w, k)
    \/ TurnIsLost
    \/ \E a \in Readers : Look(a) \/ Fetch(a) \/ Keep(a) \/ Leaves(a)

PublishesSpec == PublishesInit /\ [][PublishesNext]_publishesVars

-----------------------------------------------------------------------------

\* files/mod.rs:17-24: "a publish on another runner makes everything cached here
\* unreachable at the next read".  Once a publish, a delete, a removal or a restore
\* is about to answer that it was done, no runner keeps under the current
\* generation anything that it replaced, absence included: whoever else fails, goes,
\* loses its turn or writes on without it.
DoneIsServed ==
    \A w \in Writers, e \in cache :
        writer[w].at \in {"release", "retire", "ok"} /\ generation > 0 /\ e[2] = generation =>
            e[4] >= writer[w].wrote[e[3]]

\* trash.rs:8-11, "removal moves everything belonging to a slug into .trash":
\* when no writer is about and none failed, an app without a generation, which
\* is one nobody is shown, has left no file at its keys.
Quiet == \A w \in Writers : writer[w].at \in {"idle", "ok"}

NothingStranded == Quiet /\ generation = 0 => there = {}

=============================================================================
