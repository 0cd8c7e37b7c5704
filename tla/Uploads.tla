------------------------------ MODULE Uploads ------------------------------
(***************************************************************************)
(* One inline upload, src/src/platform/inline_upload.rs: its ticket counts *)
(* the chunks that arrived, the Files store keeps their bytes, and a       *)
(* finish takes the ticket and reads the pieces back in order.  Calls for  *)
(* the same id overlap freely, at one runner or several.                   *)
(*                                                                         *)
(* A ticket is held while it is changed and spent in one step, in memory    *)
(* and on Postgres alike (state/tickets.rs).  A piece is put in one step    *)
(* in the bucket; on files it is truncated first and written after.         *)
(***************************************************************************)
EXTENDS Integers, FiniteSets, Sequences

LOCAL INSTANCE FiniteSetsExt

CONSTANTS Chunks,     \* calls of upload_chunk
          Finishes,   \* calls of upload_finish
          Count,      \* indexes are below Count
          SizeOf,     \* the bytes each chunk brings
          Ceiling,    \* MAX_UPLOAD_BYTES
          Life,       \* INLINE_TTL
          Grace,      \* what the sweep adds to it
          None

ASSUME UploadsAssumption ==
    /\ IsFiniteSet(Chunks)
    /\ Chunks \cap Finishes = {}
    /\ Count \in Nat \ {0}
    /\ SizeOf \in [Chunks -> Nat \ {0}]
    /\ Ceiling \in Nat
    /\ Life \in Nat \ {0}
    /\ Grace \in Nat
    /\ None \notin Chunks

VARIABLES bucket,    \* whether pieces are kept in a bucket
          age,       \* time since upload_begin
          ticket,    \* InlineUpload.chunks while the ticket is there
          pieces,    \* the piece kept for each index
          calls,     \* where each call is
          handed,    \* what was handed to the store
          \* History.
          latest,    \* the chunk of each index that was counted last
          disturbed  \* indexes whose chunks overlapped, failed, or were
                     \* still on their way at a finish

uploadsVars == <<bucket, age, ticket, pieces, calls, handed, latest, disturbed>>

Indexes == 0..(Count - 1)
MaxAge == Life + Grace + 1   \* bound: the clock stops here

\* `index` is a chunk's; `count`, and the pieces read, a finish's.
Idle == [at |-> "idle", index |-> 0, count |-> 0, got |-> <<>>]

UploadsInit ==
    /\ bucket \in BOOLEAN
    /\ age = 0
    /\ ticket = [there |-> TRUE, size |-> [i \in Indexes |-> 0]]
    /\ pieces = [i \in Indexes |-> None]
    /\ calls = [c \in Chunks \union Finishes |-> Idle]
    /\ handed = <<>>
    /\ latest = [i \in Indexes |-> None]
    /\ disturbed = {}

Live == ticket.there /\ age < Life
Gone == [ticket EXCEPT !.there = FALSE]
Sum(f, S) == MapThenSumSet(LAMBDA i : f[i], S)
Busy == {"put", "write", "over", "clear", "read"}
InProgress(C) == {c \in C : calls[c].at \in Busy}
Putting(i) == {c \in Chunks : calls[c].at \in {"put", "write"} /\ calls[c].index = i}
Goes(c, at) == calls' = [calls EXCEPT ![c].at = at]
Done(c) == calls' = [calls EXCEPT ![c] = [Idle EXCEPT !.at = "done"]]

-----------------------------------------------------------------------------

\* A repeat of an index replaces it.
Fits(i, size) == Sum(ticket.size, Indexes \ {i}) + size <= Ceiling

\* chunk_within up to the count: chunks for no live upload clear its pieces.
CountChunk(c) ==
    \E i \in Indexes :
        /\ calls[c].at = "idle"
        /\ IF Live /\ Fits(i, SizeOf[c])
           THEN /\ calls' = [calls EXCEPT ![c].at = "put", ![c].index = i]
                /\ ticket' = [ticket EXCEPT !.size[i] = SizeOf[c]]
                /\ latest' = [latest EXCEPT ![i] = c]
                /\ disturbed' = IF Putting(i) # {} THEN disturbed \union {i} ELSE disturbed
           ELSE /\ Goes(c, IF Live THEN "over" ELSE "clear")
                /\ UNCHANGED <<ticket, latest, disturbed>>
        /\ UNCHANGED <<bucket, age, pieces, handed>>

\* Over the ceiling the upload is lost: its ticket goes, unless the take
\* fails, which nobody is told of, and then its pieces.
SpendOver(c) ==
    /\ calls[c].at = "over"
    /\ ticket' \in {ticket, IF Live THEN Gone ELSE ticket}
    /\ Goes(c, "clear")
    /\ UNCHANGED <<bucket, age, pieces, handed, latest, disturbed>>

\* What a put of c leaves; `at` is when the name was last made new.
Piece(c, whole, at) == [by |-> c, whole |-> whole, at |-> at]

PutInBucket(c) ==
    /\ bucket
    /\ calls[c].at = "put"
    /\ pieces' = [pieces EXCEPT ![calls[c].index] = Piece(c, TRUE, age)]
    /\ Done(c)
    /\ UNCHANGED <<bucket, age, ticket, handed, latest, disturbed>>

\* fs::write opens and truncates, and then writes.
PutTruncates(c) ==
    /\ ~bucket
    /\ calls[c].at = "put"
    /\ pieces' = [pieces EXCEPT ![calls[c].index] = Piece(c, FALSE, IF @ = None THEN age ELSE @.at)]
    /\ Goes(c, "write")
    /\ UNCHANGED <<bucket, age, ticket, handed, latest, disturbed>>

\* A file that was removed meanwhile is written unseen; two writers of one
\* file may leave either's bytes or some of both.
PutWrites(c) ==
    LET i == calls[c].index
    IN  /\ calls[c].at = "write"
        /\ \E whole \in BOOLEAN :
              /\ whole \/ i \in disturbed
              /\ pieces' = IF pieces[i] = None THEN pieces
                           ELSE [pieces EXCEPT ![i] = Piece(c, whole, @.at)]
        /\ Done(c)
        /\ UNCHANGED <<bucket, age, ticket, handed, latest, disturbed>>

Cleared == [i \in Indexes |-> None]

\* chunks_clear, and the refusal that follows it.
ClearChunk(c) ==
    /\ calls[c].at = "clear"
    /\ pieces' = Cleared
    /\ Done(c)
    /\ UNCHANGED <<bucket, age, ticket, handed, latest, disturbed>>

\* The put fails, before or after it truncated, or the runner dies.
ChunkFails(c) ==
    /\ c \in InProgress(Chunks)
    /\ Done(c)
    /\ disturbed' = disturbed \union {i \in Indexes : c \in Putting(i)}
    /\ UNCHANGED <<bucket, age, ticket, pieces, handed, latest>>

Present == {i \in Indexes : ticket.size[i] > 0}

\* finish up to the reads: the ticket is spent, and indexes missing or past the
\* count refuse it.
TakeUpload(f) ==
    \E count \in 0..Count :
        LET complete == count > 0 /\ Present = 0..(count - 1)
            underway == {i \in Indexes : Putting(i) # {}}
        IN  /\ calls[f].at = "idle"
            /\ calls' = [calls EXCEPT ![f].at = IF Live /\ complete THEN "read" ELSE "clear",
                                       ![f].count = count]
            /\ ticket' = IF Live THEN Gone ELSE ticket
            /\ disturbed' = disturbed \union underway
            /\ UNCHANGED <<bucket, age, pieces, handed, latest>>

\* The take fails: the pieces go all the same, beside a ticket that stays.
TakeFails(f) ==
    /\ calls[f].at = "idle"
    /\ Goes(f, "clear")
    /\ UNCHANGED <<bucket, age, ticket, pieces, handed, latest, disturbed>>

\* Mutant: a piece that is not there reads as empty.
ReadsBackEmpty(f) == TRUE

\* A piece that is not there refuses the whole.
ReadsBack(f) == pieces[Len(calls[f].got)] # None

ReadPiece(f) ==
    LET i == Len(calls[f].got)
    IN  /\ calls[f].at = "read"
        /\ i < calls[f].count
        /\ calls' = IF ReadsBack(f)
                    THEN [calls EXCEPT ![f].got = Append(@, pieces[i])]
                    ELSE [calls EXCEPT ![f].at = "clear"]
        /\ UNCHANGED <<bucket, age, ticket, pieces, handed, latest, disturbed>>

\* Either way the pieces go.
ClearAndHand(f) ==
    LET joined == calls[f].at = "read" /\ Len(calls[f].got) = calls[f].count
    IN  /\ joined \/ calls[f].at = "clear"
        /\ pieces' = Cleared
        /\ handed' = IF joined THEN calls[f].got ELSE handed
        /\ Goes(f, IF joined THEN "ok" ELSE "refused")
        /\ UNCHANGED <<bucket, age, ticket, latest, disturbed>>

\* The runner dies with the finish.
FinishDies(f) ==
    /\ f \in InProgress(Finishes)
    /\ Goes(f, "failed")
    /\ UNCHANGED <<bucket, age, ticket, pieces, handed, latest, disturbed>>

Stale(at) == age - at > Life + Grace

\* Anyone's upload_begin sweeps first: a directory by the time of its latest
\* new piece, a bucket piece by piece.
Sweep ==
    LET there == {i \in Indexes : pieces[i] # None}
        swept == IF bucket THEN {i \in there : Stale(pieces[i].at)}
                 ELSE {i \in there : \A j \in there : Stale(pieces[j].at)}
    IN  /\ swept # {}
        /\ pieces' = [i \in Indexes |-> IF i \in swept THEN None ELSE pieces[i]]
        /\ UNCHANGED <<bucket, age, ticket, calls, handed, latest, disturbed>>

UploadsTick ==
    /\ age < MaxAge
    /\ age' = age + 1
    /\ UNCHANGED <<bucket, ticket, pieces, calls, handed, latest, disturbed>>

UploadsNext ==
    \/ \E c \in Chunks :
          \/ CountChunk(c) \/ SpendOver(c) \/ ClearChunk(c) \/ ChunkFails(c)
          \/ PutInBucket(c) \/ PutTruncates(c) \/ PutWrites(c)
    \/ \E f \in Finishes :
          TakeUpload(f) \/ TakeFails(f) \/ ReadPiece(f) \/ ClearAndHand(f) \/ FinishDies(f)
    \/ Sweep
    \/ UploadsTick

UploadsSpec == UploadsInit /\ [][UploadsNext]_uploadsVars

-----------------------------------------------------------------------------

\* inline_upload.rs:6-9 and 168-169: what a finish hands over is every piece
\* in order, each the whole of the last chunk sent for its index, provided that
\* index's chunks were sent one after another and each was answered.
HandedAsSent ==
    \A i \in Indexes \ disturbed :
        i < Len(handed) => handed[i + 1] # None /\ handed[i + 1].whole
                           /\ handed[i + 1].by = latest[i]

=============================================================================
