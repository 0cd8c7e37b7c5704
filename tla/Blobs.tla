------------------------------- MODULE Blobs -------------------------------
(***************************************************************************)
(* One of an app's files, runtime/blobs.rs, on the volume or in a bucket:  *)
(* writes at once (put), in pieces (Writer, held by a handler's call) and  *)
(* by a browser (receive), beside reads and a delete.  Bytes are the name  *)
(* of the write they come from and how many of its pieces they are; a call *)
(* of the bucket, or of the file system, is a step.  The content type is   *)
(* left out: in the bucket it is part of the object, and on the volume the *)
(* last of two overlapping writes to keep its own wins.                    *)
(***************************************************************************)
EXTENDS Naturals, FiniteSets

CONSTANTS BlobWrites, BlobReads,
          MostBytes,     \* max_bytes and max_write_bytes, in pieces
          MostGot,     \* MAX_GET_BYTES, in pieces
          MaxPieces,   \* bound: pieces a write may have
          MaxDeletes,  \* bound
          MaxTroubles  \* bound: refusals, lost answers, deaths and hang-ups

ASSUME BlobsAssumption ==
    /\ IsFiniteSet(BlobWrites) /\ IsFiniteSet(BlobReads)
    /\ {MostBytes, MostGot, MaxPieces, MaxDeletes, MaxTroubles} \subseteq Nat

NoWrite == [by |-> "nobody", pieces |-> 0]

VARIABLES inBucket,   \* the backend
          write,      \* the state of each write
          bytes,      \* the object, or the data file
          temps,      \* writes that have a temporary file
          uploads,    \* writes that have a multipart upload in the bucket
          strays,     \* history: temporaries that nobody will remove, or only the sweep
          read,
          deletes, troubles

blobsVars == <<inBucket, write, bytes, temps, uploads, strays, read, deletes, troubles>>

\* `sent` pieces came, `parted` of them are in parts of the multipart upload that
\* the write `knows`.
Unwritten == [kind |-> "put", at |-> "none", sent |-> 0, parted |-> 0, knows |-> FALSE]
Unread == [at |-> "none", got |-> NoWrite]

BlobsTypeOK ==
    /\ inBucket \in BOOLEAN
    /\ write \in [BlobWrites -> [kind : {"put", "pieces", "upload"},
                             at : {"none", "open", "part", "last", "place", "mark", "clear", "abort", "kept", "failed"},
                             sent : 0..MaxPieces, parted : 0..MaxPieces, knows : BOOLEAN]]
    /\ bytes \in [by : BlobWrites \cup {"nobody"}, pieces : 0..MaxPieces]
    /\ temps \subseteq BlobWrites /\ uploads \subseteq BlobWrites /\ strays \subseteq BlobWrites
    /\ read \in [BlobReads -> [at : {"none", "stat", "done", "refused"},
                           got : [by : BlobWrites \cup {"nobody"}, pieces : 0..MaxPieces]]]
    /\ deletes \in 0..MaxDeletes /\ troubles \in 0..MaxTroubles

Is(w, at) == write[w].at = at
Sets(w, rec) == write' = [write EXCEPT ![w] = rec]
WriteGoes(w, at) == write' = [write EXCEPT ![w].at = at]
Trouble == troubles < MaxTroubles /\ troubles' = troubles + 1
Ended(w) == write[w].at \in {"kept", "failed"}
Sweepable == {w \in strays : write[w].kind = "pieces"}

BesideWrites == UNCHANGED <<inBucket, read, deletes>>

-----------------------------------------------------------------------------
(* Beginnings.                                                              *)

\* put has all its bytes, and is refused over the ceiling; the others begin
\* empty.  In the bucket only an upload has a file of its own, the spool.
\* Writer::open sweeps the files that died with their process a day ago.
BeginsWrite(w, kind, n) ==
    /\ Is(w, "none")
    /\ IF kind = "put" THEN n <= MostBytes ELSE n = 0
    /\ Sets(w, [Unwritten EXCEPT !.kind = kind, !.sent = n,
                                 !.at = IF kind = "put" THEN "place" ELSE "open"])
    /\ \E stale \in {{}, IF kind = "pieces" /\ ~inBucket THEN Sweepable ELSE {}} :
          /\ temps' = (temps \ stale) \cup (IF inBucket /\ kind # "upload" THEN {} ELSE {w})
          /\ strays' = strays \ stale
    /\ BesideWrites /\ UNCHANGED <<bytes, uploads, troubles>>

\* A piece more: Writer::append, or a chunk of a body (spool_body).
Appends(w) ==
    /\ Is(w, "open")
    /\ write[w].sent < MaxPieces
    /\ IF write[w].sent + 1 > MostBytes
       THEN WriteGoes(w, "abort")
       ELSE \/ Sets(w, [write[w] EXCEPT !.sent = @ + 1])
            \/ \* a part is full
               /\ inBucket /\ write[w].kind = "pieces"
               /\ Sets(w, [write[w] EXCEPT !.sent = @ + 1, !.at = "part"])
    /\ BesideWrites /\ UNCHANGED <<bytes, temps, uploads, strays, troubles>>

\* s3_upload_part: the multipart upload is begun with the first.
Begun(w) ==
    /\ write[w].at \in {"part", "last"}
    /\ ~write[w].knows
    /\ uploads' = uploads \cup {w}
    /\ \/ Sets(w, [write[w] EXCEPT !.knows = TRUE]) /\ UNCHANGED <<strays, troubles>>
       \/ \* the answer is lost, and the upload's name with it
          /\ Trouble
          /\ WriteGoes(w, "abort")
          /\ strays' = strays \cup {w}
    /\ BesideWrites /\ UNCHANGED <<bytes, temps>>

Parted(w) ==
    /\ write[w].at \in {"part", "last"}
    /\ write[w].knows
    /\ \/ /\ Sets(w, [write[w] EXCEPT !.parted = write[w].sent,
                                      !.at = IF write[w].at = "part" THEN "open" ELSE "place"])
          /\ UNCHANGED troubles
       \/ Trouble /\ WriteGoes(w, "abort")
    /\ BesideWrites /\ UNCHANGED <<bytes, temps, uploads, strays>>

\* Mutant: finishing forgets what is still in the buffer.
DropsTheRest(w) ==
    /\ Is(w, "open")
    /\ WriteGoes(w, "place")
    /\ BesideWrites /\ UNCHANGED <<bytes, temps, uploads, strays, troubles>>

\* Writer::finish, or the end of a body: the rest goes up as the last part of an
\* upload that was begun.
FinishesWrite(w) ==
    /\ Is(w, "open")
    /\ WriteGoes(w, IF write[w].knows THEN "last" ELSE "place")
    /\ BesideWrites /\ UNCHANGED <<bytes, temps, uploads, strays, troubles>>

-----------------------------------------------------------------------------
(* The file appears.                                                        *)

\* What a completed write's file is.
Whole(w) == [by |-> w, pieces |-> IF write[w].knows THEN write[w].parted ELSE write[w].sent]

\* A rename on the volume, one PUT or the completion in the bucket, whose answer
\* may be lost.
Appears(w) ==
    /\ Is(w, "place")
    /\ bytes' = Whole(w)
    /\ uploads' = uploads \ {w}
    /\ \/ /\ WriteGoes(w, IF ~inBucket THEN "mark" ELSE IF write[w].kind = "upload" THEN "clear" ELSE "kept")
          /\ temps' = IF inBucket THEN temps ELSE temps \ {w}
          /\ UNCHANGED troubles
       \/ inBucket /\ Trouble /\ WriteGoes(w, "abort") /\ UNCHANGED temps
    /\ BesideWrites /\ UNCHANGED strays

\* The spool of an upload that went to the bucket.
Clears(w) ==
    /\ Is(w, "clear")
    /\ temps' = temps \ {w}
    /\ WriteGoes(w, "kept")
    /\ BesideWrites /\ UNCHANGED <<bytes, uploads, strays, troubles>>

\* The store refuses.  A put whose rename is refused leaves its file.
Refuses(w) ==
    /\ Is(w, "place")
    /\ Trouble
    /\ \/ WriteGoes(w, "abort") /\ UNCHANGED strays
       \/ /\ ~inBucket /\ write[w].kind = "put"
          /\ WriteGoes(w, "failed")
          /\ strays' = strays \cup {w}
    /\ BesideWrites /\ UNCHANGED <<bytes, temps, uploads>>

\* The sidecar with the type, on the volume; refused, the new bytes stay.
Marks(w) ==
    /\ Is(w, "mark")
    /\ \/ WriteGoes(w, "kept") /\ UNCHANGED troubles
       \/ Trouble /\ WriteGoes(w, "failed")
    /\ BesideWrites /\ UNCHANGED <<bytes, temps, uploads, strays>>

\* Mutant: abandoning forgets the multipart upload.
AbortsFileOnly(w) ==
    /\ Is(w, "abort")
    /\ temps' = temps \ {w}
    /\ WriteGoes(w, "failed")
    /\ BesideWrites /\ UNCHANGED <<bytes, uploads, strays, troubles>>

\* Writer::abort, and what the others do on an error: the file is removed, the
\* multipart upload abandoned if its name is known.
Aborts(w) ==
    /\ Is(w, "abort")
    /\ temps' = temps \ {w}
    /\ WriteGoes(w, "failed")
    /\ \/ /\ uploads' = IF write[w].knows THEN uploads \ {w} ELSE uploads
          /\ UNCHANGED <<strays, troubles>>
       \/ /\ write[w].knows
          /\ Trouble
          /\ strays' = strays \cup {w}
          /\ UNCHANGED uploads
    /\ BesideWrites /\ UNCHANGED bytes

\* A handler's call ends, however it does, with a writer open.  A browser that
\* goes away is seen as an error of the body, or ends the request at an await:
\* then nobody removes the spool.
Dropped(w) ==
    /\ \/ Is(w, "open") /\ WriteGoes(w, "abort") /\ UNCHANGED <<strays, troubles>>
       \/ /\ write[w].kind = "upload"
          /\ write[w].at \in {"open", "place", "mark", "clear"}
          /\ Trouble
          /\ WriteGoes(w, "failed")
          /\ strays' = strays \cup (temps \cap {w})
    /\ BesideWrites /\ UNCHANGED <<bytes, temps, uploads>>

\* The process dies.
Dies ==
    /\ Trouble
    /\ LET under == {w \in BlobWrites : write[w].at # "none" /\ ~Ended(w)}
       IN  /\ write' = [w \in BlobWrites |-> IF w \in under THEN [write[w] EXCEPT !.at = "failed"]
                                          ELSE write[w]]
           /\ strays' = strays \cup (under \cap (temps \cup uploads))
    /\ read' = [r \in BlobReads |-> IF read[r].at = "stat" THEN Unread ELSE read[r]]
    /\ UNCHANGED <<bytes, inBucket, temps, uploads, deletes>>

-----------------------------------------------------------------------------
(* BlobReads and deletes.                                                       *)

\* stat, whose size decides whether the bytes are read.
Stats(r) ==
    /\ read[r].at = "none"
    /\ read' = [read EXCEPT ![r].at = IF bytes = NoWrite \/ bytes.pieces > MostGot THEN "refused"
                                      ELSE "stat"]
    /\ UNCHANGED <<inBucket, write, bytes, temps, uploads, strays, deletes, troubles>>

\* What is there now, of whatever size.
Gets(r) ==
    /\ read[r].at = "stat"
    /\ read' = [read EXCEPT ![r].at = IF bytes = NoWrite THEN "refused" ELSE "done", ![r].got = bytes]
    /\ UNCHANGED <<inBucket, write, bytes, temps, uploads, strays, deletes, troubles>>

Deletes ==
    /\ deletes < MaxDeletes
    /\ bytes # NoWrite
    /\ deletes' = deletes + 1
    /\ bytes' = NoWrite
    /\ UNCHANGED <<inBucket, write, temps, uploads, strays, read, troubles>>

-----------------------------------------------------------------------------

BlobsInit ==
    /\ inBucket \in BOOLEAN
    /\ write = [w \in BlobWrites |-> Unwritten]
    /\ bytes = NoWrite
    /\ temps = {}
    /\ uploads = {}
    /\ strays = {}
    /\ read = [r \in BlobReads |-> Unread]
    /\ deletes = 0
    /\ troubles = 0

BlobsNext ==
    \/ \E w \in BlobWrites :
          \/ \E kind \in {"put", "pieces", "upload"}, n \in 0..MaxPieces : BeginsWrite(w, kind, n)
          \/ Appends(w) \/ Begun(w) \/ Parted(w) \/ FinishesWrite(w) \/ Appears(w) \/ Refuses(w)
          \/ Clears(w) \/ Marks(w) \/ Aborts(w) \/ Dropped(w)
    \/ Dies
    \/ \E r \in BlobReads : Stats(r) \/ Gets(r)
    \/ Deletes

BlobsSpec == BlobsInit /\ [][BlobsNext]_blobsVars

-----------------------------------------------------------------------------
(* Properties.                                                              *)

\* What is read is all that one write sent, within the ceiling, and of a write
\* that was not given up before its file appeared.
ReadsAreWhole ==
    \A r \in BlobReads :
        read[r].at = "done" =>
            LET w == read[r].got.by
            IN  /\ read[r].got.pieces = write[w].sent
                /\ write[w].sent <= MostBytes
                /\ write[w].at \in {"mark", "clear", "abort", "kept", "failed"}

\* A write that has ended, whichever way, leaves no temporary file and no upload
\* in the bucket, but for the strays the code cannot or does not remove.
LeavesNothing ==
    \A w \in (temps \cup uploads) \ strays : ~Ended(w)
=============================================================================
