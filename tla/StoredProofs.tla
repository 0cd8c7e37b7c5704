---------------------------- MODULE StoredProofs ----------------------------
(***************************************************************************)
(* Proofs about what is stored: an upload sent inline (Uploads), a key of  *)
(* an app's files (Blobs), an app's schema (Schema), and the site as it    *)
(* moves between stores (Transfer).  Each part has its inductive           *)
(* invariant, a lemma for each action, and the theorems; they share        *)
(* nothing.                                                                *)
(***************************************************************************)
EXTENDS Uploads, Blobs, Schema, Transfer, FiniteSetTheorems, TLAPS

-----------------------------------------------------------------------------
(* One inline upload, for any calls, pieces, sizes and lives.               *)

UploadCalls == Chunks \cup Finishes

PieceRecord == [by : Chunks, whole : BOOLEAN, at : Int]

CallRecord ==
    [at : {"idle", "put", "write", "over", "clear", "read", "done", "ok", "refused", "failed"},
     index : Indexes, count : 0..Count, got : Seq(PieceRecord)]

UploadsTypes ==
    /\ bucket \in BOOLEAN
    /\ age \in Int
    /\ ticket \in [there : BOOLEAN, size : [Indexes -> Nat]]
    /\ pieces \in [Indexes -> PieceRecord \cup {None}]
    /\ calls \in [UploadCalls -> CallRecord]
    /\ handed \in Seq(PieceRecord)
    /\ latest \in [Indexes -> Chunks \cup {None}]
    /\ disturbed \subseteq Indexes

\* All of the chunk of an index that was counted last.
AsSent(i, piece) == piece # None /\ piece.whole /\ piece.by = latest[i]

\* The pieces read so far, each as sent but where its index was disturbed.
ReadAsSent(got) == \A i \in Indexes \ disturbed : i < Len(got) => AsSent(i, got[i + 1])

\* An undisturbed index has at most one chunk on its way, the last that was
\* counted, and is otherwise as that one left it.
PutAsSent ==
    \A i \in Indexes \ disturbed :
        /\ Putting(i) \subseteq {latest[i]}
        /\ Putting(i) = {} /\ pieces[i] # None => AsSent(i, pieces[i])

\* Once a finish has the ticket nothing undisturbed is on its way.
Reads(f) ==
    /\ calls[f].at = "read" =>
          /\ ~ticket.there
          /\ Len(calls[f].got) <= calls[f].count
          /\ \A i \in Indexes \ disturbed : Putting(i) = {}
          /\ ReadAsSent(calls[f].got)
    /\ calls[f].at = "idle" => calls[f] = Idle

UploadsInv ==
    /\ UploadsTypes
    /\ PutAsSent
    /\ \A f \in Finishes : Reads(f)
    /\ \A c \in Chunks : calls[c].at # "read"
    /\ handed # <<>> => ~ticket.there
    /\ ReadAsSent(handed)

-----------------------------------------------------------------------------

LEMMA ZeroIsAnIndex == 0 \in Indexes /\ Count \in Nat /\ Indexes \subseteq Nat
BY UploadsAssumption DEF Indexes

LEMMA IdleIsACall == Idle \in CallRecord
BY ZeroIsAnIndex DEF Idle, CallRecord

\* A chunk's call moves: the finishes do not, and other chunks stay on their way.
LEMMA ChunkMoves ==
    ASSUME UploadsInv, NEW c \in Chunks, NEW rec \in CallRecord, rec.at # "read",
           calls' = [calls EXCEPT ![c] = rec]
    PROVE  /\ calls' \in [UploadCalls -> CallRecord]
           /\ \A f \in Finishes : calls'[f] = calls[f]
           /\ \A d \in Chunks : calls'[d].at # "read"
           /\ \A i \in Indexes : Putting(i)' = IF rec.at \in {"put", "write"} /\ rec.index = i
                                               THEN Putting(i) \cup {c} ELSE Putting(i) \ {c}
<1>1. calls \in [UploadCalls -> CallRecord] /\ c \in UploadCalls
  BY DEF UploadsInv, UploadsTypes, UploadCalls
<1>2. \A f \in Finishes : f \in UploadCalls /\ f # c
  BY UploadsAssumption DEF UploadCalls
<1>3. \A d \in Chunks : d \in UploadCalls
  BY DEF UploadCalls
<1>4. calls'[c] = rec /\ \A d \in Chunks \ {c} : calls'[d] = calls[d]
  BY <1>1, <1>3
<1> QED
  BY <1>1, <1>2, <1>3, <1>4 DEF UploadsInv, Putting

\* What finishes have in hand stays as sent while the ticket does not come back,
\* disturbed indexes stay so and, with the ticket gone, nothing is put on its way.
LEMMA ReadsStay ==
    ASSUME UploadsInv, NEW f \in Finishes, calls'[f] = calls[f], disturbed \subseteq disturbed',
           ticket.there => calls[f].at # "read",
           ~ticket.there => /\ ~ticket'.there
                            /\ latest' = latest
                            /\ \A i \in Indexes \ disturbed' : Putting(i)' \subseteq Putting(i)
    PROVE  Reads(f)'
<1>1. CASE calls[f].at = "read"
  <2>1. /\ ~ticket.there /\ ~ticket'.there /\ latest' = latest
        /\ Len(calls[f].got) <= calls[f].count
        /\ \A i \in Indexes \ disturbed : Putting(i) = {}
        /\ ReadAsSent(calls[f].got)
    BY <1>1 DEF UploadsInv, Reads
  <2>2. \A i \in Indexes \ disturbed' : Putting(i)' = {}
    BY <2>1
  <2>3. ReadAsSent(calls[f].got)'
    BY <2>1 DEF ReadAsSent, AsSent
  <2> QED
    BY <1>1, <2>1, <2>2, <2>3 DEF Reads
<1>2. CASE calls[f].at # "read"
  BY <1>2 DEF UploadsInv, Reads, Idle
<1> QED
  BY <1>1, <1>2

LEMMA HandedStays ==
    ASSUME UploadsInv, UNCHANGED handed, disturbed \subseteq disturbed',
           ~ticket.there => ~ticket'.there /\ latest' = latest
    PROVE  (handed # <<>> => ~ticket.there)' /\ ReadAsSent(handed)'
<1>1. CASE handed = <<>>
  <2>1. Len(handed) = 0
    BY <1>1
  <2> QED
    BY <1>1, <2>1, ZeroIsAnIndex DEF ReadAsSent, Indexes
<1>2. CASE handed # <<>>
  BY <1>2 DEF UploadsInv, ReadAsSent, AsSent
<1> QED
  BY <1>1, <1>2

\* A step of a chunk's call, but for what it means for the pieces.
LEMMA ChunkKeeps ==
    ASSUME UploadsInv, NEW c \in Chunks, NEW rec \in CallRecord, rec.at \notin {"read", "put"},
           calls' = [calls EXCEPT ![c] = rec],
           rec.at = "write" => c \in Putting(rec.index),
           UNCHANGED <<bucket, age, handed, latest>>,
           ticket' \in [there : BOOLEAN, size : [Indexes -> Nat]],
           pieces' \in [Indexes -> PieceRecord \cup {None}],
           disturbed' \subseteq Indexes, disturbed \subseteq disturbed',
           ~ticket.there => ~ticket'.there,
           PutAsSent'
    PROVE  UploadsInv'
<1>1. /\ calls' \in [UploadCalls -> CallRecord]
      /\ \A f \in Finishes : calls'[f] = calls[f]
      /\ \A d \in Chunks : calls'[d].at # "read"
      /\ \A i \in Indexes : Putting(i)' = IF rec.at \in {"put", "write"} /\ rec.index = i
                                          THEN Putting(i) \cup {c} ELSE Putting(i) \ {c}
  BY ChunkMoves
<1>2. UploadsTypes'
  BY <1>1 DEF UploadsInv, UploadsTypes
<1>3. \A i \in Indexes : Putting(i)' \subseteq Putting(i)
  BY <1>1
<1>4. ASSUME NEW f \in Finishes PROVE Reads(f)'
  <2>1. ticket.there => calls[f].at # "read"
    BY DEF UploadsInv, Reads
  <2> QED
    BY <1>1, <1>3, <2>1, ReadsStay
<1>5. (handed # <<>> => ~ticket.there)' /\ ReadAsSent(handed)'
  BY HandedStays
<1> QED
  BY <1>1, <1>2, <1>4, <1>5 DEF UploadsInv

LEMMA PutStays ==
    ASSUME UploadsInv, UNCHANGED latest, disturbed \subseteq disturbed',
           \A i \in Indexes \ disturbed' : Putting(i)' = Putting(i) /\ pieces'[i] \in {pieces[i], None}
    PROVE  PutAsSent'
BY DEF UploadsInv, PutAsSent, AsSent

LEMMA CountChunkKeepsUploads ==
    ASSUME UploadsInv, NEW c \in Chunks, CountChunk(c)
    PROVE  UploadsInv'
<1>1. PICK i \in Indexes : CountChunk(c)!(i)
  BY DEF CountChunk
<1>2. calls \in [UploadCalls -> CallRecord] /\ c \in UploadCalls /\ calls[c].at = "idle"
  BY <1>1 DEF UploadsInv, UploadsTypes, UploadCalls
<1>3. SizeOf[c] \in Nat
  BY UploadsAssumption
<1>4. ticket \in [there : BOOLEAN, size : [Indexes -> Nat]]
  BY DEF UploadsInv, UploadsTypes
<1>5. CASE Live /\ Fits(i, SizeOf[c])
  <2> DEFINE rec == [calls[c] EXCEPT !.at = "put", !.index = i]
  <2>1. rec \in CallRecord /\ rec.at = "put" /\ rec.index = i
    BY <1>2 DEF CallRecord
  <2>2. /\ calls' = [calls EXCEPT ![c] = rec]
        /\ ticket' = [ticket EXCEPT !.size[i] = SizeOf[c]]
        /\ latest' = [latest EXCEPT ![i] = c]
        /\ disturbed' = IF Putting(i) # {} THEN disturbed \union {i} ELSE disturbed
        /\ UNCHANGED <<bucket, age, pieces, handed>>
    BY <1>1, <1>2, <1>5
  <2> HIDE DEF rec
  <2>3. /\ calls' \in [UploadCalls -> CallRecord]
        /\ \A f \in Finishes : calls'[f] = calls[f]
        /\ \A d \in Chunks : calls'[d].at # "read"
        /\ \A j \in Indexes : Putting(j)' = IF rec.at \in {"put", "write"} /\ rec.index = j
                                            THEN Putting(j) \cup {c} ELSE Putting(j) \ {c}
    BY <2>1, <2>2, ChunkMoves
  <2>4. ticket.there
    BY <1>5 DEF Live
  <2>5. ticket' \in [there : BOOLEAN, size : [Indexes -> Nat]]
    BY <1>3, <1>4, <2>2
  <2>6. UploadsTypes'
    BY <2>2, <2>3, <2>5 DEF UploadsInv, UploadsTypes
  <2>7. disturbed \subseteq disturbed'
    BY <2>2
  <2>8. \A j \in Indexes \ {i} : Putting(j)' = Putting(j) /\ latest'[j] = latest[j]
    BY <1>2, <2>1, <2>2, <2>3 DEF Putting, UploadsInv, UploadsTypes
  <2>9. i \notin disturbed' => Putting(i)' = {c} /\ latest'[i] = c
    BY <2>1, <2>2, <2>3 DEF UploadsInv, UploadsTypes
  <2>10. PutAsSent'
    BY <2>2, <2>7, <2>8, <2>9 DEF UploadsInv, PutAsSent, AsSent
  <2>11. ASSUME NEW f \in Finishes PROVE Reads(f)'
    <3>1. calls[f].at # "read"
      BY <2>4 DEF UploadsInv, Reads
    <3> QED
      BY <2>3, <2>4, <2>7, <3>1, ReadsStay
  <2>12. (handed # <<>> => ~ticket.there)' /\ ReadAsSent(handed)'
    BY <2>2, <2>4, <2>7, HandedStays
  <2> QED
    BY <2>3, <2>6, <2>10, <2>11, <2>12 DEF UploadsInv
<1>6. CASE ~(Live /\ Fits(i, SizeOf[c]))
  <2> DEFINE at == IF Live THEN "over" ELSE "clear"
             rec == [calls[c] EXCEPT !.at = at]
  <2>1. rec \in CallRecord /\ rec.at \in {"over", "clear"}
    BY <1>2 DEF CallRecord
  <2>2. /\ calls' = [calls EXCEPT ![c] = rec]
        /\ UNCHANGED <<ticket, latest, disturbed, bucket, age, pieces, handed>>
    BY <1>1, <1>6 DEF Goes
  <2> HIDE DEF rec
  <2>3. \A j \in Indexes : Putting(j)' = Putting(j) \ {c}
    BY <2>1, <2>2, ChunkMoves
  <2>4. \A j \in Indexes : Putting(j)' = Putting(j)
    BY <1>2, <2>3 DEF Putting
  <2>5. PutAsSent'
    BY <2>2, <2>4, PutStays
  <2> QED
    BY <1>4, <2>1, <2>2, <2>5, ChunkKeeps DEF UploadsInv, UploadsTypes
<1> QED
  BY <1>5, <1>6

\* A chunk's call that was refused, or fails before it put anything.
LEMMA RefusedKeepsUploads ==
    ASSUME UploadsInv, NEW c \in Chunks, SpendOver(c) \/ ClearChunk(c)
    PROVE  UploadsInv'
<1>1. calls \in [UploadCalls -> CallRecord] /\ c \in UploadCalls
  BY DEF UploadsInv, UploadsTypes, UploadCalls
<1>2. ticket \in [there : BOOLEAN, size : [Indexes -> Nat]]
  BY DEF UploadsInv, UploadsTypes
<1>3. PICK rec \in CallRecord : /\ rec.at \in {"clear", "done"}
                                /\ calls' = [calls EXCEPT ![c] = rec]
  <2>1. CASE SpendOver(c)
    <3>1. [calls[c] EXCEPT !.at = "clear"] \in CallRecord
      BY <1>1 DEF CallRecord
    <3> QED
      BY <1>1, <2>1, <3>1 DEF SpendOver, Goes, CallRecord
  <2>2. CASE ClearChunk(c)
    BY <2>2, IdleIsACall DEF ClearChunk, Done, CallRecord
  <2> QED
    BY <2>1, <2>2
<1>4. calls[c].at \in {"over", "clear"} /\ UNCHANGED <<bucket, age, handed, latest, disturbed>>
  BY DEF SpendOver, ClearChunk
<1>5. \A j \in Indexes : Putting(j)' = Putting(j)
  <2>1. \A j \in Indexes : Putting(j)' = Putting(j) \ {c}
    BY <1>3, ChunkMoves
  <2> QED
    BY <1>4, <2>1 DEF Putting
<1>6. /\ pieces' \in [Indexes -> PieceRecord \cup {None}]
      /\ \A j \in Indexes : pieces'[j] \in {pieces[j], None}
  BY DEF SpendOver, ClearChunk, Cleared, UploadsInv, UploadsTypes
<1>7. /\ ticket' \in [there : BOOLEAN, size : [Indexes -> Nat]]
      /\ ~ticket.there => ~ticket'.there
  BY <1>2 DEF SpendOver, ClearChunk, Live, Gone
<1>8. PutAsSent'
  BY <1>4, <1>5, <1>6, PutStays
<1>9. disturbed \subseteq Indexes
  BY DEF UploadsInv, UploadsTypes
<1> QED
  BY <1>3, <1>4, <1>6, <1>7, <1>8, <1>9, ChunkKeeps

\* A put ends, or begins to write: the piece of its index is its own.
LEMMA PutKeepsUploads ==
    ASSUME UploadsInv, NEW c \in Chunks, PutInBucket(c) \/ PutTruncates(c) \/ PutWrites(c)
    PROVE  UploadsInv'
<1>1. calls \in [UploadCalls -> CallRecord] /\ c \in UploadCalls
  BY DEF UploadsInv, UploadsTypes, UploadCalls
<1>2. PICK i \in Indexes : i = calls[c].index /\ c \in Putting(i)
  BY <1>1 DEF PutInBucket, PutTruncates, PutWrites, Putting, CallRecord
<1>3. age \in Int /\ pieces \in [Indexes -> PieceRecord \cup {None}] /\ disturbed \subseteq Indexes
  BY DEF UploadsInv, UploadsTypes
<1>4. UNCHANGED <<bucket, age, ticket, handed, latest, disturbed>>
  BY DEF PutInBucket, PutTruncates, PutWrites
<1>5. PICK rec \in CallRecord : /\ rec.at \in {"done", "write"}
                                /\ rec.at = "write" => rec.index = i
                                /\ calls' = [calls EXCEPT ![c] = rec]
                                /\ PutTruncates(c) => rec.at = "write"
  <2>1. CASE PutTruncates(c)
    <3>1. [calls[c] EXCEPT !.at = "write"] \in CallRecord
      BY <1>1 DEF CallRecord
    <3> QED
      BY <1>1, <1>2, <2>1, <3>1 DEF PutTruncates, Goes, CallRecord
  <2>2. CASE ~PutTruncates(c)
    BY <1>2, <2>2, IdleIsACall DEF PutInBucket, PutWrites, Done, CallRecord
  <2> QED
    BY <2>1, <2>2
<1>6. PICK piece \in PieceRecord \cup {None} :
         /\ pieces' = [pieces EXCEPT ![i] = piece]
         /\ piece # None /\ i \notin disturbed /\ rec.at = "done" => piece.by = c /\ piece.whole
  <2>1. CASE PutInBucket(c)
    <3>1. Piece(c, TRUE, age) \in PieceRecord /\ Piece(c, TRUE, age).by = c /\ Piece(c, TRUE, age).whole
      BY <1>3 DEF Piece, PieceRecord
    <3> QED
      BY <1>2, <1>3, <2>1, <3>1 DEF PutInBucket
  <2>2. CASE PutTruncates(c)
    <3> DEFINE at == IF pieces[i] = None THEN age ELSE pieces[i].at
    <3>1. at \in Int
      BY <1>2, <1>3 DEF PieceRecord
    <3>2. Piece(c, FALSE, at) \in PieceRecord
      BY <3>1 DEF Piece, PieceRecord
    <3>3. pieces' = [pieces EXCEPT ![i] = Piece(c, FALSE, at)]
      BY <1>2, <1>3, <2>2 DEF PutTruncates
    <3> QED
      BY <1>5, <2>2, <3>2, <3>3
  <2>3. CASE PutWrites(c)
    <3>1. PICK whole \in BOOLEAN :
             /\ whole \/ i \in disturbed
             /\ pieces' = IF pieces[i] = None THEN pieces
                          ELSE [pieces EXCEPT ![i] = Piece(c, whole, @.at)]
      BY <1>2, <2>3 DEF PutWrites
    <3>2. CASE pieces[i] = None
      BY <1>2, <1>3, <3>1, <3>2
    <3>3. CASE pieces[i] # None
      <4>1. pieces[i].at \in Int
        BY <1>2, <1>3, <3>3 DEF PieceRecord
      <4>2. /\ Piece(c, whole, pieces[i].at) \in PieceRecord
            /\ Piece(c, whole, pieces[i].at).by = c
            /\ Piece(c, whole, pieces[i].at).whole = whole
        BY <4>1 DEF Piece, PieceRecord
      <4>3. pieces' = [pieces EXCEPT ![i] = Piece(c, whole, pieces[i].at)]
        BY <1>2, <1>3, <3>1, <3>3
      <4> QED
        BY <3>1, <4>2, <4>3
    <3> QED
      BY <3>2, <3>3
  <2> QED
    BY <2>1, <2>2, <2>3
<1>7. \A j \in Indexes : Putting(j)' = IF rec.at \in {"put", "write"} /\ rec.index = j
                                       THEN Putting(j) \cup {c} ELSE Putting(j) \ {c}
  BY <1>5, ChunkMoves
<1>8. \A j \in Indexes \ {i} : c \notin Putting(j)
  BY <1>2 DEF Putting
<1>9. \A j \in Indexes \ {i} : Putting(j)' = Putting(j) /\ pieces'[j] = pieces[j]
  BY <1>3, <1>5, <1>6, <1>7, <1>8
<1>10. i \notin disturbed => latest[i] = c /\ Putting(i) = {c}
  BY <1>2 DEF UploadsInv, PutAsSent
<1>11. ASSUME i \notin disturbed
       PROVE  /\ Putting(i)' \subseteq {latest[i]}
              /\ Putting(i)' = {} /\ pieces'[i] # None => AsSent(i, pieces'[i])
  <2>1. pieces'[i] = piece
    BY <1>2, <1>3, <1>6
  <2>2. rec.at = "write" => Putting(i)' # {}
    BY <1>2, <1>5, <1>7
  <2> QED
    BY <1>2, <1>5, <1>6, <1>7, <1>10, <1>11, <2>1, <2>2 DEF AsSent
<1>12. PutAsSent'
  BY <1>4, <1>9, <1>11 DEF UploadsInv, PutAsSent, AsSent
<1>13. pieces' \in [Indexes -> PieceRecord \cup {None}]
  BY <1>3, <1>6
<1>14. ticket' \in [there : BOOLEAN, size : [Indexes -> Nat]]
  BY <1>4 DEF UploadsInv, UploadsTypes
<1> QED
  BY <1>2, <1>3, <1>4, <1>5, <1>12, <1>13, <1>14, ChunkKeeps

\* Its index is disturbed from there on.
LEMMA ChunkFailsKeepsUploads ==
    ASSUME UploadsInv, NEW c \in Chunks, ChunkFails(c)
    PROVE  UploadsInv'
<1> DEFINE rec == [Idle EXCEPT !.at = "done"]
<1>1. rec \in CallRecord /\ rec.at = "done"
  BY IdleIsACall DEF CallRecord
<1>2. /\ calls' = [calls EXCEPT ![c] = rec]
      /\ disturbed' = disturbed \union {i \in Indexes : c \in Putting(i)}
      /\ UNCHANGED <<bucket, age, ticket, pieces, handed, latest>>
  BY DEF ChunkFails, Done
<1> HIDE DEF rec
<1>3. \A i \in Indexes : Putting(i)' = Putting(i) \ {c}
  BY <1>1, <1>2, ChunkMoves
<1>4. \A i \in Indexes \ disturbed' : Putting(i)' = Putting(i)
  BY <1>2, <1>3
<1>5. PutAsSent'
  BY <1>2, <1>4, PutStays
<1>6. /\ disturbed' \subseteq Indexes
      /\ ticket \in [there : BOOLEAN, size : [Indexes -> Nat]]
      /\ pieces \in [Indexes -> PieceRecord \cup {None}]
  BY <1>2 DEF UploadsInv, UploadsTypes
<1> QED
  BY <1>1, <1>2, <1>5, <1>6, ChunkKeeps

-----------------------------------------------------------------------------

\* A step of a finish, but for what it means for what it has read and handed.
LEMMA FinishKeeps ==
    ASSUME UploadsInv, NEW f \in Finishes, NEW rec \in CallRecord, rec.at # "idle",
           calls' = [calls EXCEPT ![f] = rec],
           UNCHANGED <<bucket, age, latest>>,
           ticket' \in [there : BOOLEAN, size : [Indexes -> Nat]], ~ticket.there => ~ticket'.there,
           pieces' \in [Indexes -> PieceRecord \cup {None}],
           \A i \in Indexes : pieces'[i] \in {pieces[i], None},
           disturbed' \subseteq Indexes, disturbed \subseteq disturbed',
           rec.at = "read" =>
               /\ ~ticket'.there
               /\ Len(rec.got) <= rec.count
               /\ \A i \in Indexes \ disturbed' : Putting(i) = {}
               /\ \A i \in Indexes \ disturbed' : i < Len(rec.got) => AsSent(i, rec.got[i + 1]),
           handed' \in Seq(PieceRecord), (handed # <<>> => ~ticket.there)', ReadAsSent(handed)'
    PROVE  UploadsInv'
<1>1. calls \in [UploadCalls -> CallRecord] /\ f \in UploadCalls
  BY DEF UploadsInv, UploadsTypes, UploadCalls
<1>2. \A c \in Chunks : c \in UploadCalls /\ c # f
  BY UploadsAssumption DEF UploadCalls
<1>3. \A c \in Chunks : calls'[c] = calls[c]
  BY <1>1, <1>2
<1>4. \A i \in Indexes : Putting(i)' = Putting(i)
  BY <1>3 DEF Putting
<1>5. UploadsTypes'
  BY <1>1 DEF UploadsInv, UploadsTypes
<1>6. PutAsSent'
  BY <1>4, PutStays
<1>7. Reads(f)'
  <2>1. calls'[f] = rec
    BY <1>1
  <2> QED
    BY <1>4, <2>1 DEF Reads, ReadAsSent, AsSent
<1>8. ASSUME NEW g \in Finishes \ {f} PROVE Reads(g)'
  <2>1. g \in UploadCalls
    BY DEF UploadCalls
  <2>2. calls'[g] = calls[g] /\ (ticket.there => calls[g].at # "read")
    BY <1>1, <2>1 DEF UploadsInv, Reads
  <2> QED
    BY <1>4, <2>2, ReadsStay
<1> QED
  BY <1>3, <1>5, <1>6, <1>7, <1>8 DEF UploadsInv

LEMMA TakeUploadKeepsUploads ==
    ASSUME UploadsInv, NEW f \in Finishes, TakeUpload(f)
    PROVE  UploadsInv'
<1>1. PICK count \in 0..Count : TakeUpload(f)!(count)
  BY DEF TakeUpload
<1> DEFINE complete == count > 0 /\ Present = 0..(count - 1)
           at == IF Live /\ complete THEN "read" ELSE "clear"
           rec == [calls[f] EXCEPT !.at = at, !.count = count]
<1>2. calls \in [UploadCalls -> CallRecord] /\ f \in UploadCalls /\ calls[f] = Idle
  BY <1>1 DEF UploadsInv, UploadsTypes, UploadCalls, Reads
<1>3. /\ calls' = [calls EXCEPT ![f] = rec]
      /\ ticket' = IF Live THEN Gone ELSE ticket
      /\ disturbed' = disturbed \union {i \in Indexes : Putting(i) # {}}
      /\ UNCHANGED <<bucket, age, pieces, handed, latest>>
  BY <1>1, <1>2
<1>4. rec.at = at /\ rec.got = <<>> /\ rec.count = count /\ rec \in CallRecord
  <2>1. at \in {"read", "clear"}
    OBVIOUS
  <2> HIDE DEF at
  <2>2. calls[f] \in CallRecord /\ calls[f].got = <<>>
    BY <1>2, IdleIsACall DEF Idle
  <2> QED
    BY <2>1, <2>2 DEF CallRecord
<1>5. ticket \in [there : BOOLEAN, size : [Indexes -> Nat]]
  BY DEF UploadsInv, UploadsTypes
<1>6. /\ ticket' \in [there : BOOLEAN, size : [Indexes -> Nat]]
      /\ ~ticket.there => ~ticket'.there
      /\ at = "read" => ~ticket'.there
  BY <1>3, <1>5 DEF Live, Gone
<1>7. at \in {"read", "clear"}
  OBVIOUS
<1> HIDE DEF rec, at
<1>8. disturbed' \subseteq Indexes /\ disturbed \subseteq disturbed'
  BY <1>3 DEF UploadsInv, UploadsTypes
<1>9. (handed # <<>> => ~ticket.there)' /\ ReadAsSent(handed)'
  BY <1>3, <1>6, <1>8, HandedStays
<1>10. \A i \in Indexes \ disturbed' : Putting(i) = {}
  BY <1>3
<1>11. Len(rec.got) = 0 /\ 0 <= rec.count /\ \A i \in Indexes : i \in Nat
  BY <1>4, ZeroIsAnIndex DEF Indexes
<1>12. /\ pieces' \in [Indexes -> PieceRecord \cup {None}]
       /\ \A i \in Indexes : pieces'[i] \in {pieces[i], None}
       /\ handed' \in Seq(PieceRecord)
  BY <1>3 DEF UploadsInv, UploadsTypes
<1>13. \A i \in Indexes \ disturbed' : ~(i < Len(rec.got))
  BY <1>11
<1>14. Len(rec.got) <= rec.count
  BY <1>11
<1> QED
  BY <1>3, <1>4, <1>6, <1>7, <1>8, <1>9, <1>10, <1>12, <1>13, <1>14, FinishKeeps

LEMMA TakeFailsKeepsUploads ==
    ASSUME UploadsInv, NEW f \in Finishes, TakeFails(f)
    PROVE  UploadsInv'
<1> DEFINE rec == [calls[f] EXCEPT !.at = "clear"]
<1>1. calls \in [UploadCalls -> CallRecord] /\ f \in UploadCalls /\ calls[f] = Idle
  BY DEF TakeFails, UploadsInv, UploadsTypes, UploadCalls, Reads
<1>2. /\ calls' = [calls EXCEPT ![f] = rec]
      /\ UNCHANGED <<bucket, age, ticket, pieces, handed, latest, disturbed>>
  BY <1>1 DEF TakeFails, Goes
<1>3. rec.at = "clear" /\ rec.got = <<>> /\ rec \in CallRecord
  BY <1>1, IdleIsACall DEF CallRecord, Idle
<1> HIDE DEF rec
<1>4. /\ ticket' \in [there : BOOLEAN, size : [Indexes -> Nat]]
      /\ pieces' \in [Indexes -> PieceRecord \cup {None}]
      /\ \A i \in Indexes : pieces'[i] \in {pieces[i], None}
      /\ handed' \in Seq(PieceRecord) /\ disturbed \subseteq Indexes
  BY <1>2 DEF UploadsInv, UploadsTypes
<1>5. (handed # <<>> => ~ticket.there)' /\ ReadAsSent(handed)'
  BY <1>2, HandedStays
<1> QED
  BY <1>2, <1>3, <1>4, <1>5, FinishKeeps

LEMMA ReadPieceKeepsUploads ==
    ASSUME UploadsInv, NEW f \in Finishes, ReadPiece(f)
    PROVE  UploadsInv'
<1>1. PICK i : i = Len(calls[f].got)
  OBVIOUS
<1>2. calls \in [UploadCalls -> CallRecord] /\ f \in UploadCalls /\ calls[f] \in CallRecord
  BY DEF UploadsInv, UploadsTypes, UploadCalls
<1>3. /\ calls[f].at = "read" /\ i < calls[f].count
      /\ calls' = IF pieces[i] # None THEN [calls EXCEPT ![f].got = Append(@, pieces[i])]
                  ELSE [calls EXCEPT ![f].at = "clear"]
      /\ UNCHANGED <<bucket, age, ticket, pieces, handed, latest, disturbed>>
  BY <1>1 DEF ReadPiece, ReadsBack
<1>4. i \in Nat /\ i \in Indexes /\ calls[f].count \in Nat /\ calls[f].got \in Seq(PieceRecord)
  BY <1>1, <1>2, <1>3, ZeroIsAnIndex DEF CallRecord, Indexes
<1>5. /\ ~ticket.there
      /\ \A j \in Indexes \ disturbed : Putting(j) = {}
      /\ ReadAsSent(calls[f].got)
  BY <1>3 DEF UploadsInv, Reads
<1>6. /\ ticket \in [there : BOOLEAN, size : [Indexes -> Nat]]
      /\ pieces \in [Indexes -> PieceRecord \cup {None}]
      /\ handed \in Seq(PieceRecord) /\ disturbed \subseteq Indexes
  BY DEF UploadsInv, UploadsTypes
<1>7. (handed # <<>> => ~ticket.there)' /\ ReadAsSent(handed)'
  BY <1>3, HandedStays
<1>8. CASE pieces[i] # None
  <2> DEFINE got == Append(calls[f].got, pieces[i])
             rec == [calls[f] EXCEPT !.got = got]
  <2>1. pieces[i] \in PieceRecord
    BY <1>4, <1>6, <1>8
  <2>2. /\ got \in Seq(PieceRecord) /\ Len(got) = i + 1 /\ got[i + 1] = pieces[i]
        /\ \A j \in Nat : j < i => got[j + 1] = calls[f].got[j + 1]
    BY <1>1, <1>4, <2>1
  <2> HIDE DEF got
  <2>3. rec \in CallRecord /\ rec.at = "read" /\ rec.got = got /\ rec.count = calls[f].count
    BY <1>2, <1>3, <2>2 DEF CallRecord
  <2>4. calls' = [calls EXCEPT ![f] = rec]
    BY <1>2, <1>3, <1>8 DEF got
  <2> HIDE DEF rec
  <2>5. ASSUME NEW j \in Indexes \ disturbed, j < Len(got)
        PROVE  AsSent(j, got[j + 1])
    <3>1. j \in Nat
      BY ZeroIsAnIndex
    <3>2. CASE j < i
      BY <1>1, <1>5, <2>2, <3>1, <3>2 DEF ReadAsSent
    <3>3. CASE j = i
      <4>1. AsSent(i, pieces[i])
        BY <1>4, <1>5, <1>8, <3>3 DEF UploadsInv, PutAsSent
      <4> QED
        BY <2>2, <3>3, <4>1
    <3> QED
      BY <1>4, <2>2, <2>5, <3>1, <3>2, <3>3
  <2>6. Len(rec.got) <= rec.count
    BY <1>3, <1>4, <2>2, <2>3
  <2> QED
    BY <1>3, <1>5, <1>6, <1>7, <2>3, <2>4, <2>5, <2>6, FinishKeeps
<1>9. CASE pieces[i] = None
  <2> DEFINE rec == [calls[f] EXCEPT !.at = "clear"]
  <2>1. rec \in CallRecord /\ rec.at = "clear"
    BY <1>2 DEF CallRecord
  <2>2. calls' = [calls EXCEPT ![f] = rec]
    BY <1>2, <1>3, <1>9
  <2> HIDE DEF rec
  <2> QED
    BY <1>3, <1>6, <1>7, <2>1, <2>2, FinishKeeps
<1> QED
  BY <1>8, <1>9

\* The end of a finish: what it hands over is what it read.
LEMMA EndsKeepsUploads ==
    ASSUME UploadsInv, NEW f \in Finishes, ClearAndHand(f) \/ FinishDies(f)
    PROVE  UploadsInv'
<1>1. calls \in [UploadCalls -> CallRecord] /\ f \in UploadCalls /\ calls[f] \in CallRecord
  BY DEF UploadsInv, UploadsTypes, UploadCalls
<1>2. /\ ticket \in [there : BOOLEAN, size : [Indexes -> Nat]]
      /\ pieces \in [Indexes -> PieceRecord \cup {None}]
      /\ handed \in Seq(PieceRecord) /\ disturbed \subseteq Indexes
  BY DEF UploadsInv, UploadsTypes
<1>3. PICK at \in {"ok", "refused", "failed"} : calls' = [calls EXCEPT ![f].at = at]
  BY DEF ClearAndHand, FinishDies, Goes
<1> DEFINE rec == [calls[f] EXCEPT !.at = at]
<1>4. rec \in CallRecord /\ rec.at = at
  BY <1>1 DEF CallRecord
<1>5. calls' = [calls EXCEPT ![f] = rec]
  BY <1>1, <1>3
<1> HIDE DEF rec
<1>6. UNCHANGED <<bucket, age, ticket, latest, disturbed>>
  BY DEF ClearAndHand, FinishDies
<1>7. /\ pieces' \in [Indexes -> PieceRecord \cup {None}]
      /\ \A i \in Indexes : pieces'[i] \in {pieces[i], None}
  BY <1>2 DEF ClearAndHand, FinishDies, Cleared
<1>8. handed' \in Seq(PieceRecord) /\ (handed # <<>> => ~ticket.there)' /\ ReadAsSent(handed)'
  <2>1. CASE handed' = handed
    BY <1>2, <1>6, <2>1, HandedStays
  <2>2. CASE handed' # handed
    <3>1. calls[f].at = "read" /\ handed' = calls[f].got
      BY <2>2 DEF ClearAndHand, FinishDies
    <3>2. ~ticket.there /\ ReadAsSent(calls[f].got)
      BY <3>1 DEF UploadsInv, Reads
    <3>3. ReadAsSent(handed)'
      BY <1>6, <3>1, <3>2 DEF ReadAsSent, AsSent
    <3> QED
      BY <1>1, <1>6, <3>1, <3>2, <3>3 DEF CallRecord
  <2> QED
    BY <2>1, <2>2
<1> QED
  BY <1>2, <1>3, <1>4, <1>5, <1>6, <1>7, <1>8, FinishKeeps

LEMMA TimeKeepsUploads ==
    ASSUME UploadsInv, Sweep \/ UploadsTick \/ UNCHANGED uploadsVars
    PROVE  UploadsInv'
<1>1. UNCHANGED <<bucket, ticket, calls, handed, latest, disturbed>>
  BY DEF Sweep, UploadsTick, uploadsVars
<1>2. /\ pieces \in [Indexes -> PieceRecord \cup {None}]
      /\ age \in Int
  BY DEF UploadsInv, UploadsTypes
<1>3. /\ pieces' \in [Indexes -> PieceRecord \cup {None}]
      /\ \A i \in Indexes : pieces'[i] \in {pieces[i], None}
      /\ age' \in Int
  BY <1>2 DEF Sweep, UploadsTick, uploadsVars
<1>4. \A i \in Indexes : Putting(i)' = Putting(i)
  BY <1>1 DEF Putting
<1>5. UploadsTypes'
  BY <1>1, <1>3 DEF UploadsInv, UploadsTypes
<1>6. PutAsSent'
  BY <1>1, <1>3, <1>4, PutStays
<1>7. ASSUME NEW f \in Finishes PROVE Reads(f)'
  BY <1>1, <1>4, ReadsStay DEF UploadsInv, Reads
<1>8. (handed # <<>> => ~ticket.there)' /\ ReadAsSent(handed)'
  BY <1>1, HandedStays
<1> QED
  BY <1>1, <1>5, <1>6, <1>7, <1>8 DEF UploadsInv

-----------------------------------------------------------------------------

LEMMA UploadsInitInv ==
    ASSUME UploadsInit
    PROVE  UploadsInv
<1>1. /\ age = 0 /\ handed = <<>> /\ disturbed = {} /\ bucket \in BOOLEAN
      /\ ticket = [there |-> TRUE, size |-> [i \in Indexes |-> 0]]
      /\ pieces = [i \in Indexes |-> None]
      /\ calls = [c \in UploadCalls |-> Idle]
      /\ latest = [i \in Indexes |-> None]
  BY DEF UploadsInit, UploadCalls
<1>2. UploadsTypes
  BY <1>1, IdleIsACall DEF UploadsTypes
<1>3. \A c \in UploadCalls : calls[c] = Idle /\ calls[c].at = "idle"
  BY <1>1 DEF Idle
<1>4. \A i \in Indexes : Putting(i) = {} /\ pieces[i] = None
  BY <1>1, <1>3 DEF Putting, UploadCalls
<1>5. Len(handed) = 0
  BY <1>1
<1>6. ReadAsSent(handed)
  BY <1>5, ZeroIsAnIndex DEF ReadAsSent
<1> QED
  BY <1>1, <1>2, <1>3, <1>4, <1>6 DEF UploadsInv, PutAsSent, Reads, UploadCalls

LEMMA UploadsNextInv ==
    ASSUME UploadsInv, [UploadsNext]_uploadsVars
    PROVE  UploadsInv'
<1>1. ASSUME NEW c \in Chunks,
             \/ CountChunk(c) \/ SpendOver(c) \/ ClearChunk(c) \/ ChunkFails(c)
             \/ PutInBucket(c) \/ PutTruncates(c) \/ PutWrites(c)
      PROVE  UploadsInv'
  BY <1>1, CountChunkKeepsUploads, RefusedKeepsUploads, ChunkFailsKeepsUploads, PutKeepsUploads
<1>2. ASSUME NEW f \in Finishes,
             TakeUpload(f) \/ TakeFails(f) \/ ReadPiece(f) \/ ClearAndHand(f) \/ FinishDies(f)
      PROVE  UploadsInv'
  BY <1>2, TakeUploadKeepsUploads, TakeFailsKeepsUploads, ReadPieceKeepsUploads, EndsKeepsUploads
<1> QED
  BY <1>1, <1>2, TimeKeepsUploads DEF UploadsNext

\* What holds of an inline upload, its pieces and the calls on it.
THEOREM UploadsInvariance == UploadsSpec => []UploadsInv
<1>1. UploadsInit => UploadsInv
  BY UploadsInitInv
<1>2. UploadsInv /\ [UploadsNext]_uploadsVars => UploadsInv'
  BY UploadsNextInv
<1> QED
  BY <1>1, <1>2, PTL DEF UploadsSpec

\* However chunks, finishes, refusals, failures and sweeps of one upload overlap,
\* what a finish hands over is each piece in order, the whole of the last chunk
\* counted for it, where the chunks of its index came one after another and each
\* was answered before the finish (inline_upload.rs, chunk_within and finish).
THEOREM JoinsAsSent == UploadsSpec => []HandedAsSent
<1>1. UploadsInv => HandedAsSent
  BY DEF UploadsInv, ReadAsSent, AsSent, HandedAsSent
<1> QED
  BY <1>1, UploadsInvariance, PTL

-----------------------------------------------------------------------------
(* One key of the files an app stores, for any writes, reads, pieces and    *)
(* failures.                                                                *)

WriteRecord ==
    [kind : {"put", "pieces", "upload"},
     at : {"none", "open", "part", "last", "place", "mark", "clear", "abort", "kept", "failed"},
     sent : 0..MaxPieces, parted : 0..MaxPieces, knows : BOOLEAN]

\* What a write has, and has left, at each of its steps.
WriteShape(w) ==
    /\ write[w].sent <= MostBytes
    /\ write[w].knows \/ write[w].at \in {"part", "last"} => write[w].kind = "pieces" /\ inBucket
    /\ write[w].at = "last" => write[w].knows
    /\ write[w].at = "place" /\ write[w].knows => write[w].parted = write[w].sent
    /\ write[w].at \in {"none", "mark"} => w \notin temps
    /\ write[w].at \in {"none", "mark", "clear"} => w \notin uploads
    /\ w \in temps /\ inBucket => write[w].kind = "upload"
    /\ w \in uploads => inBucket /\ write[w].kind = "pieces" /\ (write[w].knows \/ w \in strays)
    /\ w \in (temps \cup uploads) \ strays => ~Ended(w)

Appeared == {"mark", "clear", "abort", "kept", "failed"}

\* All that one write sent, of a write whose file appeared.
FromWrite(b) ==
    /\ b.by \in BlobWrites
    /\ b.pieces = write[b.by].sent /\ write[b.by].sent <= MostBytes
    /\ write[b.by].at \in Appeared

BlobsInv ==
    /\ BlobsTypeOK
    /\ \A w \in BlobWrites : WriteShape(w)
    /\ bytes # NoWrite => FromWrite(bytes)
    /\ \A r \in BlobReads : read[r].at = "done" => FromWrite(read[r].got)

LEMMA WriteFields ==
    ASSUME BlobsTypeOK, NEW w \in BlobWrites
    PROVE  /\ write \in [BlobWrites -> WriteRecord] /\ write[w] \in WriteRecord
           /\ write[w].sent \in 0..MaxPieces /\ write[w].parted \in 0..MaxPieces
           /\ write[w].knows \in BOOLEAN
BY DEF BlobsTypeOK, WriteRecord

\* A write becomes another record, the others stay.
WriteBecomes(w, rec) ==
    /\ write' \in [BlobWrites -> WriteRecord] /\ write'[w] = rec
    /\ \A d \in BlobWrites : d # w => write'[d] = write[d]

LEMMA SetsBecomes ==
    ASSUME BlobsTypeOK, NEW w \in BlobWrites, NEW rec \in WriteRecord, Sets(w, rec)
    PROVE  WriteBecomes(w, rec)
BY WriteFields DEF Sets, WriteBecomes

LEMMA GoesBecomes ==
    ASSUME BlobsTypeOK, NEW w \in BlobWrites,
           NEW at \in {"none", "open", "part", "last", "place", "mark", "clear", "abort", "kept", "failed"},
           WriteGoes(w, at)
    PROVE  /\ WriteBecomes(w, write'[w])
           /\ write'[w].at = at /\ write'[w].kind = write[w].kind /\ write'[w].sent = write[w].sent
           /\ write'[w].parted = write[w].parted /\ write'[w].knows = write[w].knows
BY WriteFields DEF WriteGoes, WriteBecomes, WriteRecord

\* What a step of one write leaves of the others.
LeavesOthers(w) ==
    /\ UNCHANGED <<inBucket, read, deletes>>
    /\ temps' \subseteq BlobWrites /\ uploads' \subseteq BlobWrites /\ strays' \subseteq BlobWrites
    /\ troubles' \in 0..MaxTroubles
    /\ \A d \in BlobWrites : d # w =>
          /\ d \in temps' => d \in temps
          /\ d \in uploads' => d \in uploads
          /\ d \in strays /\ d \in temps' \cup uploads' => d \in strays'

LEMMA OneWriteMoves ==
    ASSUME BlobsInv, NEW w \in BlobWrites, WriteBecomes(w, write'[w]), LeavesOthers(w),
           write[w].at \in Appeared => write'[w].at \in Appeared /\ write'[w].sent = write[w].sent,
           bytes' = bytes \/ (bytes'.by = w /\ FromWrite(bytes)' /\ bytes' \in [by : BlobWrites \cup {"nobody"}, pieces : 0..MaxPieces]),
           WriteShape(w)'
    PROVE  BlobsInv'
<1>1. BlobsTypeOK
  BY DEF BlobsInv
<1>2. BlobsTypeOK'
  BY <1>1 DEF BlobsTypeOK, LeavesOthers, WriteBecomes, WriteRecord
<1>3. ASSUME NEW d \in BlobWrites, d # w PROVE WriteShape(d)'
  <2>1. WriteShape(d) /\ write'[d] = write[d]
    BY <1>3 DEF BlobsInv, WriteBecomes
  <2> QED
    BY <1>3, <2>1 DEF WriteShape, LeavesOthers, Ended
<1>4. ASSUME NEW b, FromWrite(b) PROVE FromWrite(b)'
  BY <1>4 DEF FromWrite, WriteBecomes, BlobsInv
<1>5. bytes' # NoWrite => FromWrite(bytes)'
  BY <1>4 DEF BlobsInv
<1>6. \A r \in BlobReads : read'[r].at = "done" => FromWrite(read[r].got)'
  BY <1>4 DEF BlobsInv, LeavesOthers
<1> QED
  BY <1>2, <1>3, <1>5, <1>6 DEF BlobsInv, LeavesOthers

-----------------------------------------------------------------------------

LEMMA BeginsKeepsBlobs ==
    ASSUME BlobsInv, NEW w \in BlobWrites, NEW kind \in {"put", "pieces", "upload"},
           NEW n \in 0..MaxPieces, BeginsWrite(w, kind, n)
    PROVE  BlobsInv'
<1> DEFINE at == IF kind = "put" THEN "place" ELSE "open"
           rec == [Unwritten EXCEPT !.kind = kind, !.sent = n, !.at = at]
<1>1. BlobsTypeOK /\ WriteShape(w) /\ write[w].at = "none"
  BY DEF BlobsInv, BeginsWrite, Is
<1>2. MaxPieces \in Nat /\ MostBytes \in Nat
  BY BlobsAssumption
<1>3. n <= MostBytes
  BY <1>2 DEF BeginsWrite
<1>4. Unwritten \in WriteRecord /\ ~Unwritten.knows
  <2> DEFINE no == FALSE
  <2>1. Unwritten = [kind |-> "put", at |-> "none", sent |-> 0, parted |-> 0, knows |-> no]
    BY Zenon DEF Unwritten
  <2>2. no \in BOOLEAN /\ ~no
    OBVIOUS
  <2> HIDE DEF no
  <2> QED
    BY <1>2, <2>1, <2>2 DEF WriteRecord
<1>5. at \in {"place", "open"}
  OBVIOUS
<1>6. /\ rec \in WriteRecord
      /\ rec.sent = n /\ ~rec.knows /\ rec.kind = kind
      /\ rec.at \in {"place", "open"}
  <2> HIDE DEF at
  <2> QED
    BY <1>4, <1>5 DEF WriteRecord
<1>61. Sets(w, rec)
  BY DEF BeginsWrite
<1> HIDE DEF rec, at
<1>7. WriteBecomes(w, rec)
  BY <1>1, <1>6, <1>61, SetsBecomes
<1>8. PICK stale \in {{}, IF kind = "pieces" /\ ~inBucket THEN Sweepable ELSE {}} :
        /\ temps' = (temps \ stale) \cup (IF inBucket /\ kind # "upload" THEN {} ELSE {w})
        /\ strays' = strays \ stale
  BY DEF BeginsWrite
<1>9. UNCHANGED <<inBucket, read, deletes, bytes, uploads, troubles>>
  BY DEF BeginsWrite, BesideWrites
<1>10. stale = {} \/ (~inBucket /\ stale \subseteq strays)
  BY DEF Sweepable
<1>11. inBucket \/ uploads = {}
  BY DEF BlobsInv, WriteShape, BlobsTypeOK
<1>12. LeavesOthers(w)
  <2>1. temps' \subseteq BlobWrites /\ strays' \subseteq BlobWrites /\ uploads' \subseteq BlobWrites /\ troubles' \in 0..MaxTroubles
    BY <1>1, <1>8, <1>9 DEF BlobsTypeOK
  <2>2. ASSUME NEW d \in BlobWrites, d # w
        PROVE  /\ d \in temps' => d \in temps
               /\ d \in uploads' => d \in uploads
               /\ d \in strays /\ d \in temps' \cup uploads' => d \in strays'
    BY <2>2, <1>8, <1>9, <1>10, <1>11
  <2> QED
    BY <2>1, <2>2, <1>9 DEF LeavesOthers
<1>13. WriteShape(w)'
  <2>1. write'[w] = rec
    BY <1>7 DEF WriteBecomes
  <2>2. w \notin uploads'
    BY <1>1, <1>9 DEF WriteShape
  <2>3. w \in temps' /\ inBucket => kind = "upload"
    <3>1. CASE ~inBucket
      BY <3>1
    <3>2. CASE inBucket
      <4>1. stale = {}
        BY <3>2, <1>10
      <4>2. w \notin temps
        BY <1>1 DEF WriteShape
      <4> QED
        BY <4>1, <4>2, <1>8, <3>2
    <3> QED
      BY <3>1, <3>2
  <2> QED
    BY <2>1, <2>2, <2>3, <1>3, <1>6, <1>9 DEF WriteShape, Ended
<1> QED
  BY <1>7, <1>9, <1>12, <1>13, <1>1, OneWriteMoves DEF WriteBecomes, Appeared

LEMMA AppendsKeepsBlobs ==
    ASSUME BlobsInv, NEW w \in BlobWrites, Appends(w)
    PROVE  BlobsInv'
<1>1. BlobsTypeOK /\ WriteShape(w) /\ write[w].at = "open" /\ write[w].sent < MaxPieces
  BY DEF BlobsInv, Appends, Is
<1>2. MaxPieces \in Nat /\ MostBytes \in Nat
  BY BlobsAssumption
<1>3. write[w] \in WriteRecord /\ write[w].sent \in 0..MaxPieces
  BY <1>1, WriteFields
<1>4. UNCHANGED <<inBucket, read, deletes, bytes, temps, uploads, strays, troubles>>
  BY DEF Appends, BesideWrites
<1>5. LeavesOthers(w)
  BY <1>1, <1>4 DEF LeavesOthers, BlobsTypeOK
<1> DEFINE more == [write[w] EXCEPT !.sent = @ + 1]
           full == [write[w] EXCEPT !.sent = @ + 1, !.at = "part"]
<1>6. /\ more \in WriteRecord /\ more.sent = write[w].sent + 1 /\ more.at = "open"
      /\ more.kind = write[w].kind /\ more.knows = write[w].knows
  BY <1>1, <1>2, <1>3 DEF WriteRecord
<1>61. full = [more EXCEPT !.at = "part"]
  OBVIOUS
<1>62. /\ full \in WriteRecord /\ full.sent = write[w].sent + 1 /\ full.at = "part"
      /\ full.kind = write[w].kind /\ full.knows = write[w].knows
  <2> HIDE DEF more, full
  <2> QED
    BY <1>6, <1>61 DEF WriteRecord
<1>7. \/ write[w].sent + 1 > MostBytes /\ WriteGoes(w, "abort")
      \/ ~(write[w].sent + 1 > MostBytes) /\ Sets(w, more)
      \/ ~(write[w].sent + 1 > MostBytes) /\ inBucket /\ write[w].kind = "pieces" /\ Sets(w, full)
  BY DEF Appends
<1> HIDE DEF more, full
<1>8. /\ WriteBecomes(w, write'[w]) /\ write'[w].at \in {"open", "part", "abort"}
      /\ write'[w].kind = write[w].kind /\ write'[w].knows = write[w].knows
      /\ write'[w].sent <= MostBytes
      /\ write'[w].at = "part" => inBucket /\ write[w].kind = "pieces"
  <2>1. CASE WriteGoes(w, "abort")
    BY <2>1, <1>1, GoesBecomes DEF WriteShape
  <2>2. CASE ~(write[w].sent + 1 > MostBytes) /\ Sets(w, more)
    BY <2>2, <1>1, <1>2, <1>3, <1>6, SetsBecomes DEF WriteBecomes
  <2>3. CASE ~(write[w].sent + 1 > MostBytes) /\ inBucket /\ write[w].kind = "pieces" /\ Sets(w, full)
    BY <2>3, <1>1, <1>2, <1>3, <1>62, SetsBecomes DEF WriteBecomes
  <2> QED
    BY <1>7, <2>1, <2>2, <2>3
<1>9. WriteShape(w)'
  BY <1>1, <1>4, <1>8 DEF WriteShape, Ended
<1> QED
  BY <1>1, <1>4, <1>5, <1>8, <1>9, OneWriteMoves DEF Appeared

LEMMA BegunKeepsBlobs ==
    ASSUME BlobsInv, NEW w \in BlobWrites, Begun(w)
    PROVE  BlobsInv'
<1>1. BlobsTypeOK /\ WriteShape(w) /\ write[w].at \in {"part", "last"} /\ ~write[w].knows
  BY DEF BlobsInv, Begun
<1>2. write[w] \in WriteRecord
  BY <1>1, WriteFields
<1>3. /\ UNCHANGED <<inBucket, read, deletes, bytes, temps>> /\ uploads' = uploads \cup {w}
      /\ strays' = strays \/ strays' = strays \cup {w}
      /\ troubles' \in 0..MaxTroubles
  BY <1>1, BlobsAssumption DEF Begun, BesideWrites, Trouble, BlobsTypeOK
<1>4. LeavesOthers(w)
  BY <1>1, <1>3 DEF LeavesOthers, BlobsTypeOK
<1> DEFINE yes == TRUE
           known == [write[w] EXCEPT !.knows = yes]
<1>5. \/ Sets(w, known) /\ strays' = strays
      \/ WriteGoes(w, "abort") /\ strays' = strays \cup {w}
  BY DEF Begun
<1>6. yes
  OBVIOUS
<1> HIDE DEF yes
<1>7. /\ yes \in BOOLEAN => known \in WriteRecord
      /\ known.sent = write[w].sent /\ known.at = write[w].at
      /\ known.kind = write[w].kind /\ known.knows = yes
  BY <1>2 DEF WriteRecord
<1>8. yes \in BOOLEAN
  BY <1>6 DEF yes
<1> HIDE DEF known
<1>9. /\ WriteBecomes(w, write'[w]) /\ write'[w].sent = write[w].sent /\ write'[w].kind = write[w].kind
      /\ \/ write'[w].at = write[w].at /\ write'[w].knows
         \/ write'[w].at = "abort" /\ write'[w].knows = write[w].knows /\ w \in strays'
  <2>1. CASE Sets(w, known)
    BY <2>1, <1>1, <1>6, <1>7, <1>8, SetsBecomes DEF WriteBecomes
  <2>2. CASE WriteGoes(w, "abort") /\ strays' = strays \cup {w}
    BY <2>2, <1>1, GoesBecomes
  <2> QED
    BY <1>5, <2>1, <2>2
<1>10. WriteShape(w)'
  BY <1>1, <1>3, <1>9 DEF WriteShape, Ended
<1> QED
  BY <1>1, <1>3, <1>4, <1>9, <1>10, OneWriteMoves DEF Appeared

LEMMA PartedKeepsBlobs ==
    ASSUME BlobsInv, NEW w \in BlobWrites, Parted(w)
    PROVE  BlobsInv'
<1>1. BlobsTypeOK /\ WriteShape(w) /\ write[w].at \in {"part", "last"} /\ write[w].knows
  BY DEF BlobsInv, Parted
<1>2. write[w] \in WriteRecord
  BY <1>1, WriteFields
<1>3. /\ UNCHANGED <<inBucket, read, deletes, bytes, temps, uploads, strays>>
      /\ troubles' \in 0..MaxTroubles
  BY <1>1, BlobsAssumption DEF Parted, BesideWrites, Trouble, BlobsTypeOK
<1>4. LeavesOthers(w)
  BY <1>1, <1>3 DEF LeavesOthers, BlobsTypeOK
<1> DEFINE to == IF write[w].at = "part" THEN "open" ELSE "place"
           past == [write[w] EXCEPT !.parted = write[w].sent, !.at = to]
<1>5. Sets(w, past) \/ WriteGoes(w, "abort")
  BY DEF Parted
<1>6. to \in {"open", "place"}
  OBVIOUS
<1> HIDE DEF to
<1>7. /\ past \in WriteRecord /\ past.sent = write[w].sent /\ past.at = to
      /\ past.kind = write[w].kind /\ past.knows = write[w].knows /\ past.parted = write[w].sent
  BY <1>2, <1>6 DEF WriteRecord
<1> HIDE DEF past
<1>8. /\ WriteBecomes(w, write'[w]) /\ write'[w].sent = write[w].sent /\ write'[w].kind = write[w].kind
      /\ write'[w].knows = write[w].knows
      /\ \/ write'[w].at \in {"open", "place"} /\ write'[w].parted = write'[w].sent
         \/ write'[w].at = "abort"
  <2>1. CASE Sets(w, past)
    BY <2>1, <1>1, <1>6, <1>7, SetsBecomes DEF WriteBecomes
  <2>2. CASE WriteGoes(w, "abort")
    BY <2>2, <1>1, GoesBecomes
  <2> QED
    BY <1>5, <2>1, <2>2
<1>9. WriteShape(w)'
  BY <1>1, <1>3, <1>8 DEF WriteShape, Ended
<1> QED
  BY <1>1, <1>3, <1>4, <1>8, <1>9, OneWriteMoves DEF Appeared

LEMMA FinishesKeepsBlobs ==
    ASSUME BlobsInv, NEW w \in BlobWrites, FinishesWrite(w)
    PROVE  BlobsInv'
<1>1. BlobsTypeOK /\ WriteShape(w) /\ write[w].at = "open"
  BY DEF BlobsInv, FinishesWrite, Is
<1>2. UNCHANGED <<inBucket, read, deletes, bytes, temps, uploads, strays, troubles>>
  BY DEF FinishesWrite, BesideWrites
<1>3. LeavesOthers(w)
  BY <1>1, <1>2 DEF LeavesOthers, BlobsTypeOK
<1> DEFINE to == IF write[w].knows THEN "last" ELSE "place"
<1>4. WriteGoes(w, to)
  BY DEF FinishesWrite
<1>5. /\ to \in {"last", "place"}
      /\ write[w].knows <=> to = "last"
  OBVIOUS
<1> HIDE DEF to
<1>6. /\ WriteBecomes(w, write'[w]) /\ write'[w].at = to /\ write'[w].kind = write[w].kind
      /\ write'[w].sent = write[w].sent /\ write'[w].knows = write[w].knows
  BY <1>1, <1>4, <1>5, GoesBecomes
<1>7. WriteShape(w)'
  BY <1>1, <1>2, <1>5, <1>6 DEF WriteShape, Ended
<1> QED
  BY <1>1, <1>2, <1>3, <1>5, <1>6, <1>7, OneWriteMoves DEF Appeared

LEMMA AppearsKeepsBlobs ==
    ASSUME BlobsInv, NEW w \in BlobWrites, Appears(w)
    PROVE  BlobsInv'
<1>1. BlobsTypeOK /\ WriteShape(w) /\ write[w].at = "place"
  BY DEF BlobsInv, Appears, Is
<1>2. /\ write[w] \in WriteRecord /\ write[w].sent \in 0..MaxPieces /\ write[w].knows \in BOOLEAN
      /\ write[w].kind \in {"put", "pieces", "upload"}
  BY <1>1, WriteFields DEF WriteRecord
<1>3. /\ UNCHANGED <<inBucket, read, deletes, strays>> /\ uploads' = uploads \ {w}
      /\ temps' \subseteq temps
      /\ troubles' \in 0..MaxTroubles
  BY <1>1, BlobsAssumption DEF Appears, BesideWrites, Trouble, BlobsTypeOK
<1>4. LeavesOthers(w)
  <2>1. \A d \in BlobWrites : d # w /\ d \in temps' => d \in temps
    BY <1>3
  <2> QED
    BY <1>1, <1>3, <2>1 DEF LeavesOthers, BlobsTypeOK
<1>5. bytes' = [by |-> w, pieces |-> write[w].sent]
  BY <1>1 DEF Appears, Whole, WriteShape
<1> DEFINE to == IF ~inBucket THEN "mark" ELSE IF write[w].kind = "upload" THEN "clear" ELSE "kept"
<1>6. \/ WriteGoes(w, to) /\ temps' = IF inBucket THEN temps ELSE temps \ {w}
      \/ inBucket /\ WriteGoes(w, "abort") /\ temps' = temps
  BY DEF Appears
<1>7. /\ to \in {"mark", "clear", "kept"}
      /\ to = "mark" <=> ~inBucket
      /\ to = "kept" => inBucket /\ write[w].kind # "upload"
  OBVIOUS
<1> HIDE DEF to
<1>8. /\ WriteBecomes(w, write'[w]) /\ write'[w].kind = write[w].kind
      /\ write'[w].sent = write[w].sent /\ write'[w].knows = write[w].knows
      /\ \/ write'[w].at = to /\ temps' = IF inBucket THEN temps ELSE temps \ {w}
         \/ write'[w].at = "abort" /\ inBucket /\ temps' = temps
  BY <1>1, <1>6, <1>7, GoesBecomes
<1>9. WriteShape(w)'
  <2>1. inBucket /\ write[w].kind # "upload" => w \notin temps'
    BY <1>1, <1>3 DEF WriteShape
  <2>2. ~inBucket => w \notin temps'
    BY <1>8
  <2>3. w \in temps' /\ inBucket => write[w].kind = "upload"
    BY <2>1
  <2> QED
    BY <1>1, <1>3, <1>7, <1>8, <2>1, <2>2, <2>3 DEF WriteShape, Ended
<1>10. FromWrite(bytes)' /\ bytes' \in [by : BlobWrites \cup {"nobody"}, pieces : 0..MaxPieces]
  BY <1>1, <1>2, <1>5, <1>7, <1>8 DEF FromWrite, WriteShape, Appeared
<1> QED
  BY <1>1, <1>4, <1>5, <1>8, <1>9, <1>10, OneWriteMoves DEF Appeared

\* The steps that only move a write on.
LEMMA GoesKeepsBlobs ==
    ASSUME BlobsInv, NEW w \in BlobWrites,
           NEW at \in {"none", "open", "part", "last", "place", "mark", "clear", "abort", "kept", "failed"},
           WriteGoes(w, at), LeavesOthers(w), bytes' = bytes,
           write[w].at \in Appeared => at \in Appeared,
           (WriteShape(w) /\ write'[w].at = at /\ write'[w].kind = write[w].kind
               /\ write'[w].sent = write[w].sent /\ write'[w].parted = write[w].parted
               /\ write'[w].knows = write[w].knows) => WriteShape(w)'
    PROVE  BlobsInv'
<1>1. BlobsTypeOK /\ WriteShape(w)
  BY DEF BlobsInv
<1>2. /\ WriteBecomes(w, write'[w]) /\ write'[w].at = at /\ write'[w].kind = write[w].kind
      /\ write'[w].sent = write[w].sent /\ write'[w].parted = write[w].parted
      /\ write'[w].knows = write[w].knows
  BY <1>1, GoesBecomes
<1> QED
  BY <1>1, <1>2, OneWriteMoves

LEMMA ClearsKeepsBlobs ==
    ASSUME BlobsInv, NEW w \in BlobWrites, Clears(w)
    PROVE  BlobsInv'
<1>1. /\ UNCHANGED <<inBucket, read, deletes, bytes, uploads, strays, troubles>> /\ temps' = temps \ {w}
      /\ write[w].at = "clear" /\ WriteGoes(w, "kept")
  BY DEF Clears, BesideWrites, Is
<1>2. BlobsTypeOK /\ LeavesOthers(w)
  BY <1>1 DEF BlobsInv, BlobsTypeOK, LeavesOthers
<1>3. (WriteShape(w) /\ write'[w].at = "kept" /\ write'[w].kind = write[w].kind
         /\ write'[w].sent = write[w].sent /\ write'[w].parted = write[w].parted
         /\ write'[w].knows = write[w].knows) => WriteShape(w)'
  BY <1>1 DEF WriteShape, Ended
<1> QED
  BY <1>1, <1>2, <1>3, GoesKeepsBlobs DEF Appeared

LEMMA RefusesKeepsBlobs ==
    ASSUME BlobsInv, NEW w \in BlobWrites, Refuses(w)
    PROVE  BlobsInv'
<1>1. /\ UNCHANGED <<inBucket, read, deletes, bytes, temps, uploads>> /\ write[w].at = "place" /\ Trouble
      /\ \/ WriteGoes(w, "abort") /\ strays' = strays
         \/ WriteGoes(w, "failed") /\ strays' = strays \cup {w}
  BY DEF Refuses, BesideWrites, Is
<1>2. BlobsTypeOK /\ LeavesOthers(w)
  BY <1>1, BlobsAssumption DEF BlobsInv, BlobsTypeOK, LeavesOthers, Trouble
<1>3. CASE WriteGoes(w, "abort") /\ strays' = strays
  <2>1. (WriteShape(w) /\ write'[w].at = "abort" /\ write'[w].kind = write[w].kind
           /\ write'[w].sent = write[w].sent /\ write'[w].parted = write[w].parted
           /\ write'[w].knows = write[w].knows) => WriteShape(w)'
    BY <1>1, <1>3 DEF WriteShape, Ended
  <2> QED
    BY <1>1, <1>2, <1>3, <2>1, GoesKeepsBlobs DEF Appeared
<1>4. CASE WriteGoes(w, "failed") /\ strays' = strays \cup {w}
  <2>1. (WriteShape(w) /\ write'[w].at = "failed" /\ write'[w].kind = write[w].kind
           /\ write'[w].sent = write[w].sent /\ write'[w].parted = write[w].parted
           /\ write'[w].knows = write[w].knows) => WriteShape(w)'
    BY <1>1, <1>4 DEF WriteShape, Ended
  <2> QED
    BY <1>1, <1>2, <1>4, <2>1, GoesKeepsBlobs DEF Appeared
<1> QED
  BY <1>1, <1>3, <1>4

LEMMA MarksKeepsBlobs ==
    ASSUME BlobsInv, NEW w \in BlobWrites, Marks(w)
    PROVE  BlobsInv'
<1>1. /\ UNCHANGED <<inBucket, read, deletes, bytes, temps, uploads, strays>> /\ write[w].at = "mark"
      /\ troubles' = troubles \/ Trouble
  BY DEF Marks, BesideWrites, Is
<1>2. PICK at \in {"kept", "failed"} : WriteGoes(w, at)
  BY DEF Marks
<1>3. BlobsTypeOK /\ LeavesOthers(w)
  BY <1>1, BlobsAssumption DEF BlobsInv, BlobsTypeOK, LeavesOthers, Trouble
<1>4. (WriteShape(w) /\ write'[w].at = at /\ write'[w].kind = write[w].kind
         /\ write'[w].sent = write[w].sent /\ write'[w].parted = write[w].parted
         /\ write'[w].knows = write[w].knows) => WriteShape(w)'
  BY <1>1 DEF WriteShape, Ended
<1> QED
  BY <1>1, <1>2, <1>3, <1>4, GoesKeepsBlobs DEF Appeared

LEMMA AbortsKeepsBlobs ==
    ASSUME BlobsInv, NEW w \in BlobWrites, Aborts(w)
    PROVE  BlobsInv'
<1>1. /\ UNCHANGED <<inBucket, read, deletes, bytes>> /\ temps' = temps \ {w}
      /\ write[w].at = "abort" /\ WriteGoes(w, "failed")
      /\ \/ /\ uploads' = IF write[w].knows THEN uploads \ {w} ELSE uploads
            /\ strays' = strays /\ troubles' = troubles
         \/ Trouble /\ strays' = strays \cup {w} /\ uploads' = uploads
  BY DEF Aborts, BesideWrites, Is
<1>2. BlobsTypeOK /\ LeavesOthers(w)
  <2>1. BlobsTypeOK
    BY DEF BlobsInv
  <2>2. uploads' \subseteq uploads /\ strays' \subseteq strays \cup {w} /\ strays \subseteq strays'
    BY <1>1
  <2>3. troubles' \in 0..MaxTroubles
    BY <1>1, <2>1, BlobsAssumption DEF BlobsTypeOK, Trouble
  <2>4. temps' \subseteq BlobWrites /\ uploads' \subseteq BlobWrites /\ strays' \subseteq BlobWrites
    BY <1>1, <2>1, <2>2 DEF BlobsTypeOK
  <2> QED
    BY <1>1, <2>1, <2>2, <2>3, <2>4 DEF LeavesOthers
<1>3. (WriteShape(w) /\ write'[w].at = "failed" /\ write'[w].kind = write[w].kind
         /\ write'[w].sent = write[w].sent /\ write'[w].parted = write[w].parted
         /\ write'[w].knows = write[w].knows) => WriteShape(w)'
  BY <1>1 DEF WriteShape, Ended
<1> QED
  BY <1>1, <1>2, <1>3, GoesKeepsBlobs DEF Appeared

LEMMA DroppedKeepsBlobs ==
    ASSUME BlobsInv, NEW w \in BlobWrites, Dropped(w)
    PROVE  BlobsInv'
<1>1. /\ UNCHANGED <<inBucket, read, deletes, bytes, temps, uploads>>
      /\ \/ write[w].at = "open" /\ WriteGoes(w, "abort") /\ strays' = strays /\ troubles' = troubles
         \/ /\ write[w].kind = "upload" /\ write[w].at \in {"open", "place", "mark", "clear"} /\ Trouble
            /\ WriteGoes(w, "failed") /\ strays' = strays \cup (temps \cap {w})
  BY DEF Dropped, BesideWrites, Is
<1>2. BlobsTypeOK /\ LeavesOthers(w)
  <2>1. BlobsTypeOK
    BY DEF BlobsInv
  <2>2. strays' \subseteq strays \cup {w} /\ strays \subseteq strays'
    BY <1>1
  <2>3. troubles' \in 0..MaxTroubles
    BY <1>1, <2>1, BlobsAssumption DEF BlobsTypeOK, Trouble
  <2> QED
    BY <1>1, <2>1, <2>2, <2>3 DEF LeavesOthers, BlobsTypeOK
<1>3. CASE write[w].at = "open" /\ WriteGoes(w, "abort") /\ strays' = strays
  <2>1. (WriteShape(w) /\ write'[w].at = "abort" /\ write'[w].kind = write[w].kind
           /\ write'[w].sent = write[w].sent /\ write'[w].parted = write[w].parted
           /\ write'[w].knows = write[w].knows) => WriteShape(w)'
    BY <1>1, <1>3 DEF WriteShape, Ended
  <2> QED
    BY <1>1, <1>2, <1>3, <2>1, GoesKeepsBlobs DEF Appeared
<1>4. CASE /\ write[w].kind = "upload" /\ write[w].at \in {"open", "place", "mark", "clear"}
           /\ WriteGoes(w, "failed") /\ strays' = strays \cup (temps \cap {w})
  <2>1. (WriteShape(w) /\ write'[w].at = "failed" /\ write'[w].kind = write[w].kind
           /\ write'[w].sent = write[w].sent /\ write'[w].parted = write[w].parted
           /\ write'[w].knows = write[w].knows) => WriteShape(w)'
    BY <1>1, <1>4 DEF WriteShape, Ended
  <2> QED
    BY <1>1, <1>2, <1>4, <2>1, GoesKeepsBlobs DEF Appeared
<1> QED
  BY <1>1, <1>3, <1>4

LEMMA DiesKeepsBlobs ==
    ASSUME BlobsInv, Dies
    PROVE  BlobsInv'
<1> DEFINE under == {w \in BlobWrites : write[w].at # "none" /\ ~Ended(w)}
<1>1. BlobsTypeOK
  BY DEF BlobsInv
<1>2. /\ write' = [w \in BlobWrites |-> IF w \in under THEN [write[w] EXCEPT !.at = "failed"] ELSE write[w]]
      /\ strays' = strays \cup (under \cap (temps \cup uploads))
      /\ read' = [r \in BlobReads |-> IF read[r].at = "stat" THEN Unread ELSE read[r]]
      /\ UNCHANGED <<bytes, inBucket, temps, uploads, deletes>>
  BY DEF Dies
<1>3. ASSUME NEW w \in BlobWrites
      PROVE  /\ write'[w] \in WriteRecord /\ write'[w].kind = write[w].kind /\ write'[w].sent = write[w].sent
             /\ write'[w].parted = write[w].parted /\ write'[w].knows = write[w].knows
             /\ w \in under => write'[w].at = "failed"
             /\ w \notin under => write'[w].at = write[w].at /\ write[w].at \in {"none", "kept", "failed"}
  <2>1. write[w] \in WriteRecord
    BY <1>1, WriteFields
  <2>2. CASE w \in under
    BY <1>2, <2>1, <2>2 DEF WriteRecord
  <2>3. CASE w \notin under
    BY <1>2, <2>1, <2>3 DEF Ended
  <2> QED
    BY <2>2, <2>3
<1>4. under \subseteq BlobWrites
  OBVIOUS
<1> HIDE DEF under
<1>5. ASSUME NEW r \in BlobReads
      PROVE  read'[r] = Unread \/ read'[r] = read[r]
  BY <1>2
<1>6. Unread \in [at : {"none", "stat", "done", "refused"},
                  got : [by : BlobWrites \cup {"nobody"}, pieces : 0..MaxPieces]] /\ Unread.at # "done"
  BY BlobsAssumption DEF Unread, NoWrite
<1>7. BlobsTypeOK'
  <2>1. write' \in [BlobWrites -> WriteRecord]
    <3>1. write' = [w \in BlobWrites |-> write'[w]]
      BY <1>2
    <3> QED
      BY <1>3, <3>1
  <2>2. read' \in [BlobReads -> [at : {"none", "stat", "done", "refused"},
                                 got : [by : BlobWrites \cup {"nobody"}, pieces : 0..MaxPieces]]]
    <3> HIDE DEF Unread
    <3> QED
      BY <1>1, <1>2, <1>6 DEF BlobsTypeOK
  <2>3. troubles' \in 0..MaxTroubles
    BY <1>1, BlobsAssumption DEF BlobsTypeOK, Dies, Trouble
  <2>4. strays' \subseteq BlobWrites
    BY <1>1, <1>2, <1>4 DEF BlobsTypeOK
  <2> QED
    BY <1>1, <1>2, <2>1, <2>2, <2>3, <2>4 DEF BlobsTypeOK, WriteRecord
<1>8. ASSUME NEW w \in BlobWrites PROVE WriteShape(w)'
  <2>1. WriteShape(w)
    BY DEF BlobsInv
  <2>2. CASE w \in under
    BY <1>2, <1>3, <2>1, <2>2 DEF WriteShape, Ended
  <2>3. CASE w \notin under
    BY <1>2, <1>3, <2>1, <2>3 DEF WriteShape, Ended
  <2> QED
    BY <2>2, <2>3
<1>9. ASSUME NEW b, FromWrite(b) PROVE FromWrite(b)'
  BY <1>3, <1>9 DEF FromWrite, Appeared
<1>10. bytes' # NoWrite => FromWrite(bytes)'
  BY <1>2, <1>9 DEF BlobsInv
<1>11. \A r \in BlobReads : (read[r].at = "done" => FromWrite(read[r].got))'
  BY <1>5, <1>6, <1>9 DEF BlobsInv
<1> QED
  BY <1>7, <1>8, <1>10, <1>11 DEF BlobsInv

\* The steps of the readers, and the delete, leave the writes alone.
LEMMA WritesStay ==
    ASSUME BlobsInv, UNCHANGED <<inBucket, write, temps, uploads, strays>>
    PROVE  /\ \A w \in BlobWrites : WriteShape(w)'
           /\ \A b : FromWrite(b) => FromWrite(b)'
BY DEF BlobsInv, WriteShape, FromWrite, Ended

LEMMA StatsKeepsBlobs ==
    ASSUME BlobsInv, NEW r \in BlobReads, Stats(r)
    PROVE  BlobsInv'
<1>1. UNCHANGED <<inBucket, write, bytes, temps, uploads, strays, deletes, troubles>>
  BY DEF Stats
<1> DEFINE to == IF bytes = NoWrite \/ bytes.pieces > MostGot THEN "refused" ELSE "stat"
<1>2. read' = [read EXCEPT ![r].at = to] /\ to \in {"refused", "stat"}
  BY DEF Stats
<1> HIDE DEF to
<1>3. BlobsTypeOK'
  BY <1>1, <1>2 DEF BlobsInv, BlobsTypeOK
<1>4. \A q \in BlobReads : read'[q].at = "done" => read'[q] = read[q]
  BY <1>2 DEF BlobsInv, BlobsTypeOK
<1> QED
  BY <1>1, <1>3, <1>4, WritesStay DEF BlobsInv

LEMMA GetsKeepsBlobs ==
    ASSUME BlobsInv, NEW r \in BlobReads, Gets(r)
    PROVE  BlobsInv'
<1>1. UNCHANGED <<inBucket, write, bytes, temps, uploads, strays, deletes, troubles>>
  BY DEF Gets
<1> DEFINE to == IF bytes = NoWrite THEN "refused" ELSE "done"
           BlobRead == [at : {"none", "stat", "done", "refused"},
                        got : [by : BlobWrites \cup {"nobody"}, pieces : 0..MaxPieces]]
           moved == [read EXCEPT ![r].at = to]
<1>2. read' = [moved EXCEPT ![r].got = bytes]
  BY DEF Gets
<1>3. to \in {"refused", "done"} /\ (to = "done" => bytes # NoWrite)
  OBVIOUS
<1>4. /\ read \in [BlobReads -> BlobRead]
      /\ bytes \in [by : BlobWrites \cup {"nobody"}, pieces : 0..MaxPieces]
  BY DEF BlobsInv, BlobsTypeOK
<1>31. /\ moved \in [BlobReads -> BlobRead] /\ moved[r].at = to
       /\ \A q \in BlobReads : q # r => moved[q] = read[q]
  <2> HIDE DEF to
  <2> QED
    BY <1>3, <1>4
<1> HIDE DEF to, moved
<1>6. /\ read' \in [BlobReads -> BlobRead] /\ read'[r].at = to /\ read'[r].got = bytes
      /\ \A q \in BlobReads : q # r => read'[q] = read[q]
  BY <1>2, <1>31, <1>4
<1>5. BlobsTypeOK'
  BY <1>1, <1>6 DEF BlobsInv, BlobsTypeOK
<1>7. \A b : FromWrite(b) => FromWrite(b)'
  BY <1>1, WritesStay
<1>8. \A q \in BlobReads : (read[q].at = "done" => FromWrite(read[q].got))'
  BY <1>1, <1>3, <1>6, <1>7 DEF BlobsInv
<1> QED
  BY <1>1, <1>7, <1>8, <1>5, <1>6, WritesStay DEF BlobsInv

LEMMA DeletesKeepsBlobs ==
    ASSUME BlobsInv, Deletes
    PROVE  BlobsInv'
<1>1. UNCHANGED <<inBucket, write, temps, uploads, strays, read, troubles>> /\ bytes' = NoWrite
  BY DEF Deletes
<1>2. BlobsTypeOK'
  BY <1>1, BlobsAssumption DEF BlobsInv, BlobsTypeOK, Deletes, NoWrite
<1> QED
  BY <1>1, <1>2, WritesStay DEF BlobsInv

LEMMA BlobsInitInv ==
    ASSUME BlobsInit
    PROVE  BlobsInv
<1>1. Unwritten \in WriteRecord /\ Unwritten.sent = 0 /\ ~Unwritten.knows /\ Unwritten.at = "none"
  <2> DEFINE no == FALSE
  <2>1. Unwritten = [kind |-> "put", at |-> "none", sent |-> 0, parted |-> 0, knows |-> no]
    BY Zenon DEF Unwritten
  <2>2. no \in BOOLEAN /\ ~no
    OBVIOUS
  <2> HIDE DEF no
  <2> QED
    BY <2>1, <2>2, BlobsAssumption DEF WriteRecord
<1>2. Unread \in [at : {"none", "stat", "done", "refused"},
                  got : [by : BlobWrites \cup {"nobody"}, pieces : 0..MaxPieces]] /\ Unread.at = "none"
  BY BlobsAssumption DEF Unread, NoWrite
<1>3. BlobsTypeOK
  BY <1>1, <1>2, BlobsAssumption DEF BlobsInit, BlobsTypeOK, WriteRecord, NoWrite
<1>4. \A w \in BlobWrites : write[w] = Unwritten /\ w \notin temps /\ w \notin uploads
  BY DEF BlobsInit
<1>5. \A w \in BlobWrites : WriteShape(w)
  BY <1>1, <1>4, BlobsAssumption DEF WriteShape
<1>6. \A r \in BlobReads : read[r].at # "done"
  BY <1>2 DEF BlobsInit
<1> QED
  BY <1>3, <1>5, <1>6 DEF BlobsInv, BlobsInit

LEMMA BlobsNextInv ==
    ASSUME BlobsInv, [BlobsNext]_blobsVars
    PROVE  BlobsInv'
<1>1. CASE UNCHANGED blobsVars
  <2>1. BlobsTypeOK'
    BY <1>1 DEF BlobsInv, BlobsTypeOK, blobsVars
  <2> QED
    BY <1>1, <2>1, WritesStay DEF BlobsInv, blobsVars
<1>2. ASSUME NEW w \in BlobWrites, NEW kind \in {"put", "pieces", "upload"}, NEW n \in 0..MaxPieces,
             BeginsWrite(w, kind, n)
      PROVE  BlobsInv'
  BY <1>2, BeginsKeepsBlobs
<1>3. ASSUME NEW w \in BlobWrites,
             \/ Appends(w) \/ Begun(w) \/ Parted(w) \/ FinishesWrite(w) \/ Appears(w) \/ Refuses(w)
             \/ Clears(w) \/ Marks(w) \/ Aborts(w) \/ Dropped(w)
      PROVE  BlobsInv'
  BY <1>3, AppendsKeepsBlobs, BegunKeepsBlobs, PartedKeepsBlobs, FinishesKeepsBlobs,
     AppearsKeepsBlobs, RefusesKeepsBlobs, ClearsKeepsBlobs, MarksKeepsBlobs, AbortsKeepsBlobs,
     DroppedKeepsBlobs
<1>4. ASSUME NEW r \in BlobReads, Stats(r) \/ Gets(r)
      PROVE  BlobsInv'
  BY <1>4, StatsKeepsBlobs, GetsKeepsBlobs
<1> QED
  BY <1>1, <1>2, <1>3, <1>4, DiesKeepsBlobs, DeletesKeepsBlobs DEF BlobsNext

\* What holds of one key of an app's files at every step of its writes and reads.
THEOREM BlobsInvariance == BlobsSpec => []BlobsInv
<1>1. BlobsInit => BlobsInv
  BY BlobsInitInv
<1>2. BlobsInv /\ [BlobsNext]_blobsVars => BlobsInv'
  BY BlobsNextInv
<1> QED
  BY <1>1, <1>2, PTL DEF BlobsSpec

\* The state of an app's file keeps its types.
THEOREM BlobsTypeCorrect == BlobsSpec => []BlobsTypeOK
<1>1. BlobsInv => BlobsTypeOK
  BY DEF BlobsInv
<1> QED
  BY <1>1, BlobsInvariance, PTL

\* Whatever the order of writes, refusals, lost answers and deaths, a reader gets
\* all that one write sent, of a write that was not given up before its file
\* appeared (blobs.rs, the rename, the PUT and the completion).
THEOREM WholeReads == BlobsSpec => []ReadsAreWhole
<1>1. BlobsInv => ReadsAreWhole
  BY DEF BlobsInv, ReadsAreWhole, FromWrite, Appeared
<1> QED
  BY <1>1, BlobsInvariance, PTL

\* A write that has ended leaves neither a temporary file nor a multipart upload
\* but for the strays (Writer::abort, and the errors of put and receive).
THEOREM NothingLeft == BlobsSpec => []LeavesNothing
<1>1. BlobsInv => LeavesNothing
  BY DEF BlobsInv, BlobsTypeOK, WriteShape, LeavesNothing
<1> QED
  BY <1>1, BlobsInvariance, PTL

-----------------------------------------------------------------------------
(* One app's schema, for any calls that overlap, ladders and policies.      *)

DeployRecord ==
    [op : {"none", "migrate", "manifest"}, at : Steps, files : 0..Longest, read : Declared,
     plan : 0..Longest, salt : 0..MaxDeploys, mixed : BOOLEAN]

Making == {"script", "write"}

\* The calls that may yet mint a salt.
Planners == {d \in Deployers : call[d].at \in {"ladder", "up", "meta", "plan"}}

SchemaTypes ==
    /\ ladder \in 0..Longest /\ version \in 0..Longest
    /\ meta \in Declared
    /\ public \in 0..MaxDeploys
    /\ inner \in [1..MaxDeploys -> [of : Policies \union {NoPolicy}, at : 0..Longest]]
    /\ minted \in Nat /\ deploys \in 0..MaxDeploys
    /\ call \in [Deployers -> DeployRecord]
    /\ settled \in BOOLEAN

\* Each call mints at most one salt.
MintsInTime == IsFiniteSet(Planners) /\ minted + Cardinality(Planners) <= deploys

Fitting(d) ==
    call[d].at \in Making =>
        /\ call[d].salt # 0
        /\ call[d].read.policy # NoPolicy => Standing[call[d].read.policy][call[d].plan] # "breaks"

DeployShape(d) ==
    /\ call[d].at = "idle" <=> call[d] = NoDeploy
    /\ call[d].op = "none" => call[d].at = "idle"
    /\ call[d].op = "manifest" => call[d].at \in Making \cup {"plan"}
    /\ Fitting(d)

\* What a call's script has made.
Made(d) ==
    IF Makes(d) # {}
    THEN public = call[d].salt /\ inner[call[d].salt] = [of |-> call[d].read.policy, at |-> call[d].plan]
    ELSE "untidy" \in marks \/ public = 0

\* A call that nothing ran beside has read what still holds.
AloneAsRead(d) ==
    call[d].at # "idle" /\ ~call[d].mixed =>
        /\ \A e \in Deployers \ {d} : call[e].at = "idle"
        /\ call[d].at \in Making \cup {"plan"} =>
              /\ call[d].read.generated = meta.generated /\ call[d].read.salt = meta.salt
              /\ call[d].op = "migrate" => call[d].read.policy = meta.policy
        /\ call[d].at \in Making => call[d].plan = version
        /\ call[d].at = "write" => Made(d)

TidyIsKnown ==
    "untidy" \notin marks =>
        /\ \A d \in Deployers : call[d].at # "idle" => ~call[d].mixed
        /\ (\A d \in Deployers : call[d].at # "write") /\ meta.generated = {} => public = 0

SettledIsRealised == settled => Realised /\ \A d \in Deployers : call[d].at = "idle"

SchemaInv ==
    /\ SchemaTypes /\ MintsInTime
    /\ \A d \in Deployers : DeployShape(d) /\ AloneAsRead(d)
    /\ TidyIsKnown
    /\ SettledIsRealised

-----------------------------------------------------------------------------

LEMMA NoDeployIs ==
    /\ NoDeploy \in DeployRecord
    /\ NoDeploy.op = "none" /\ NoDeploy.at = "idle" /\ ~NoDeploy.mixed
    /\ Undeclared \in Declared
<1> DEFINE no == FALSE
<1>1. Undeclared \in Declared
  BY SchemaAssumption DEF Undeclared, Declared
<1>2. NoDeploy = [op |-> "none", at |-> "idle", files |-> 0, read |-> Undeclared, plan |-> 0,
                  salt |-> 0, mixed |-> no]
  BY Zenon DEF NoDeploy
<1>3. no \in BOOLEAN /\ ~no
  OBVIOUS
<1> HIDE DEF no
<1> QED
  BY <1>1, <1>2, <1>3, SchemaAssumption DEF DeployRecord, Steps

LEMMA DeployFields ==
    ASSUME SchemaInv, NEW d \in Deployers
    PROVE  /\ call \in [Deployers -> DeployRecord] /\ call[d] \in DeployRecord
           /\ call[d].op \in {"none", "migrate", "manifest"} /\ call[d].at \in Steps
           /\ call[d].files \in 0..Longest /\ call[d].plan \in 0..Longest
           /\ call[d].salt \in 0..MaxDeploys /\ call[d].mixed \in BOOLEAN
           /\ call[d].read \in Declared
           /\ call[d].read.policy \in Policies \union {NoPolicy}
           /\ call[d].read.generated \in SUBSET (1..MaxDeploys) /\ call[d].read.salt \in 0..MaxDeploys
BY DEF SchemaInv, SchemaTypes, DeployRecord, Declared

\* A deployer's call becomes another, the others stay.
CallBecomes(d, c) ==
    /\ call' \in [Deployers -> DeployRecord] /\ call'[d] = c
    /\ \A e \in Deployers \ {d} : call'[e] = call[e]

LEMMA CallIsSet ==
    ASSUME SchemaInv, NEW d \in Deployers, NEW c \in DeployRecord, call' = [call EXCEPT ![d] = c]
    PROVE  CallBecomes(d, c)
BY DeployFields DEF CallBecomes

LEMMA CallGoes ==
    ASSUME SchemaInv, NEW d \in Deployers, NEW at \in Steps, call' = [call EXCEPT ![d].at = at]
    PROVE  /\ CallBecomes(d, call'[d])
           /\ call'[d].at = at /\ call'[d].op = call[d].op /\ call'[d].read = call[d].read
           /\ call'[d].plan = call[d].plan /\ call'[d].salt = call[d].salt
           /\ call'[d].mixed = call[d].mixed /\ call'[d].files = call[d].files
BY DeployFields DEF CallBecomes, DeployRecord

\* What is known while a call is under way.
LEMMA UnderWay ==
    ASSUME SchemaInv, NEW d \in Deployers, call[d].at # "idle"
    PROVE  /\ settled = FALSE
           /\ ~call[d].mixed => \A e \in Deployers \ {d} : call[e].at = "idle"
           /\ "untidy" \notin marks => ~call[d].mixed
           /\ "untidy" \notin marks /\ call[d].at # "write" /\ meta.generated = {} => public = 0
<1>1. settled = FALSE
  BY DEF SchemaInv, SettledIsRealised, SchemaTypes
<1>2. ~call[d].mixed => \A e \in Deployers \ {d} : call[e].at = "idle"
  BY DEF SchemaInv, AloneAsRead
<1>3. "untidy" \notin marks => ~call[d].mixed
  BY DEF SchemaInv, TidyIsKnown
<1>4. "untidy" \notin marks /\ call[d].at # "write" => \A e \in Deployers : call[e].at # "write"
  BY <1>2, <1>3
<1> QED
  BY <1>1, <1>2, <1>3, <1>4 DEF SchemaInv, TidyIsKnown

LEMMA OneDeployMoves ==
    ASSUME SchemaInv, NEW d \in Deployers, call[d].at # "idle", CallBecomes(d, call'[d]),
           SchemaTypes', MintsInTime', DeployShape(d)', AloneAsRead(d)', TidyIsKnown',
           SettledIsRealised'
    PROVE  SchemaInv'
<1>1. ASSUME NEW e \in Deployers \ {d} PROVE DeployShape(e)' /\ AloneAsRead(e)'
  <2>1. call'[e] = call[e]
    BY <1>1 DEF CallBecomes
  <2>2. DeployShape(e)'
    BY <2>1 DEF SchemaInv, DeployShape, Fitting
  <2>3. call[e].at # "idle" => call[e].mixed
    BY <1>1 DEF SchemaInv, AloneAsRead
  <2> QED
    BY <2>1, <2>2, <2>3 DEF AloneAsRead
<1> QED
  BY <1>1 DEF SchemaInv

LEMMA DeployMovesOn ==
    ASSUME SchemaInv, NEW d \in Deployers, call[d].at # "idle", call[d].at # "write",
           CallBecomes(d, call'[d]), call'[d].mixed = call[d].mixed,
           SchemaTypes', MintsInTime', UNCHANGED <<meta, public, settled, marks>>,
           DeployShape(d)', AloneAsRead(d)'
    PROVE  SchemaInv'
<1>1. TidyIsKnown'
  <2>1. SUFFICES ASSUME "untidy" \notin marks
                 PROVE  /\ \A e \in Deployers : call'[e].at # "idle" => ~call'[e].mixed
                        /\ meta.generated = {} => public = 0
    BY DEF TidyIsKnown
  <2>2. ~call[d].mixed /\ (meta.generated = {} => public = 0)
    BY <2>1, UnderWay
  <2> QED
    BY <2>1, <2>2 DEF CallBecomes, SchemaInv, TidyIsKnown
<1>2. SettledIsRealised'
  BY UnderWay DEF SettledIsRealised
<1> QED
  BY <1>1, <1>2, OneDeployMoves

LEMMA DeployEnds ==
    ASSUME SchemaInv, NEW d \in Deployers, call[d].at # "idle", CallBecomes(d, NoDeploy),
           SchemaTypes', MintsInTime',
           "untidy" \notin marks' => "untidy" \notin marks /\ (meta'.generated = {} => public' = 0),
           settled' => ~call[d].mixed /\ Realised'
    PROVE  SchemaInv'
<1>1. call'[d] = NoDeploy /\ call'[d].at = "idle" /\ call'[d].op = "none"
  BY NoDeployIs DEF CallBecomes
<1>2. DeployShape(d)' /\ AloneAsRead(d)'
  BY <1>1 DEF DeployShape, Fitting, AloneAsRead, Making
<1>3. TidyIsKnown'
  BY <1>1 DEF TidyIsKnown, SchemaInv, CallBecomes
<1>4. SettledIsRealised'
  BY <1>1, UnderWay DEF SettledIsRealised, CallBecomes
<1> QED
  BY <1>1, <1>2, <1>3, <1>4, OneDeployMoves

\* A step that begins no call and mints nothing.
LEMMA MintsStay ==
    ASSUME SchemaInv, NEW d \in Deployers, CallBecomes(d, call'[d]), UNCHANGED <<minted, deploys>>,
           d \in Planners' => d \in Planners
    PROVE  MintsInTime'
<1>1. Planners' \subseteq Planners
  BY DEF Planners, CallBecomes
<1>2. IsFiniteSet(Planners') /\ Cardinality(Planners') <= Cardinality(Planners)
  BY <1>1, FS_Subset DEF SchemaInv, MintsInTime
<1>3. minted \in Nat /\ deploys \in 0..MaxDeploys /\ Cardinality(Planners) \in Nat /\ Cardinality(Planners') \in Nat
  BY <1>2, FS_CardinalityType DEF SchemaInv, SchemaTypes, MintsInTime
<1>4. minted + Cardinality(Planners) <= deploys /\ deploys \in Int
  BY <1>3, SchemaAssumption DEF SchemaInv, MintsInTime
<1> QED
  BY <1>2, <1>3, <1>4 DEF MintsInTime

-----------------------------------------------------------------------------

LEMMA DeploysKeepsSchema ==
    ASSUME SchemaInv, NEW d \in Deployers, NEW op \in {"migrate", "manifest"}, NEW at \in {"ladder", "plan"},
           NEW seen \in Declared,
           \/ op = "migrate" /\ at = "ladder"
           \/ op = "manifest" /\ at = "plan" /\ seen.generated = meta.generated /\ seen.salt = meta.salt,
           Deploys(d, op, at, 0, seen), ladder' \in 0..Longest, UNCHANGED <<meta, version, public, inner>>
    PROVE  SchemaInv'
<1> DEFINE others == {e \in Deployers \ {d} : call[e] # NoDeploy}
           beside == others # {}
           yes == TRUE
           new == [NoDeploy EXCEPT !.op = op, !.at = at, !.files = 0, !.read = seen, !.mixed = beside]
           mixing == [e \in Deployers |-> [call[e] EXCEPT !.mixed = yes]]
<1>1. /\ call[d] = NoDeploy /\ deploys < MaxDeploys /\ deploys' = deploys + 1 /\ settled' = FALSE
      /\ marks' = IF others = {} THEN marks ELSE marks \union {"untidy"}
      /\ minted' = minted
  BY DEF Deploys
<1>2. call' = [e \in Deployers |-> IF e = d THEN new ELSE IF e \in others THEN [call[e] EXCEPT !.mixed = yes]
                                  ELSE call[e]]
  BY DEF Deploys
<1>3. \A e \in Deployers : call[e] \in DeployRecord
  BY DeployFields
<1>4. /\ new \in DeployRecord /\ new.op = op /\ new.at = at /\ new.read = seen /\ new.mixed = beside
  <2>1. beside \in BOOLEAN
    OBVIOUS
  <2> HIDE DEF beside
  <2> DEFINE made == [NoDeploy EXCEPT !.op = op]
             stands == [made EXCEPT !.at = at]
             begun == [stands EXCEPT !.files = 0]
             asks == [begun EXCEPT !.read = seen]
  <2>21. 0 \in 0..Longest /\ at \in Steps
    BY SchemaAssumption DEF Steps
  <2>22. made \in DeployRecord /\ made.op = op
    BY NoDeployIs DEF DeployRecord
  <2>23. stands \in DeployRecord /\ stands.op = op /\ stands.at = at
    <3> HIDE DEF made
    <3> QED
      BY <2>21, <2>22 DEF DeployRecord
  <2>2. begun \in DeployRecord /\ begun.op = op /\ begun.at = at
    <3> HIDE DEF stands
    <3> QED
      BY <2>21, <2>23 DEF DeployRecord
  <2>3. new = [asks EXCEPT !.mixed = beside]
    OBVIOUS
  <2> HIDE DEF begun
  <2>4. asks \in DeployRecord /\ asks.op = op /\ asks.at = at /\ asks.read = seen
    BY <2>2 DEF DeployRecord
  <2> HIDE DEF asks, new
  <2> QED
    BY <2>1, <2>3, <2>4 DEF DeployRecord
<1>5. ASSUME NEW e \in Deployers
      PROVE  /\ mixing[e] \in DeployRecord /\ mixing[e].op = call[e].op /\ mixing[e].at = call[e].at
             /\ mixing[e].read = call[e].read /\ mixing[e].plan = call[e].plan
             /\ mixing[e].salt = call[e].salt /\ mixing[e].mixed
  <2>1. yes \in BOOLEAN /\ yes
    OBVIOUS
  <2>2. mixing[e] = [call[e] EXCEPT !.mixed = yes]
    OBVIOUS
  <2> HIDE DEF yes, mixing
  <2> QED
    BY <1>3, <2>1, <2>2 DEF DeployRecord
<1>6. ASSUME NEW e \in Deployers
      PROVE  call'[e] = IF e = d THEN new ELSE IF e \in others THEN mixing[e] ELSE call[e]
  <2> HIDE DEF new
  <2> QED
    BY <1>2
<1>7. \A e \in Deployers : e \in others <=> e # d /\ call[e].at # "idle"
  BY DEF SchemaInv, DeployShape
<1>8. call' = [e \in Deployers |-> call'[e]]
  <2> HIDE DEF new
  <2> QED
    BY <1>2
<1>9. beside <=> others # {}
  OBVIOUS
<1> HIDE DEF new, mixing, others, beside
<1>10. ASSUME NEW e \in Deployers
       PROVE  /\ call'[e] \in DeployRecord
              /\ e # d => call'[e].at = call[e].at
              /\ e # d /\ call[e].at # "idle" => call'[e].mixed
  BY <1>3, <1>4, <1>5, <1>6, <1>7
<1>11. SchemaTypes'
  <2>1. call' \in [Deployers -> DeployRecord]
    BY <1>8, <1>10
  <2>2. deploys' \in 0..MaxDeploys
    BY <1>1, SchemaAssumption DEF SchemaInv, SchemaTypes
  <2>3. settled' \in BOOLEAN
    BY <1>1
  <2> QED
    BY <1>1, <2>1, <2>2, <2>3 DEF SchemaInv, SchemaTypes
<1>12. MintsInTime'
  <2>1. Planners' \subseteq Planners \cup {d}
    BY <1>10 DEF Planners
  <2>2. IsFiniteSet(Planners \cup {d}) /\ Cardinality(Planners \cup {d}) <= Cardinality(Planners) + 1
    <3>1. IsFiniteSet(Planners)
      BY DEF SchemaInv, MintsInTime
    <3>2. Cardinality(Planners) \in Nat
      BY <3>1, FS_CardinalityType
    <3>3. /\ IsFiniteSet(Planners \cup {d})
          /\ Cardinality(Planners \cup {d})
               = IF d \in Planners THEN Cardinality(Planners) ELSE Cardinality(Planners) + 1
      BY <3>1, FS_AddElement
    <3> QED
      BY <3>2, <3>3
  <2>3. IsFiniteSet(Planners') /\ Cardinality(Planners') <= Cardinality(Planners \cup {d})
    BY <2>1, <2>2, FS_Subset
  <2>4. /\ Cardinality(Planners) \in Nat /\ Cardinality(Planners') \in Nat
        /\ Cardinality(Planners \cup {d}) \in Nat /\ minted \in Nat /\ deploys \in Nat
        /\ minted + Cardinality(Planners) <= deploys
    BY <2>2, <2>3, FS_CardinalityType, SchemaAssumption DEF SchemaInv, SchemaTypes, MintsInTime
  <2> QED
    BY <1>1, <2>2, <2>3, <2>4 DEF MintsInTime
<1>13. ASSUME NEW e \in Deployers PROVE DeployShape(e)' /\ AloneAsRead(e)'
  <2>1. CASE e = d
    <3>1. call'[e] = new
      BY <1>6, <2>1
    <3>2. DeployShape(e)'
      BY <1>4, <3>1, NoDeployIs DEF DeployShape, Fitting, Making
    <3>3. ~beside => \A o \in Deployers \ {d} : call'[o].at = "idle"
      BY <1>7, <1>9, <1>10
    <3> QED
      BY <1>4, <2>1, <3>1, <3>2, <3>3 DEF AloneAsRead, Making
  <2>2. CASE e # d
    <3>1. DeployShape(e)
      BY DEF SchemaInv
    <3>2. CASE e \in others
      <4>1. /\ call'[e].op = call[e].op /\ call'[e].at = call[e].at /\ call'[e].mixed
            /\ call'[e].read = call[e].read /\ call'[e].plan = call[e].plan /\ call'[e].salt = call[e].salt
        BY <1>5, <1>6, <2>2, <3>2
      <4>2. call[e].at # "idle"
        BY <1>7, <3>2
      <4>3. call'[e] # NoDeploy
        BY <4>1, <4>2, NoDeployIs
      <4> QED
        BY <3>1, <4>1, <4>2, <4>3 DEF DeployShape, Fitting, AloneAsRead
    <3>3. CASE e \notin others
      <4>1. call'[e] = call[e]
        BY <1>6, <2>2, <3>3
      <4>2. call[e].at = "idle"
        BY <1>7, <2>2, <3>3
      <4> QED
        BY <3>1, <4>1, <4>2 DEF DeployShape, Fitting, AloneAsRead
    <3> QED
      BY <3>2, <3>3
  <2> QED
    BY <2>1, <2>2
<1>14. TidyIsKnown'
  <2>1. SUFFICES ASSUME "untidy" \notin marks'
                 PROVE  /\ \A e \in Deployers : call'[e].at # "idle" => ~call'[e].mixed
                        /\ meta.generated = {} => public = 0
    BY DEF TidyIsKnown
  <2>2. others = {} /\ "untidy" \notin marks
    BY <1>1, <2>1
  <2>3. \A e \in Deployers : call[e].at = "idle"
    BY <1>1, <1>7, <2>2, NoDeployIs
  <2>4. \A e \in Deployers : e # d => call'[e].at = "idle"
    BY <1>10, <2>3
  <2>5. ~call'[d].mixed
    BY <1>4, <1>6, <1>9, <2>2
  <2> QED
    BY <2>2, <2>3, <2>4, <2>5 DEF SchemaInv, TidyIsKnown
<1>15. SettledIsRealised'
  BY <1>1 DEF SettledIsRealised
<1> QED
  BY <1>11, <1>12, <1>13, <1>14, <1>15 DEF SchemaInv

LEMMA LoadsKeepsSchema ==
    ASSUME SchemaInv, NEW d \in Deployers, LoadsLadder(d)
    PROVE  SchemaInv'
<1>1. /\ call[d].op = "migrate" /\ call[d].at = "ladder"
      /\ UNCHANGED <<ladder, meta, version, public, inner, minted, deploys, settled, marks>>
  BY DEF LoadsLadder, DeployAt, Database
<1>2. CASE ladder = 0
  <2>1. CallBecomes(d, NoDeploy)
    BY <1>2, NoDeployIs, CallIsSet DEF LoadsLadder
  <2>2. SchemaTypes'
    BY <1>1, <2>1 DEF SchemaInv, SchemaTypes, CallBecomes
  <2>3. d \notin Planners'
    BY <2>1, NoDeployIs DEF Planners, CallBecomes
  <2>4. MintsInTime'
    BY <1>1, <2>1, <2>3, MintsStay DEF CallBecomes
  <2> QED
    BY <1>1, <2>1, <2>2, <2>4, DeployEnds, UnderWay
<1>3. CASE ladder # 0
  <2> DEFINE mid == [call EXCEPT ![d].files = ladder]
  <2>1. call' = [mid EXCEPT ![d].at = "up"]
    BY <1>3 DEF LoadsLadder
  <2>2. /\ mid \in [Deployers -> DeployRecord] /\ mid[d].mixed = call[d].mixed /\ mid[d].op = call[d].op
        /\ \A e \in Deployers \ {d} : mid[e] = call[e]
    BY DeployFields DEF DeployRecord, SchemaInv, SchemaTypes
  <2> HIDE DEF mid
  <2>3. CallBecomes(d, call'[d]) /\ call'[d].at = "up" /\ call'[d].mixed = call[d].mixed /\ call'[d].op = "migrate"
    BY <1>1, <2>1, <2>2 DEF CallBecomes, DeployRecord, Steps
  <2>4. SchemaTypes'
    BY <1>1, <2>3 DEF SchemaInv, SchemaTypes, CallBecomes
  <2>5. MintsInTime'
    BY <1>1, <2>3, MintsStay DEF Planners, SchemaInv
  <2>6. DeployShape(d)' /\ AloneAsRead(d)'
    BY <1>1, <2>3, NoDeployIs, UnderWay DEF DeployShape, Fitting, AloneAsRead, Making, CallBecomes
  <2> QED
    BY <1>1, <2>3, <2>4, <2>5, <2>6, DeployMovesOn
<1> QED
  BY <1>2, <1>3

\* A call that is refused, or dies.
LEMMA RefusedKeepsSchema ==
    ASSUME SchemaInv, NEW d \in Deployers, call[d].at # "idle", Refused(d),
           UNCHANGED <<ladder, meta, version, public, inner, minted>>
    PROVE  SchemaInv'
<1>1. /\ call' = [call EXCEPT ![d] = NoDeploy] /\ UNCHANGED <<deploys, settled>>
      /\ marks' = marks \union {"failed"} \union (IF call[d].at = "write" THEN {"untidy"} ELSE {})
  BY DEF Refused
<1>2. CallBecomes(d, NoDeploy)
  BY <1>1, NoDeployIs, CallIsSet
<1>3. SchemaTypes'
  BY <1>1, <1>2 DEF SchemaInv, SchemaTypes, CallBecomes
<1>4. d \notin Planners'
  BY <1>2, NoDeployIs DEF Planners, CallBecomes
<1>5. MintsInTime'
  BY <1>1, <1>2, <1>4, MintsStay DEF CallBecomes
<1>6. "untidy" \notin marks' => "untidy" \notin marks /\ call[d].at # "write"
  BY <1>1
<1> QED
  BY <1>1, <1>2, <1>3, <1>5, <1>6, DeployEnds, UnderWay

LEMMA MigratesUpKeepsSchema ==
    ASSUME SchemaInv, NEW d \in Deployers, MigratesUp(d)
    PROVE  SchemaInv'
<1>1. call[d].op = "migrate" /\ call[d].at = "up" /\ UNCHANGED <<ladder, meta, public, inner>>
  BY DEF MigratesUp, DeployAt
<1>2. CASE call[d].files >= version
  <2>1. /\ version' = call[d].files /\ call' = [call EXCEPT ![d].at = "meta"]
        /\ UNCHANGED <<minted, deploys, settled, marks>>
    BY <1>2 DEF MigratesUp, DeployGoes
  <2>2. "meta" \in Steps
    BY DEF Steps
  <2>3. CallBecomes(d, call'[d]) /\ call'[d].at = "meta" /\ call'[d].mixed = call[d].mixed /\ call'[d].op = "migrate"
    BY <1>1, <2>1, <2>2, CallGoes
  <2>4. SchemaTypes'
    BY <1>1, <2>1, <2>3, DeployFields DEF SchemaInv, SchemaTypes, CallBecomes
  <2>5. MintsInTime'
    BY <1>1, <2>1, <2>3, MintsStay DEF Planners, SchemaInv
  <2>6. DeployShape(d)' /\ AloneAsRead(d)'
    BY <1>1, <2>3, NoDeployIs, UnderWay DEF DeployShape, Fitting, AloneAsRead, Making, CallBecomes
  <2> QED
    BY <1>1, <2>1, <2>3, <2>4, <2>5, <2>6, DeployMovesOn
<1>3. CASE ~(call[d].files >= version)
  BY <1>1, <1>3, RefusedKeepsSchema DEF MigratesUp
<1> QED
  BY <1>2, <1>3

LEMMA ReadsMetaKeepsSchema ==
    ASSUME SchemaInv, NEW d \in Deployers, ReadsMeta(d)
    PROVE  SchemaInv'
<1>1. call[d].op = "migrate" /\ call[d].at = "meta" /\ UNCHANGED <<ladder, meta, version, public, inner>>
  BY DEF ReadsMeta, DeployAt, Database
<1>2. CASE meta.policy = NoPolicy /\ meta.generated = {}
  <2>1. /\ call' = [call EXCEPT ![d] = NoDeploy] /\ settled' = ~call[d].mixed /\ UNCHANGED <<minted, deploys, marks>>
    BY <1>2 DEF ReadsMeta, Deployed
  <2>2. CallBecomes(d, NoDeploy)
    BY <2>1, NoDeployIs, CallIsSet
  <2>3. SchemaTypes'
    BY <1>1, <2>1, <2>2 DEF SchemaInv, SchemaTypes, CallBecomes
  <2>4. d \notin Planners'
    BY <2>2, NoDeployIs DEF Planners, CallBecomes
  <2>5. MintsInTime'
    BY <2>1, <2>2, <2>4, MintsStay DEF CallBecomes
  <2>6. "untidy" \notin marks => public = 0
    BY <1>1, <1>2, UnderWay
  <2>7. Realised'
    BY <1>1, <1>2, <2>1, <2>6 DEF Realised, Reachable
  <2> QED
    BY <1>1, <2>1, <2>2, <2>3, <2>5, <2>6, <2>7, DeployEnds
<1>3. CASE ~(meta.policy = NoPolicy /\ meta.generated = {})
  <2> DEFINE mid == [call EXCEPT ![d].read = meta]
  <2>1. call' = [mid EXCEPT ![d].at = "plan"] /\ UNCHANGED <<minted, deploys, settled, marks>>
    BY <1>3 DEF ReadsMeta
  <2>2. /\ mid \in [Deployers -> DeployRecord] /\ mid[d].mixed = call[d].mixed /\ mid[d].op = call[d].op
        /\ mid[d].read = meta
        /\ \A e \in Deployers \ {d} : mid[e] = call[e]
    BY DeployFields DEF DeployRecord, SchemaInv, SchemaTypes
  <2> HIDE DEF mid
  <2>3. /\ CallBecomes(d, call'[d]) /\ call'[d].at = "plan" /\ call'[d].mixed = call[d].mixed
        /\ call'[d].op = "migrate" /\ call'[d].read = meta
    BY <1>1, <2>1, <2>2 DEF CallBecomes, DeployRecord, Steps
  <2>4. SchemaTypes'
    BY <1>1, <2>1, <2>3 DEF SchemaInv, SchemaTypes, CallBecomes
  <2>5. MintsInTime'
    BY <1>1, <2>1, <2>3, MintsStay DEF Planners, SchemaInv
  <2>6. DeployShape(d)' /\ AloneAsRead(d)'
    BY <1>1, <2>3, NoDeployIs, UnderWay DEF DeployShape, Fitting, AloneAsRead, Making, CallBecomes
  <2> QED
    BY <1>1, <2>1, <2>3, <2>4, <2>5, <2>6, DeployMovesOn
<1> QED
  BY <1>2, <1>3

LEMMA PlansKeepsSchema ==
    ASSUME SchemaInv, NEW d \in Deployers, Plans(d)
    PROVE  SchemaInv'
<1> DEFINE seen == call[d].read
           breaks == seen.policy # NoPolicy /\ Standing[seen.policy][version] = "breaks"
           salt == IF seen.salt = 0 THEN minted + 1 ELSE seen.salt
<1>1. call[d].at = "plan" /\ UNCHANGED <<ladder, meta, version, public, inner>>
  BY DEF Plans, Database
<1>2. CASE breaks
  BY <1>1, <1>2, RefusedKeepsSchema DEF Plans
<1>3. CASE ~breaks
  <2> DEFINE mid == [call EXCEPT ![d].at = "script"]
             planned == [mid EXCEPT ![d].plan = version]
  <2>1. /\ minted' = IF seen.salt = 0 THEN minted + 1 ELSE minted
        /\ call' = [planned EXCEPT ![d].salt = salt]
        /\ UNCHANGED <<deploys, settled, marks>>
    BY <1>3 DEF Plans
  <2>2. d \in Planners /\ IsFiniteSet(Planners) /\ Cardinality(Planners) \in Nat
    BY <1>1, FS_CardinalityType DEF Planners, SchemaInv, MintsInTime
  <2>3. IsFiniteSet(Planners \ {d}) /\ Cardinality(Planners \ {d}) = Cardinality(Planners) - 1
    BY <2>2, FS_RemoveElement
  <2>4. Cardinality(Planners \ {d}) \in Nat
    BY <2>3, FS_CardinalityType
  <2>5. /\ minted \in Nat /\ deploys \in Nat /\ deploys <= MaxDeploys
        /\ minted + Cardinality(Planners) <= deploys
    BY SchemaAssumption DEF SchemaInv, SchemaTypes, MintsInTime
  <2>6. minted + 1 \in 1..MaxDeploys
    BY <2>2, <2>3, <2>4, <2>5, SchemaAssumption
  <2>7. salt \in 1..MaxDeploys
    <3>1. seen.salt \in 0..MaxDeploys
      BY DeployFields
    <3> HIDE DEF seen
    <3> QED
      BY <2>6, <3>1
  <2>8. salt \in 0..MaxDeploys /\ salt # 0
    BY <2>7
  <2>9. version \in 0..Longest /\ "script" \in Steps
    BY DEF SchemaInv, SchemaTypes, Steps
  <2> HIDE DEF salt
  <2>10. /\ mid \in [Deployers -> DeployRecord] /\ mid[d].mixed = call[d].mixed /\ mid[d].op = call[d].op
         /\ mid[d].read = call[d].read /\ mid[d].at = "script"
         /\ \A e \in Deployers \ {d} : mid[e] = call[e]
    BY <2>9, DeployFields DEF DeployRecord
  <2> HIDE DEF mid
  <2>11. /\ planned \in [Deployers -> DeployRecord] /\ planned[d].mixed = call[d].mixed
         /\ planned[d].op = call[d].op /\ planned[d].read = call[d].read /\ planned[d].at = "script"
         /\ planned[d].plan = version
         /\ \A e \in Deployers \ {d} : planned[e] = call[e]
    BY <2>9, <2>10 DEF DeployRecord
  <2> HIDE DEF planned
  <2>12. /\ CallBecomes(d, call'[d]) /\ call'[d].at = "script" /\ call'[d].mixed = call[d].mixed
         /\ call'[d].op = call[d].op /\ call'[d].read = call[d].read /\ call'[d].plan = version
         /\ call'[d].salt = salt
    BY <2>1, <2>8, <2>11 DEF CallBecomes, DeployRecord
  <2>13. minted' \in Nat /\ minted' <= minted + 1
    BY <2>1, <2>5
  <2>14. SchemaTypes'
    BY <1>1, <2>1, <2>12, <2>13 DEF SchemaInv, SchemaTypes, CallBecomes
  <2>15. MintsInTime'
    <3>1. Planners' = Planners \ {d}
      BY <2>12 DEF Planners, CallBecomes
    <3> QED
      BY <2>1, <2>2, <2>3, <2>4, <2>5, <2>13, <3>1 DEF MintsInTime
  <2>16. DeployShape(d)'
    <3>1. call[d].op # "none"
      BY <1>1 DEF SchemaInv, DeployShape
    <3>2. call'[d] # NoDeploy
      BY <2>12, NoDeployIs
    <3>3. call'[d].read.policy # NoPolicy => Standing[call'[d].read.policy][call'[d].plan] # "breaks"
      BY <1>3, <2>12
    <3> QED
      BY <2>8, <2>12, <3>1, <3>2, <3>3 DEF DeployShape, Fitting, Making
  <2>17. AloneAsRead(d)'
    BY <1>1, <2>1, <2>12 DEF SchemaInv, AloneAsRead, Making, CallBecomes
  <2> QED
    BY <1>1, <2>1, <2>12, <2>14, <2>15, <2>16, <2>17, DeployMovesOn
<1> QED
  BY <1>2, <1>3

\* What a call that nothing ran beside has made is what its policy calls for.
LEMMA MadeIsRealised ==
    ASSUME NEW policy, NEW generated, NEW salt, NEW pub, NEW in, NEW ver, NEW untidy \in BOOLEAN,
           policy # NoPolicy => Standing[policy][ver] \in {"waits", "fits"},
           salt # 0,
           LET makes == IF policy # NoPolicy /\ Standing[policy][ver] = "fits" THEN {salt} ELSE {}
           IN  /\ generated = makes
               /\ IF makes # {} THEN pub = salt /\ in[salt] = [of |-> policy, at |-> ver]
                  ELSE untidy \/ pub = 0
    PROVE  IF policy # NoPolicy /\ Standing[policy][ver] # "waits"
           THEN /\ policy # NoPolicy /\ salt # 0 /\ salt \in generated
                /\ pub = salt /\ in[salt] = [of |-> policy, at |-> ver]
           ELSE ~(policy # NoPolicy /\ salt # 0 /\ salt \in generated) /\ (untidy \/ pub = 0)
OBVIOUS

LEMMA StandingIs ==
    ASSUME NEW p \in Policies \union {NoPolicy}, p # NoPolicy, NEW v \in 0..Longest,
           Standing[p][v] # "breaks"
    PROVE  Standing[p][v] \in {"waits", "fits"}
BY SchemaAssumption

LEMMA RebuildsKeepsSchema ==
    ASSUME SchemaInv, NEW d \in Deployers, Rebuilds(d)
    PROVE  SchemaInv'
<1> DEFINE seen == call[d].read
           view == [of |-> seen.policy, at |-> call[d].plan]
           done == call[d].op = "migrate" /\ seen.generated = Makes(d) /\ seen.salt = call[d].salt
<1>1. /\ call[d].at = "script" /\ UNCHANGED <<ladder, version, meta>>
      /\ inner' = [s \in 1..MaxDeploys |-> IF s \in Makes(d) THEN view
                                         ELSE IF s \in seen.generated THEN NoView ELSE inner[s]]
      /\ public' = IF Makes(d) # {} THEN call[d].salt ELSE IF seen.generated # {} THEN 0 ELSE public
  BY DEF Rebuilds
<1>2. /\ seen \in Declared /\ seen.policy \in Policies \union {NoPolicy} /\ call[d].plan \in 0..Longest
      /\ call[d].salt \in 0..MaxDeploys /\ call[d].mixed \in BOOLEAN
  BY DeployFields
<1>3. call[d].op # "none" /\ Fitting(d) /\ call[d].salt # 0 /\ call[d].salt \in 1..MaxDeploys
  <2>1. call[d].op # "none" /\ Fitting(d)
    BY <1>1 DEF SchemaInv, DeployShape
  <2>2. call[d].salt # 0
    BY <1>1, <2>1 DEF Fitting, Making
  <2> QED
    BY <1>2, <2>1, <2>2, SchemaAssumption
<1>4. /\ view \in [of : Policies \union {NoPolicy}, at : 0..Longest]
      /\ NoView \in [of : Policies \union {NoPolicy}, at : 0..Longest]
  BY <1>2, SchemaAssumption DEF NoView
<1>5. Makes(d) = {} \/ Makes(d) = {call[d].salt}
  BY DEF Makes
<1> HIDE DEF view
<1>6. /\ inner' \in [1..MaxDeploys -> [of : Policies \union {NoPolicy}, at : 0..Longest]]
      /\ public' \in 0..MaxDeploys
  <2>1. inner \in [1..MaxDeploys -> [of : Policies \union {NoPolicy}, at : 0..Longest]]
        /\ public \in 0..MaxDeploys /\ 0 \in 0..MaxDeploys
    BY SchemaAssumption DEF SchemaInv, SchemaTypes
  <2> QED
    BY <1>1, <1>2, <1>4, <2>1
\* Of a call that nothing ran beside, the script makes what the meta asks for.
<1>7. ~call[d].mixed =>
        /\ seen.generated = meta.generated /\ seen.salt = meta.salt /\ call[d].plan = version
        /\ call[d].op = "migrate" => seen.policy = meta.policy
  BY <1>1 DEF SchemaInv, AloneAsRead, Making
<1>8. "untidy" \notin marks => ~call[d].mixed /\ (meta.generated = {} => public = 0)
  BY <1>1, UnderWay
<1>9. Makes(d) # {} => public' = call[d].salt /\ inner'[call[d].salt] = view
  BY <1>1, <1>3, <1>5
<1>10. Makes(d) = {} => "untidy" \in marks \/ public' = 0
  BY <1>1, <1>7, <1>8
<1>11. CASE done
  <2>1. /\ call' = [call EXCEPT ![d] = NoDeploy] /\ settled' = ~call[d].mixed
        /\ UNCHANGED <<minted, deploys, marks>>
    BY <1>11 DEF Rebuilds, Deployed
  <2>2. CallBecomes(d, NoDeploy)
    BY <2>1, NoDeployIs, CallIsSet
  <2>3. SchemaTypes'
    BY <1>1, <1>6, <2>1, <2>2 DEF SchemaInv, SchemaTypes, CallBecomes
  <2>4. d \notin Planners'
    BY <2>2, NoDeployIs DEF Planners, CallBecomes
  <2>5. MintsInTime'
    BY <2>1, <2>2, <2>4, MintsStay DEF CallBecomes
  <2>6. "untidy" \notin marks => (meta.generated = {} => public' = 0)
    BY <1>7, <1>8, <1>10, <1>11
  <2>7. ASSUME ~call[d].mixed PROVE Realised'
    <3>1. /\ meta.policy = seen.policy /\ meta.generated = Makes(d) /\ meta.salt = call[d].salt
          /\ call[d].plan = version
      BY <1>7, <1>11, <2>7
    <3>2. meta.policy # NoPolicy => Standing[meta.policy][version] \in {"waits", "fits"}
      BY <1>1, <1>2, <1>3, <3>1, StandingIs DEF Fitting, Making
    <3>3. view = [of |-> meta.policy, at |-> version]
      BY <3>1 DEF view
    <3>4. Makes(d) = IF meta.policy # NoPolicy /\ Standing[meta.policy][version] = "fits" THEN {meta.salt} ELSE {}
      BY <3>1 DEF Makes
    <3>5. meta.salt # 0
      BY <1>3, <3>1
    <3>6. IF Makes(d) # {} THEN public' = meta.salt /\ inner'[meta.salt] = [of |-> meta.policy, at |-> version]
          ELSE "untidy" \in marks \/ public' = 0
      BY <1>9, <1>10, <3>1, <3>3
    <3>7. IF meta.policy # NoPolicy /\ Standing[meta.policy][version] # "waits"
          THEN /\ meta.policy # NoPolicy /\ meta.salt # 0 /\ meta.salt \in meta.generated
               /\ public' = meta.salt /\ inner'[meta.salt] = [of |-> meta.policy, at |-> version]
          ELSE /\ ~(meta.policy # NoPolicy /\ meta.salt # 0 /\ meta.salt \in meta.generated)
               /\ "untidy" \in marks \/ public' = 0
      BY <3>1, <3>2, <3>4, <3>5, <3>6
    <3> QED
      BY <3>7, <1>1, <2>1 DEF Realised, Reachable
  <2> QED
    BY <1>1, <2>1, <2>2, <2>3, <2>5, <2>6, <2>7, DeployEnds
<1>12. CASE ~done
  <2>1. /\ call' = [call EXCEPT ![d].at = "write"]
        /\ UNCHANGED <<minted, deploys, settled, marks>>
    BY <1>12 DEF Rebuilds, DeployGoes
  <2>2. "write" \in Steps
    BY DEF Steps
  <2>3. /\ CallBecomes(d, call'[d]) /\ call'[d].at = "write" /\ call'[d].mixed = call[d].mixed
        /\ call'[d].op = call[d].op /\ call'[d].read = seen /\ call'[d].plan = call[d].plan
        /\ call'[d].salt = call[d].salt
    BY <2>1, <2>2, CallGoes
  <2>4. SchemaTypes'
    BY <1>1, <1>6, <2>1, <2>3 DEF SchemaInv, SchemaTypes, CallBecomes
  <2>5. MintsInTime'
    BY <2>1, <2>3, MintsStay DEF Planners
  <2>6. DeployShape(d)'
    BY <1>1, <1>3, <2>3, NoDeployIs DEF DeployShape, Fitting, Making
  <2>7. Made(d)'
    <3>1. Makes(d)' = Makes(d)
      BY <2>3 DEF Makes
    <3> QED
      BY <1>9, <1>10, <2>1, <2>3, <3>1 DEF Made, view
  <2>8. AloneAsRead(d)'
    <3>1. ~call[d].mixed => \A e \in Deployers \ {d} : call'[e].at = "idle"
      BY <1>1, <2>3, UnderWay DEF CallBecomes
    <3> QED
      BY <1>1, <1>7, <2>3, <2>7, <3>1 DEF AloneAsRead, Making
  <2>9. TidyIsKnown'
    <3>1. ASSUME "untidy" \notin marks
          PROVE  \A e \in Deployers : call'[e].at # "idle" => ~call'[e].mixed
      BY <1>8, <2>3, <3>1 DEF CallBecomes, SchemaInv, TidyIsKnown
    <3> QED
      BY <2>1, <2>3, <3>1 DEF TidyIsKnown
  <2>10. SettledIsRealised'
    BY <1>1, <2>1, UnderWay DEF SettledIsRealised
  <2> QED
    BY <1>1, <2>3, <2>4, <2>5, <2>6, <2>8, <2>9, <2>10, OneDeployMoves
<1> QED
  BY <1>11, <1>12

LEMMA WritesMetaKeepsSchema ==
    ASSUME SchemaInv, NEW d \in Deployers, WritesMeta(d)
    PROVE  SchemaInv'
<1> DEFINE policy == IF call[d].op = "manifest" THEN call[d].read.policy ELSE meta.policy
<1>1. /\ call[d].at = "write" /\ UNCHANGED <<ladder, version, public, inner, minted, deploys, marks>>
      /\ meta' = [policy |-> policy, generated |-> Makes(d), salt |-> call[d].salt]
      /\ call' = [call EXCEPT ![d] = NoDeploy] /\ settled' = ~call[d].mixed
  BY DEF WritesMeta, Deployed, Database
<1>2. /\ call[d].read.policy \in Policies \union {NoPolicy} /\ call[d].salt \in 0..MaxDeploys
      /\ call[d].op \in {"none", "migrate", "manifest"} /\ call[d].mixed \in BOOLEAN
      /\ call[d].plan \in 0..Longest
  BY DeployFields
<1>3. call[d].op # "none" /\ Fitting(d) /\ call[d].salt # 0 /\ call[d].salt \in 1..MaxDeploys
  <2>1. call[d].op # "none" /\ Fitting(d)
    BY <1>1 DEF SchemaInv, DeployShape
  <2>2. call[d].salt # 0
    BY <1>1, <2>1 DEF Fitting, Making
  <2> QED
    BY <1>2, <2>1, <2>2, SchemaAssumption
<1>4. meta' \in Declared
  <2>1. policy \in Policies \union {NoPolicy}
    BY <1>2 DEF SchemaInv, SchemaTypes, Declared
  <2>2. Makes(d) \in SUBSET (1..MaxDeploys)
    BY <1>3 DEF Makes
  <2> HIDE DEF policy
  <2> QED
    BY <1>1, <1>2, <2>1, <2>2 DEF Declared
<1>5. CallBecomes(d, NoDeploy)
  BY <1>1, NoDeployIs, CallIsSet
<1>6. SchemaTypes'
  BY <1>1, <1>4, <1>5 DEF SchemaInv, SchemaTypes, CallBecomes
<1>7. d \notin Planners'
  BY <1>5, NoDeployIs DEF Planners, CallBecomes
<1>8. MintsInTime'
  BY <1>1, <1>5, <1>7, MintsStay DEF CallBecomes
<1>9. ~call[d].mixed =>
        Made(d) /\ call[d].plan = version /\ (call[d].op = "migrate" => call[d].read.policy = meta.policy)
  BY <1>1 DEF SchemaInv, AloneAsRead, Making
<1>10. "untidy" \notin marks => (meta'.generated = {} => public' = 0)
  <2>1. "untidy" \notin marks => ~call[d].mixed
    BY <1>1, UnderWay
  <2>2. meta'.generated = Makes(d)
    BY <1>1
  <2> QED
    BY <1>1, <1>9, <2>1, <2>2 DEF Made
<1>11. ASSUME ~call[d].mixed PROVE Realised'
  <2>1. policy = call[d].read.policy
    BY <1>2, <1>3, <1>9, <1>11
  <2> HIDE DEF policy
  <2>2. meta'.policy = call[d].read.policy /\ meta'.generated = Makes(d) /\ meta'.salt = call[d].salt
    BY <1>1, <2>1
  <2>3. call[d].read.policy # NoPolicy => Standing[call[d].read.policy][version] \in {"waits", "fits"}
    BY <1>1, <1>2, <1>3, <1>9, <1>11, StandingIs DEF Fitting, Making
  <2>4. Makes(d) = IF call[d].read.policy # NoPolicy /\ Standing[call[d].read.policy][version] = "fits"
                   THEN {call[d].salt} ELSE {}
    BY <1>9, <1>11 DEF Makes
  <2>5. IF Makes(d) # {} THEN /\ public' = call[d].salt
                              /\ inner'[call[d].salt] = [of |-> call[d].read.policy, at |-> version]
        ELSE "untidy" \in marks \/ public' = 0
    BY <1>1, <1>9, <1>11 DEF Made
  <2> QED
    BY <1>1, <1>3, <2>2, <2>3, <2>4, <2>5, MadeIsRealised DEF Realised, Reachable
<1> QED
  BY <1>1, <1>5, <1>6, <1>8, <1>10, <1>11, DeployEnds

LEMMA SchemaInitInv ==
    ASSUME SchemaInit
    PROVE  SchemaInv
<1>1. \A d \in Deployers : call[d] = NoDeploy /\ call[d].at = "idle" /\ call[d].op = "none"
  BY NoDeployIs DEF SchemaInit
<1>2. SchemaTypes
  <2>1. NoView \in [of : Policies \union {NoPolicy}, at : 0..Longest] /\ 0 \in 0..Longest /\ 0 \in 0..MaxDeploys
    BY SchemaAssumption DEF NoView
  <2>2. NoDeploy \in DeployRecord /\ Undeclared \in Declared
    BY NoDeployIs
  <2>3. settled \in BOOLEAN
    BY DEF SchemaInit
  <2> QED
    BY <2>1, <2>2, <2>3 DEF SchemaInit, SchemaTypes
<1>3. Planners = {}
  BY <1>1 DEF Planners
<1>4. MintsInTime
  BY <1>3, FS_EmptySet DEF MintsInTime, SchemaInit
<1>5. \A d \in Deployers : DeployShape(d) /\ AloneAsRead(d)
  BY <1>1 DEF DeployShape, Fitting, AloneAsRead, Making
<1>6. TidyIsKnown /\ SettledIsRealised
  BY <1>1 DEF SchemaInit, TidyIsKnown, SettledIsRealised
<1> QED
  BY <1>2, <1>4, <1>5, <1>6 DEF SchemaInv

LEMMA SchemaNextInv ==
    ASSUME SchemaInv, [SchemaNext]_schemaVars
    PROVE  SchemaInv'
<1>1. CASE UNCHANGED schemaVars
  BY <1>1 DEF schemaVars, SchemaInv, SchemaTypes, MintsInTime, Planners, DeployShape, Fitting,
              AloneAsRead, Made, Makes, TidyIsKnown, SettledIsRealised, Realised, Reachable
<1>2. ASSUME NEW d \in Deployers,
             \/ \E n \in 1..Longest : UploadsLadder(d, n)
             \/ AsksForLadder(d)
      PROVE  SchemaInv'
  <2>1. /\ Deploys(d, "migrate", "ladder", 0, Undeclared) /\ ladder' \in 0..Longest
        /\ UNCHANGED <<meta, version, public, inner>>
    BY <1>2, SchemaAssumption DEF UploadsLadder, AsksForLadder, Database, SchemaInv, SchemaTypes
  <2> DEFINE op == "migrate"
             at == "ladder"
             seen == Undeclared
  <2>2. /\ op \in {"migrate", "manifest"} /\ at \in {"ladder", "plan"} /\ seen \in Declared
        /\ op = "migrate" /\ at = "ladder"
    BY NoDeployIs
  <2>3. Deploys(d, op, at, 0, seen)
    BY <2>1
  <2> HIDE DEF op, at, seen
  <2> QED
    BY <2>1, <2>2, <2>3, DeploysKeepsSchema
<1>3. ASSUME NEW d \in Deployers, NEW p \in Policies \union {NoPolicy}, Declares(d, p)
      PROVE  SchemaInv'
  <2> DEFINE seen == [meta EXCEPT !.policy = p]
  <2>1. /\ Deploys(d, "manifest", "plan", 0, seen) /\ ladder' \in 0..Longest
        /\ UNCHANGED <<meta, version, public, inner>>
    BY <1>3 DEF Declares, Database, SchemaInv, SchemaTypes
  <2>2. seen \in Declared /\ seen.generated = meta.generated /\ seen.salt = meta.salt
    BY DEF SchemaInv, SchemaTypes, Declared
  <2> HIDE DEF seen
  <2> QED
    BY <2>1, <2>2, DeploysKeepsSchema
<1>4. ASSUME NEW d \in Deployers, DeployStops(d)
      PROVE  SchemaInv'
  <2>1. call[d].at # "idle"
    BY <1>4 DEF DeployStops, SchemaInv, DeployShape
  <2> QED
    BY <1>4, <2>1, RefusedKeepsSchema DEF DeployStops, Database
<1> QED
  BY <1>1, <1>2, <1>3, <1>4, LoadsKeepsSchema, MigratesUpKeepsSchema, ReadsMetaKeepsSchema,
     PlansKeepsSchema, RebuildsKeepsSchema, WritesMetaKeepsSchema DEF SchemaNext

\* What holds of an app's ladder, version, views and of the calls that move them.
THEOREM SchemaInvariance == SchemaSpec => []SchemaInv
<1>1. SchemaInit => SchemaInv
  BY SchemaInitInv
<1>2. SchemaInv /\ [SchemaNext]_schemaVars => SchemaInv'
  BY SchemaNextInv
<1> QED
  BY <1>1, <1>2, PTL DEF SchemaSpec

\* An app's schema, and the calls on it, keep their types.
THEOREM SchemaTypeCorrect == SchemaSpec => []SchemaTypeOK
<1>1. SchemaInv => SchemaTypeOK
  BY DeployFields DEF SchemaInv, SchemaTypes, SchemaTypeOK
<1> QED
  BY <1>1, SchemaInvariance, PTL

\* A migration or a manifest that nothing ran beside leaves the view as declared
\* on the schema as it is, whatever failed, stopped or raced before it, in any
\* order of the statements of calls that overlap (migrate.rs and manifest.rs).
THEOREM AloneIsRealised == SchemaSpec => []RealisedAlone
<1>1. SchemaInv => RealisedAlone
  BY DEF SchemaInv, SettledIsRealised, RealisedAlone
<1> QED
  BY <1>1, SchemaInvariance, PTL

-----------------------------------------------------------------------------
(* The site, for any directories, servers, items and writes.                *)

Wheres == {"idle", "target", "flag", "begin", "exporting", "state", "published", "readBack",
           "recheck", "alone", "finish", "mark"}

Versions == 0..Writes + 1

SiteRun ==
    [op : {"none", "migrate", "export"}, at : Wheres, src : Places, dst : Places,
     here : [Items -> Versions], there : [Items -> Versions], finished : BOOLEAN,
     heard : SUBSET Servers, unseen : SUBSET (Items \X Servers), changed : BOOLEAN]

TransferTypes ==
    /\ TransferTypeOK
    /\ run \in SiteRun
    /\ written \in Nat

\* Postgres holds no site yet: there has only been the one of the directory.
OneDirectory == home = "old" /\ copies \subseteq {"old", "postgres"}

FirstCopy ==
    /\ flag = "copying" => OneDirectory
    /\ flag # "done" /\ ~auth["postgres"] => OneDirectory

\* Between which places a command moves the site, and from where.
RunShape ==
    /\ run.op = "none" <=> run.at = "idle"
    /\ run.op = "migrate" =>
          /\ run.at # "exporting"
          /\ run.src \in copies /\ run.src \in Dirs /\ run.dst = "postgres"
          /\ run.at = "begin" => OneDirectory
          /\ run.at \in {"begin", "state", "published"} => ~run.finished
          /\ run.finished \/ run.at = "mark" => flag = "done"
          /\ run.at \in {"state", "published", "readBack", "recheck", "alone", "finish"} =>
                run.finished \/ flag = "copying"
    /\ run.op = "export" =>
          /\ run.at \in {"exporting", "state", "published", "readBack", "recheck", "alone", "finish"}
          /\ run.src = "postgres" /\ run.dst \in Dirs
          /\ home = "postgres" /\ flag # "copying"

Unseen(i) == \E u \in run.unseen : u[1] = i

\* What the command has looked at for the last time is as it was read, or was
\* written unseen.
AsRead ==
    run.op # "none" =>
        \A p \in Places, i \in Items :
            LookedAt(p, i) => kept[p][i] = run.here[i] \/ Unseen(i)

\* Where nothing says that the site is elsewhere.
Untold ==
    /\ \A d \in Dirs \cap copies : marker[d] = "none" => d = home \/ d \in untold
    /\ "postgres" \in copies /\ flag # "copying" => home = "postgres" \/ "postgres" \in untold

TransferInv ==
    /\ TransferTypes /\ FirstCopy /\ RunShape /\ AsRead /\ Untold
    /\ HomeIsLatest

-----------------------------------------------------------------------------

LEMMA NoRunIs ==
    /\ NoRun \in SiteRun
    /\ NoRun.op = "none" /\ NoRun.at = "idle" /\ ~NoRun.finished /\ NoRun.unseen = {}
    /\ Empty \in [Items -> Versions]
<1> DEFINE no == FALSE
<1>1. Empty \in [Items -> Versions]
  BY TransferAssumption DEF Empty, Versions
<1>2. NoRun = [op |-> "none", at |-> "idle", src |-> "old", dst |-> "old", here |-> Empty,
               there |-> Empty, finished |-> no, heard |-> {}, unseen |-> {}, changed |-> no]
  BY Zenon DEF NoRun
<1>3. no \in BOOLEAN /\ ~no
  OBVIOUS
<1> HIDE DEF no
<1> QED
  BY <1>1, <1>2, <1>3 DEF SiteRun, Wheres, Places, Dirs

LEMMA SiteFields ==
    ASSUME TransferInv
    PROVE  /\ kept \in [Places -> [Items -> Versions]] /\ newest \in [Items -> Versions]
           /\ missed \subseteq Items
           /\ \A p \in Places : kept[p] \in [Items -> Versions]
           /\ \A p \in Places, i \in Items : kept[p][i] \in Versions
           /\ run \in SiteRun /\ run.op \in {"none", "migrate", "export"} /\ run.at \in Wheres
           /\ run.src \in Places /\ run.dst \in Places /\ run.here \in [Items -> Versions]
           /\ run.finished \in BOOLEAN /\ run.heard \in SUBSET Servers
           /\ run.unseen \in SUBSET (Items \X Servers)
BY DEF TransferInv, TransferTypes, TransferTypeOK, SiteRun, Versions

\* A command is under way between two places.
LEMMA RunPlaces ==
    ASSUME TransferInv, run.op # "none"
    PROVE  /\ run.src # run.dst /\ run.src \in Places /\ run.dst \in Places
           /\ run.at \in {"state", "published"} => home = run.src
           /\ run.op = "migrate" /\ run.at = "finish" /\ ~run.finished => home = run.src
<1>1. run.op \in {"migrate", "export"}
  BY SiteFields
<1> QED
  BY <1>1 DEF TransferInv, RunShape, FirstCopy, OneDirectory, Places, Dirs

\* The steps of a command that only read.
LEMMA OnlyRuns ==
    ASSUME TransferInv, UNCHANGED <<kept, auth, marker, flag, server, row, siteVars>>,
           run' \in SiteRun, RunShape', AsRead'
    PROVE  TransferInv'
BY DEF TransferInv, TransferTypes, TransferTypeOK, FirstCopy, OneDirectory, Untold, HomeIsLatest, siteVars

\* The steps that end a command.
LEMMA RunIsOver ==
    ASSUME TransferInv, run' = NoRun, TransferTypeOK', written' \in Nat, FirstCopy', Untold', HomeIsLatest'
    PROVE  TransferInv'
<1>1. RunShape' /\ AsRead'
  BY NoRunIs DEF RunShape, AsRead
<1> QED
  BY <1>1, NoRunIs DEF TransferInv, TransferTypes

LEMMA RunGivenUp ==
    ASSUME TransferInv, UNCHANGED <<kept, auth, marker, flag, server, row, siteVars>>, run' = NoRun
    PROVE  TransferInv'
<1>1. RunShape' /\ AsRead'
  BY NoRunIs DEF RunShape, AsRead
<1> QED
  BY <1>1, NoRunIs, OnlyRuns

LEMMA RunGoes ==
    ASSUME TransferInv, NEW at \in Wheres, run' = [run EXCEPT !.at = at]
    PROVE  /\ run' \in SiteRun /\ run'.at = at /\ run'.op = run.op /\ run'.src = run.src
           /\ run'.dst = run.dst /\ run'.here = run.here /\ run'.there = run.there
           /\ run'.finished = run.finished
           /\ run'.heard = run.heard /\ run'.unseen = run.unseen
BY SiteFields DEF SiteRun

-----------------------------------------------------------------------------
(* Servers.                                                                  *)

\* A step of a server that writes nothing.
LEMMA OnlyServers ==
    ASSUME TransferInv, UNCHANGED <<kept, flag, siteVars>>,
           server' \in [Servers -> [at : {"off", "checked", "on"}, place : Places]],
           row' \in [Servers -> {"none", "live", "stale"}],
           auth' \in [Places -> BOOLEAN], auth["postgres"] => auth'["postgres"],
           marker' \in [Dirs -> {"none", "moved", "exporting"}],
           \A d \in Dirs : marker'[d] = "none" => marker[d] = "none",
           run' \in SiteRun, run'.op = run.op, run'.at = run.at, run'.src = run.src, run'.dst = run.dst,
           run'.here = run.here, run'.finished = run.finished, run'.unseen = run.unseen
    PROVE  TransferInv'
<1>1. UNCHANGED <<home, copies, untold, newest, missed, written>>
  BY DEF siteVars
<1>2. TransferTypes'
  BY <1>1 DEF TransferInv, TransferTypes, TransferTypeOK
<1>3. FirstCopy'
  BY <1>1 DEF TransferInv, FirstCopy, OneDirectory
<1>4. RunShape'
  BY <1>1 DEF TransferInv, RunShape, OneDirectory
<1>5. AsRead'
  BY <1>1 DEF TransferInv, AsRead, LookedAt, Unseen
<1>6. Untold' /\ HomeIsLatest'
  BY <1>1 DEF TransferInv, Untold, HomeIsLatest
<1> QED
  BY <1>2, <1>3, <1>4, <1>5, <1>6 DEF TransferInv

LEMMA StartsKeepsTransfer ==
    ASSUME TransferInv, NEW s \in Servers, NEW d \in Dirs, StartOnFiles(s, d) \/ OpenPostgres(s, d)
    PROVE  TransferInv'
<1> DEFINE yes == TRUE
           to == IF marker[d] = "none" THEN "moved" ELSE marker[d]
<1>1. /\ server \in [Servers -> [at : {"off", "checked", "on"}, place : Places]]
      /\ auth \in [Places -> BOOLEAN] /\ marker \in [Dirs -> {"none", "moved", "exporting"}]
      /\ row \in [Servers -> {"none", "live", "stale"}]
  BY DEF TransferInv, TransferTypes, TransferTypeOK
<1>2. d \in Places /\ "postgres" \in Places
  BY DEF Places, Dirs
<1>3. CASE StartOnFiles(s, d)
  <2>1. /\ server' = [server EXCEPT ![s] = [at |-> "on", place |-> d]]
        /\ auth' = [auth EXCEPT ![d] = yes]
        /\ UNCHANGED <<kept, marker, flag, row, run, siteVars>>
    BY <1>3 DEF StartOnFiles
  <2>2. yes \in BOOLEAN /\ yes
    OBVIOUS
  <2> HIDE DEF yes
  <2> QED
    BY <1>1, <1>2, <2>1, <2>2, SiteFields, OnlyServers
<1>4. CASE OpenPostgres(s, d)
  <2>1. /\ server' = [server EXCEPT ![s] = [at |-> "checked", place |-> "postgres"]]
        /\ marker' = [marker EXCEPT ![d] = to]
        /\ UNCHANGED <<kept, auth, flag, row, run, siteVars>>
    BY <1>4 DEF OpenPostgres
  <2>2. to \in {"moved", "exporting"}
    BY <1>1
  <2> HIDE DEF to
  <2> QED
    BY <1>1, <1>2, <2>1, <2>2, SiteFields, OnlyServers
<1> QED
  BY <1>3, <1>4

LEMMA BeatKeepsTransfer ==
    ASSUME TransferInv, NEW s \in Servers, Heartbeat(s)
    PROVE  TransferInv'
<1>1. /\ server' = [server EXCEPT ![s].at = "on"] /\ row' = [row EXCEPT ![s] = "live"]
      /\ run' = IF run.op = "none" THEN run ELSE [run EXCEPT !.heard = run.heard \union {s}]
      /\ UNCHANGED <<kept, auth, marker, flag, siteVars>>
  BY DEF Heartbeat
<1>2. /\ server \in [Servers -> [at : {"off", "checked", "on"}, place : Places]]
      /\ auth \in [Places -> BOOLEAN] /\ marker \in [Dirs -> {"none", "moved", "exporting"}]
      /\ row \in [Servers -> {"none", "live", "stale"}]
  BY DEF TransferInv, TransferTypes, TransferTypeOK
<1>3. /\ server' \in [Servers -> [at : {"off", "checked", "on"}, place : Places]]
      /\ row' \in [Servers -> {"none", "live", "stale"}]
  BY <1>1, <1>2
<1> DEFINE heard == run.heard \union {s}
<1>4. heard \in SUBSET Servers
  BY SiteFields
<1> HIDE DEF heard
<1>5. /\ run' \in SiteRun /\ run'.op = run.op /\ run'.at = run.at /\ run'.src = run.src /\ run'.dst = run.dst
      /\ run'.here = run.here /\ run'.finished = run.finished /\ run'.unseen = run.unseen
  <2>1. run \in SiteRun
    BY SiteFields
  <2>2. run' = run \/ run' = [run EXCEPT !.heard = heard]
    BY <1>1 DEF heard
  <2> QED
    BY <1>4, <2>1, <2>2 DEF SiteRun
<1> QED
  BY <1>1, <1>2, <1>3, <1>5, OnlyServers

LEMMA StopsKeepsTransfer ==
    ASSUME TransferInv, NEW s \in Servers, RowAges(s) \/ Leaves(s) \/ IsKilled(s)
    PROVE  TransferInv'
<1>1. /\ server' = server \/ server' = [server EXCEPT ![s] = Off]
      /\ row' = row \/ row' = [row EXCEPT ![s] = "stale"] \/ row' = [row EXCEPT ![s] = "none"]
      /\ UNCHANGED <<kept, auth, marker, flag, run, siteVars>>
  BY DEF RowAges, Leaves, IsKilled
<1>2. /\ server \in [Servers -> [at : {"off", "checked", "on"}, place : Places]]
      /\ auth \in [Places -> BOOLEAN] /\ marker \in [Dirs -> {"none", "moved", "exporting"}]
      /\ row \in [Servers -> {"none", "live", "stale"}]
  BY DEF TransferInv, TransferTypes, TransferTypeOK
<1>3. Off \in [at : {"off", "checked", "on"}, place : Places]
  BY DEF Off, Places, Dirs
<1>4. /\ server' \in [Servers -> [at : {"off", "checked", "on"}, place : Places]]
      /\ row' \in [Servers -> {"none", "live", "stale"}]
  BY <1>1, <1>2, <1>3
<1> QED
  BY <1>1, <1>2, <1>4, SiteFields, OnlyServers

LEMMA WritesKeepsTransfer ==
    ASSUME TransferInv, NEW s \in Servers, NEW i \in Items, NEW to \in 0..Writes + 1, ServerWrites(s, i, to)
    PROVE  TransferInv'
<1> DEFINE p == server[s].place
           yes == TRUE
           unseen == run.unseen \union {<<i, s>>}
<1>1. /\ written <= Writes /\ written' = written + 1
      /\ kept' = [kept EXCEPT ![p][i] = to]
      /\ newest' = IF p = home THEN [newest EXCEPT ![i] = to] ELSE newest
      /\ missed' = IF p = home THEN missed \ {i} ELSE missed
      /\ run' = IF run.op # "none" /\ LookedAt(p, i) THEN [run EXCEPT !.unseen = unseen] ELSE run
      /\ auth' = [auth EXCEPT ![p] = yes]
      /\ UNCHANGED <<marker, flag, server, row, home, copies, untold>>
  BY DEF ServerWrites
<1>2. p \in Places /\ to \in Versions /\ yes \in BOOLEAN /\ yes /\ home \in Places
  BY DEF TransferInv, TransferTypes, TransferTypeOK, Versions
<1> HIDE DEF p, yes
<1>3. /\ kept' \in [Places -> [Items -> Versions]] /\ kept'[p][i] = to
      /\ \A q \in Places : q # p => kept'[q] = kept[q]
      /\ \A q \in Places, j \in Items : j # i => kept'[q][j] = kept[q][j]
      /\ kept'[p] = [kept[p] EXCEPT ![i] = to]
  BY <1>1, <1>2, SiteFields
<1>4. newest' \in [Items -> Versions] /\ missed' \subseteq Items
  BY <1>1, <1>2, SiteFields
<1>5. unseen \in SUBSET (Items \X Servers)
  BY SiteFields
<1>6. \E u \in unseen : u[1] = i
  <2>1. <<i, s>> \in unseen /\ <<i, s>>[1] = i
    OBVIOUS
  <2> QED
    BY <2>1
<1>7. run.unseen \subseteq unseen
  OBVIOUS
<1> HIDE DEF unseen
<1>8. /\ run' \in SiteRun /\ run'.op = run.op /\ run'.at = run.at /\ run'.src = run.src /\ run'.dst = run.dst
      /\ run'.here = run.here /\ run'.finished = run.finished
      /\ run.unseen \subseteq run'.unseen
      /\ run.op # "none" /\ LookedAt(p, i) => run'.unseen = unseen
  <2>1. run \in SiteRun
    BY SiteFields
  <2>2. CASE run.op # "none" /\ LookedAt(p, i)
    <3>1. run' = [run EXCEPT !.unseen = unseen]
      BY <1>1, <2>2
    <3> QED
      BY <1>5, <1>7, <2>1, <3>1 DEF SiteRun
  <2>3. CASE ~(run.op # "none" /\ LookedAt(p, i))
    <3>1. run' = run
      BY <1>1, <2>3
    <3> QED
      BY <2>1, <2>3, <3>1
  <2> QED
    BY <2>2, <2>3
<1>9. auth' \in [Places -> BOOLEAN] /\ (auth["postgres"] => auth'["postgres"])
  BY <1>1, <1>2 DEF TransferInv, TransferTypes, TransferTypeOK
<1>10. TransferTypes'
  BY <1>1, <1>3, <1>4, <1>8, <1>9 DEF TransferInv, TransferTypes, TransferTypeOK, Versions
<1>11. FirstCopy'
  BY <1>1, <1>9 DEF TransferInv, FirstCopy, OneDirectory
<1>12. RunShape'
  BY <1>1, <1>8 DEF TransferInv, RunShape, OneDirectory
<1>13. AsRead'
  <2>1. SUFFICES ASSUME run.op # "none", NEW q \in Places, NEW j \in Items, LookedAt(q, j)'
                 PROVE  (kept[q][j] = run.here[j] \/ Unseen(j))'
    BY <1>8 DEF AsRead
  <2>2. LookedAt(q, j)
    BY <1>8, <2>1 DEF LookedAt
  <2>3. kept[q][j] = run.here[j] \/ Unseen(j)
    BY <2>1, <2>2 DEF TransferInv, AsRead
  <2>4. Unseen(j) => Unseen(j)'
    BY <1>8 DEF Unseen
  <2>5. CASE q = p /\ j = i
    BY <1>6, <1>8, <2>1, <2>2, <2>5 DEF Unseen
  <2>6. CASE ~(q = p /\ j = i)
    BY <1>3, <1>8, <2>3, <2>4, <2>6
  <2> QED
    BY <2>5, <2>6
<1>14. Untold'
  BY <1>1 DEF TransferInv, Untold
<1>15. HomeIsLatest'
  <2>1. \A j \in Items : kept[home][j] = newest[j] \/ j \in missed
    BY DEF TransferInv, HomeIsLatest
  <2>2. CASE p = home
    BY <1>1, <1>3, <2>1, <2>2, SiteFields DEF HomeIsLatest
  <2>3. CASE p # home
    BY <1>1, <1>2, <1>3, <2>1, <2>3 DEF HomeIsLatest
  <2> QED
    BY <2>2, <2>3
<1> QED
  BY <1>10, <1>11, <1>12, <1>13, <1>14, <1>15 DEF TransferInv

-----------------------------------------------------------------------------
(* The commands.                                                             *)

LEMMA RunDiesKeepsTransfer ==
    ASSUME TransferInv, RunDies
    PROVE  TransferInv'
BY RunGivenUp DEF RunDies, RunEnds

LEMMA CopyKeepsTransfer ==
    ASSUME TransferInv, CopyState \/ CopyPublished
    PROVE  TransferInv'
<1>1. PICK i \in Items, at \in {"state", "published"}, then \in {"published", "readBack"} :
        CopyItem(i, at, then)
  BY DEF CopyState, CopyPublished, Items
<1> DEFINE differs == run.here[i] # 0 /\ run.here[i] # run.there[i]
           changed == i = "published" /\ kept[run.src][i] # run.here[i]
           yes == TRUE
<1>2. run.at = at /\ UNCHANGED <<marker, flag, server, row, siteVars>>
  BY <1>1 DEF CopyItem
<1>3. CASE differs /\ changed
  BY <1>1, <1>2, <1>3, RunGivenUp DEF CopyItem, RunEnds
<1>4. CASE ~(differs /\ changed)
  <2>1. /\ kept' = IF differs THEN [kept EXCEPT ![run.dst][i] = run.here[i]] ELSE kept
        /\ auth' = [auth EXCEPT ![run.dst] = yes]
        /\ run' = [run EXCEPT !.at = then]
    BY <1>1, <1>4 DEF CopyItem
  <2>2. run.op # "none"
    BY <1>2 DEF TransferInv, RunShape
  <2>3. /\ run.src # run.dst /\ run.src \in Places /\ run.dst \in Places /\ home = run.src
        /\ then \in Wheres
    BY <1>2, <2>2, RunPlaces DEF Wheres
  <2>4. /\ run' \in SiteRun /\ run'.at = then /\ run'.op = run.op /\ run'.src = run.src
        /\ run'.dst = run.dst /\ run'.here = run.here /\ run'.finished = run.finished
        /\ run'.unseen = run.unseen
    BY <2>1, <2>3, RunGoes
  <2>5. yes \in BOOLEAN /\ yes
    OBVIOUS
  <2> HIDE DEF yes, differs, changed
  <2>6. kept' \in [Places -> [Items -> Versions]] /\ \A q \in Places : q # run.dst => kept'[q] = kept[q]
    <3>1. run.here[i] \in Versions /\ kept \in [Places -> [Items -> Versions]]
      BY SiteFields
    <3> QED
      BY <2>1, <2>3, <3>1
  <2>7. auth' \in [Places -> BOOLEAN] /\ (auth["postgres"] => auth'["postgres"])
    BY <2>1, <2>3, <2>5 DEF TransferInv, TransferTypes, TransferTypeOK
  <2>8. TransferTypes'
    BY <1>2, <2>4, <2>6, <2>7 DEF TransferInv, TransferTypes, TransferTypeOK, siteVars, Versions
  <2>9. FirstCopy' /\ Untold'
    BY <1>2, <2>7 DEF TransferInv, FirstCopy, OneDirectory, Untold, siteVars
  <2>10. RunShape'
    BY <1>2, <2>2, <2>4 DEF TransferInv, RunShape, OneDirectory, siteVars
  <2>11. AsRead'
    <3>1. SUFFICES ASSUME NEW q \in Places, NEW j \in Items, LookedAt(q, j)'
                   PROVE  (kept[q][j] = run.here[j] \/ Unseen(j))'
      BY DEF AsRead
    <3>2. q = run.src /\ LookedAt(q, j)
      BY <2>4, <3>1 DEF LookedAt
    <3>3. kept[q][j] = run.here[j] \/ Unseen(j)
      BY <2>2, <3>2 DEF TransferInv, AsRead
    <3> QED
      BY <2>3, <2>4, <2>6, <3>2, <3>3 DEF Unseen
  <2>12. HomeIsLatest'
    BY <1>2, <2>3, <2>6 DEF TransferInv, HomeIsLatest, siteVars
  <2> QED
    BY <2>8, <2>9, <2>10, <2>11, <2>12 DEF TransferInv
<1> QED
  BY <1>3, <1>4

LEMMA ReadBackKeepsTransfer ==
    ASSUME TransferInv, ReadBack
    PROVE  TransferInv'
<1>1. run.at = "readBack" /\ UNCHANGED <<kept, auth, marker, flag, server, row, siteVars>>
  BY DEF ReadBack
<1>2. CASE ~Matches(run.here, kept[run.dst])
  BY <1>1, <1>2, RunGivenUp DEF ReadBack
<1>3. CASE Matches(run.here, kept[run.dst])
  <2>1. run' = [run EXCEPT !.at = "recheck"] /\ "recheck" \in Wheres
    BY <1>3 DEF ReadBack, Wheres
  <2>2. /\ run' \in SiteRun /\ run'.at = "recheck" /\ run'.op = run.op /\ run'.src = run.src
        /\ run'.dst = run.dst /\ run'.here = run.here /\ run'.finished = run.finished
        /\ run'.unseen = run.unseen
    BY <2>1, RunGoes
  <2>3. RunShape'
    BY <1>1, <2>2 DEF TransferInv, RunShape, OneDirectory, siteVars
  <2>4. AsRead'
    <3>1. SUFFICES ASSUME run.op # "none", NEW q \in Places, NEW j \in Items, LookedAt(q, j)'
                   PROVE  (kept[q][j] = run.here[j] \/ Unseen(j))'
      BY <2>2 DEF AsRead
    <3>2. CASE q = run.dst
      BY <1>1, <1>3, <2>2, <3>2 DEF Matches
    <3>3. CASE q # run.dst
      <4>1. LookedAt(q, j)
        BY <2>2, <3>1, <3>3 DEF LookedAt
      <4> QED
        BY <1>1, <2>2, <3>1, <4>1 DEF TransferInv, AsRead, Unseen
    <3> QED
      BY <3>2, <3>3
  <2> QED
    BY <1>1, <2>2, <2>3, <2>4, OnlyRuns
<1> QED
  BY <1>2, <1>3

LEMMA UnchangedKeepsTransfer ==
    ASSUME TransferInv, Unchanged
    PROVE  TransferInv'
<1>1. run.at = "recheck" /\ UNCHANGED <<kept, auth, marker, flag, server, row, siteVars>>
  BY DEF Unchanged
<1>2. CASE kept[run.src]["state"] # run.here["state"]
  BY <1>1, <1>2, RunGivenUp DEF Unchanged
<1>3. CASE kept[run.src]["state"] = run.here["state"]
  <2> DEFINE changed == kept[run.src] # run.here
  <2>1. run' = [run EXCEPT !.at = "alone", !.changed = changed] /\ "alone" \in Wheres
    BY <1>3 DEF Unchanged, Wheres
  <2>2. /\ run' \in SiteRun /\ run'.at = "alone" /\ run'.op = run.op /\ run'.src = run.src
        /\ run'.dst = run.dst /\ run'.here = run.here /\ run'.finished = run.finished
        /\ run'.unseen = run.unseen
    <3>1. changed \in BOOLEAN /\ run \in SiteRun
      BY SiteFields
    <3> HIDE DEF changed
    <3> QED
      BY <2>1, <3>1 DEF SiteRun
  <2> HIDE DEF changed
  <2>3. RunShape'
    BY <1>1, <2>2 DEF TransferInv, RunShape, OneDirectory, siteVars
  <2>4. AsRead'
    <3>1. SUFFICES ASSUME run.op # "none", NEW q \in Places, NEW j \in Items, LookedAt(q, j)'
                   PROVE  (kept[q][j] = run.here[j] \/ Unseen(j))'
      BY <2>2 DEF AsRead
    <3>2. CASE q = run.src /\ j = "state"
      BY <1>1, <1>3, <2>2, <3>2
    <3>3. CASE ~(q = run.src /\ j = "state")
      <4>1. LookedAt(q, j)
        BY <1>1, <2>2, <3>1, <3>3 DEF LookedAt, Items
      <4> QED
        BY <1>1, <2>2, <3>1, <4>1 DEF TransferInv, AsRead, Unseen
    <3> QED
      BY <3>2, <3>3
  <2> QED
    BY <1>1, <2>2, <2>3, <2>4, OnlyRuns
<1> QED
  BY <1>2, <1>3

LEMMA AloneKeepsTransfer ==
    ASSUME TransferInv, StillAlone
    PROVE  TransferInv'
<1> DEFINE unseen == {u \in run.unseen : u[2] \notin {s \in run.heard : row[s] # "none"}}
<1>1. run.at = "alone" /\ UNCHANGED <<kept, auth, marker, flag, server, row, siteVars>>
  BY DEF StillAlone
<1>2. CASE Beating # {}
  BY <1>1, <1>2, RunGivenUp DEF StillAlone
<1>3. CASE Beating = {}
  <2>1. unseen = run.unseen
    BY <1>3 DEF Beating
  <2>2. run' = [run EXCEPT !.at = "finish", !.unseen = unseen]
    BY <1>3 DEF StillAlone
  <2> HIDE DEF unseen
  <2> DEFINE mid == [run EXCEPT !.at = "finish"]
  <2>3. /\ mid \in SiteRun /\ mid.at = "finish" /\ mid.op = run.op /\ mid.src = run.src
        /\ mid.dst = run.dst /\ mid.here = run.here /\ mid.finished = run.finished
        /\ mid.unseen = run.unseen
    <3>1. run \in SiteRun
      BY SiteFields
    <3> QED
      BY <3>1 DEF SiteRun, Wheres
  <2>4. run' = [mid EXCEPT !.unseen = unseen]
    BY <2>2
  <2> HIDE DEF mid
  <2>5. /\ run' \in SiteRun /\ run'.at = "finish" /\ run'.op = run.op /\ run'.src = run.src
        /\ run'.dst = run.dst /\ run'.here = run.here /\ run'.finished = run.finished
        /\ run'.unseen = run.unseen
    BY <2>1, <2>3, <2>4 DEF SiteRun
  <2>6. RunShape'
    BY <1>1, <2>5 DEF TransferInv, RunShape, OneDirectory, siteVars
  <2>7. AsRead'
    BY <1>1, <2>5 DEF TransferInv, AsRead, LookedAt, Unseen
  <2> QED
    BY <1>1, <2>5, <2>6, <2>7, OnlyRuns
<1> QED
  BY <1>2, <1>3

\* A move to the place that holds what was read, or that was written unseen.
LEMMA MoveIsLatest ==
    ASSUME TransferInv, NEW p \in Places, MovesTo(p), UNCHANGED <<kept, newest>>, run.op # "none",
           run.at \in {"finish", "mark"}, home = run.src, p = run.dst
    PROVE  HomeIsLatest' /\ home' = p /\ missed' \subseteq Items
<1>1. /\ home' = p
      /\ \A i \in Items : i \in missed' <=> i \in missed \/ Unseen(i)
  BY DEF MovesTo, Unseen
<1>2. ASSUME NEW i \in Items, ~Unseen(i) PROVE kept[p][i] = newest[i] \/ i \in missed
  <2>1. LookedAt(run.src, i) /\ LookedAt(run.dst, i) /\ run.src \in Places
    BY RunPlaces DEF LookedAt
  <2>2. kept[run.src][i] = run.here[i] /\ kept[run.dst][i] = run.here[i]
    BY <1>2, <2>1 DEF TransferInv, AsRead
  <2>3. kept[home][i] = newest[i] \/ i \in missed
    BY DEF TransferInv, HomeIsLatest
  <2> QED
    BY <2>2, <2>3
<1>3. missed' \subseteq Items
  <2>1. \A u \in run.unseen : u[1] \in Items
    BY SiteFields
  <2> QED
    BY <2>1, SiteFields DEF MovesTo
<1> QED
  BY <1>1, <1>2, <1>3 DEF HomeIsLatest

LEMMA PrepareKeepsTransfer ==
    ASSUME TransferInv, NEW d \in Dirs, Prepare(d)
    PROVE  TransferInv'
<1>1. /\ run.op = "none" /\ d \in copies /\ UNCHANGED <<kept, auth, marker, flag, server, row, siteVars>>
      /\ run' = [NoRun EXCEPT !.op = "migrate", !.at = "target", !.src = d, !.dst = "postgres", !.here = kept[d]]
  BY DEF Prepare
<1>2. kept[d] \in [Items -> Versions] /\ d \in Places /\ "postgres" \in Places
  BY SiteFields DEF Places
<1>3. /\ run' \in SiteRun /\ run'.op = "migrate" /\ run'.at = "target" /\ run'.src = d
      /\ run'.dst = "postgres" /\ run'.here = kept[d] /\ ~run'.finished /\ run'.unseen = {}
  <2> DEFINE one == [NoRun EXCEPT !.op = "migrate", !.at = "target"]
             two == [one EXCEPT !.src = d, !.dst = "postgres"]
             begun == [two EXCEPT !.here = kept[d]]
  <2>1. one \in SiteRun /\ one.op = "migrate" /\ one.at = "target" /\ ~one.finished /\ one.unseen = {}
    BY NoRunIs DEF SiteRun, Wheres
  <2>2. run' = begun
    BY <1>1
  <2> HIDE DEF one
  <2>3. /\ two \in SiteRun /\ two.op = "migrate" /\ two.at = "target" /\ two.src = d
        /\ two.dst = "postgres" /\ ~two.finished /\ two.unseen = {}
    BY <1>2, <2>1 DEF SiteRun
  <2> HIDE DEF two
  <2> QED
    BY <1>2, <2>2, <2>3 DEF SiteRun
<1>4. RunShape'
  BY <1>1, <1>3 DEF RunShape, siteVars
<1>5. AsRead'
  BY <1>1, <1>3 DEF AsRead, LookedAt
<1> QED
  BY <1>1, <1>3, <1>4, <1>5, OnlyRuns

LEMMA TargetKeepsTransfer ==
    ASSUME TransferInv, TransferTarget
    PROVE  TransferInv'
<1>1. /\ run.op = "migrate" /\ run.at = "target" /\ UNCHANGED <<kept, auth, marker, flag, server, row, siteVars>>
      /\ run' = NoRun \/ run' = [run EXCEPT !.at = "flag"]
  BY DEF TransferTarget, RunAt
<1>2. CASE run' = NoRun
  BY <1>1, <1>2, RunGivenUp
<1>3. CASE run' = [run EXCEPT !.at = "flag"]
  <2>1. /\ run' \in SiteRun /\ run'.at = "flag" /\ run'.op = run.op /\ run'.src = run.src
        /\ run'.dst = run.dst /\ run'.here = run.here /\ run'.finished = run.finished
        /\ run'.unseen = run.unseen
    BY <1>3, RunGoes DEF Wheres
  <2>2. RunShape' /\ AsRead'
    BY <1>1, <2>1 DEF TransferInv, RunShape, AsRead, LookedAt, Unseen, siteVars
  <2> QED
    BY <1>1, <2>1, <2>2, OnlyRuns
<1> QED
  BY <1>1, <1>2, <1>3

LEMMA ReadTargetKeepsTransfer ==
    ASSUME TransferInv, ReadTarget
    PROVE  TransferInv'
<1> DEFINE done == flag = "done"
           to == CASE done -> "readBack" [] ~done /\ flag = "none" -> "begin" [] OTHER -> "state"
<1>1. run.op = "migrate" /\ run.at = "flag" /\ UNCHANGED <<kept, auth, marker, flag, server, row, siteVars>>
  BY DEF ReadTarget, RunAt
<1>2. CASE flag = "none" /\ Holding("postgres")
  BY <1>1, <1>2, RunGivenUp DEF ReadTarget
<1>3. CASE ~(flag = "none" /\ Holding("postgres"))
  <2>1. run' = [run EXCEPT !.finished = done, !.heard = {}, !.there = kept["postgres"], !.at = to]
    BY <1>3 DEF ReadTarget, TransferFinished
  <2>2. flag \in {"none", "copying", "done"}
    BY DEF TransferInv, TransferTypes, TransferTypeOK
  <2>3. /\ to \in {"readBack", "begin", "state"}
        /\ to = "readBack" <=> done
        /\ to = "begin" => flag = "none"
        /\ to = "state" => flag = "copying"
    BY <2>2
  <2>4. done \in BOOLEAN /\ (done <=> flag = "done")
    OBVIOUS
  <2>5. kept["postgres"] \in [Items -> Versions] /\ run \in SiteRun
    BY SiteFields DEF Places
  <2> HIDE DEF to, done
  <2> DEFINE none == {}
             one == [run EXCEPT !.finished = done, !.heard = none]
             two == [one EXCEPT !.there = kept["postgres"], !.at = to]
  <2>6. run' = two
    BY <2>1
  <2>7. none \in SUBSET Servers
    OBVIOUS
  <2> HIDE DEF none
  <2>8. /\ one \in SiteRun /\ one.op = run.op /\ one.src = run.src /\ one.dst = run.dst
        /\ one.here = run.here /\ one.finished = done /\ one.unseen = run.unseen
    BY <2>4, <2>5, <2>7 DEF SiteRun
  <2> HIDE DEF one
  <2>9. /\ run' \in SiteRun /\ run'.at = to /\ run'.op = run.op /\ run'.src = run.src
        /\ run'.dst = run.dst /\ run'.here = run.here /\ run'.finished = done
        /\ run'.unseen = run.unseen
    BY <2>3, <2>5, <2>6, <2>8 DEF SiteRun, Wheres
  <2>10. to = "begin" => OneDirectory
    BY <1>3, <2>3 DEF TransferInv, FirstCopy, Holding
  <2>11. RunShape'
    BY <1>1, <2>3, <2>4, <2>9, <2>10 DEF TransferInv, RunShape, OneDirectory, siteVars
  <2>12. AsRead'
    BY <1>1, <2>3, <2>9 DEF TransferInv, AsRead, LookedAt, Unseen, siteVars
  <2> QED
    BY <1>1, <2>9, <2>11, <2>12, OnlyRuns
<1> QED
  BY <1>2, <1>3

LEMMA CopyingKeepsTransfer ==
    ASSUME TransferInv, SetCopying
    PROVE  TransferInv'
<1>1. /\ run.op = "migrate" /\ run.at = "begin" /\ flag' = "copying"
      /\ copies' = copies \union {"postgres"} /\ run' = [run EXCEPT !.at = "state"]
      /\ UNCHANGED <<kept, auth, marker, server, row, home, untold, newest, missed, written>>
  BY DEF SetCopying, RunAt
<1>2. /\ run' \in SiteRun /\ run'.at = "state" /\ run'.op = run.op /\ run'.src = run.src
      /\ run'.dst = run.dst /\ run'.here = run.here /\ run'.finished = run.finished
      /\ run'.unseen = run.unseen
  BY <1>1, RunGoes DEF Wheres
<1>3. OneDirectory /\ ~run.finished
  BY <1>1 DEF TransferInv, RunShape
<1>4. OneDirectory'
  BY <1>1, <1>3 DEF OneDirectory
<1>5. TransferTypes'
  BY <1>1, <1>2 DEF TransferInv, TransferTypes, TransferTypeOK, Places
<1>6. FirstCopy' /\ HomeIsLatest'
  BY <1>1, <1>4 DEF FirstCopy, TransferInv, HomeIsLatest
<1>7. Untold'
  BY <1>1 DEF TransferInv, Untold, Dirs
<1>8. RunShape'
  BY <1>1, <1>2, <1>3 DEF TransferInv, RunShape
<1>9. AsRead'
  BY <1>1, <1>2 DEF TransferInv, AsRead, LookedAt, Unseen
<1> QED
  BY <1>5, <1>6, <1>7, <1>8, <1>9 DEF TransferInv

LEMMA DoneKeepsTransfer ==
    ASSUME TransferInv, SetDone
    PROVE  TransferInv'
<1>1. /\ run.op = "migrate" /\ run.at = "finish" /\ run' = [run EXCEPT !.at = "mark"]
      /\ UNCHANGED <<kept, auth, marker, server, row, copies, newest, written>>
  BY DEF SetDone, RunAt
<1>2. /\ run' \in SiteRun /\ run'.at = "mark" /\ run'.op = run.op /\ run'.src = run.src
      /\ run'.dst = run.dst /\ run'.here = run.here /\ run'.finished = run.finished
      /\ run'.unseen = run.unseen
  BY <1>1, RunGoes DEF Wheres
<1>3. AsRead'
  BY <1>1, <1>2 DEF TransferInv, AsRead, LookedAt, Unseen
<1>4. run.src \in copies /\ run.src \in Dirs /\ run.dst = "postgres"
  BY <1>1 DEF TransferInv, RunShape
<1>5. CASE run.finished
  <2>1. UNCHANGED <<flag, home, untold, missed>>
    BY <1>5 DEF SetDone
  <2>2. RunShape'
    BY <1>1, <1>2, <1>5, <2>1 DEF TransferInv, RunShape
  <2> QED
    BY <1>1, <1>2, <1>3, <2>1, <2>2, OnlyRuns DEF siteVars
<1>6. CASE ~run.finished
  <2>1. flag' = "done" /\ MovesTo("postgres") /\ untold' = {run.src}
    BY <1>6 DEF SetDone
  <2>2. OneDirectory
    BY <1>1, <1>6 DEF TransferInv, RunShape, FirstCopy
  <2>3. home = run.src
    BY <1>1, <1>6, RunPlaces
  <2>4. HomeIsLatest' /\ home' = "postgres" /\ missed' \subseteq Items
    BY <1>1, <1>4, <2>1, <2>3, MoveIsLatest DEF Places
  <2>5. TransferTypes'
    BY <1>1, <1>2, <1>4, <2>1, <2>4 DEF TransferInv, TransferTypes, TransferTypeOK, Places, Versions
  <2>6. FirstCopy'
    BY <2>1 DEF FirstCopy
  <2>7. RunShape'
    BY <1>1, <1>2, <2>1 DEF TransferInv, RunShape
  <2>8. Untold'
    BY <1>1, <1>4, <2>1, <2>2, <2>4 DEF Untold, OneDirectory, Dirs
  <2> QED
    BY <1>3, <2>4, <2>5, <2>6, <2>7, <2>8 DEF TransferInv
<1> QED
  BY <1>5, <1>6

LEMMA MarkerKeepsTransfer ==
    ASSUME TransferInv, WriteMarker
    PROVE  TransferInv'
<1>1. /\ run.op = "migrate" /\ run.at = "mark" /\ run' = NoRun
      /\ marker' = [marker EXCEPT ![run.src] = "moved"]
      /\ UNCHANGED <<kept, auth, flag, server, row, copies, newest, written>>
  BY DEF WriteMarker, RunAt, RunEnds
<1>2. run.src \in copies /\ run.src \in Dirs /\ run.dst = "postgres" /\ flag = "done"
  BY <1>1 DEF TransferInv, RunShape
<1>3. /\ marker' \in [Dirs -> {"none", "moved", "exporting"}] /\ marker'[run.src] = "moved"
      /\ \A d \in Dirs : marker'[d] = "none" => d # run.src /\ marker[d] = "none"
  BY <1>1, <1>2 DEF TransferInv, TransferTypes, TransferTypeOK
<1>4. FirstCopy'
  BY <1>1, <1>2 DEF FirstCopy
<1>5. CASE home = run.src
  <2>1. MovesTo("postgres") /\ untold' = untold \ {"postgres"}
    BY <1>5 DEF WriteMarker
  <2>2. HomeIsLatest' /\ home' = "postgres" /\ missed' \subseteq Items
    BY <1>1, <1>2, <1>5, <2>1, MoveIsLatest DEF Places
  <2>3. TransferTypeOK' /\ written' \in Nat
    BY <1>1, <1>3, <2>1, <2>2 DEF TransferInv, TransferTypes, TransferTypeOK, Places, Versions
  <2>4. Untold'
    BY <1>1, <1>3, <1>5, <2>1, <2>2 DEF TransferInv, Untold, Dirs
  <2> QED
    BY <1>1, <1>4, <2>2, <2>3, <2>4, RunIsOver
<1>6. CASE home # run.src
  <2>1. untold' = untold \ {run.src} /\ UNCHANGED <<home, missed>>
    BY <1>6 DEF WriteMarker
  <2>2. TransferTypeOK' /\ written' \in Nat /\ HomeIsLatest'
    BY <1>1, <1>3, <2>1 DEF TransferInv, TransferTypes, TransferTypeOK, HomeIsLatest
  <2>3. Untold'
    BY <1>1, <1>2, <1>3, <2>1 DEF TransferInv, Untold, Dirs
  <2> QED
    BY <1>1, <1>4, <2>2, <2>3, RunIsOver
<1> QED
  BY <1>5, <1>6

LEMMA ExportKeepsTransfer ==
    ASSUME TransferInv, NEW d \in Dirs, ExportBegins(d)
    PROVE  TransferInv'
<1>1. /\ run.op = "none" /\ home = "postgres" /\ flag # "copying"
      /\ UNCHANGED <<kept, auth, marker, flag, server, row, siteVars>>
      /\ run' = [NoRun EXCEPT !.op = "export", !.at = "exporting", !.src = "postgres", !.dst = d,
                              !.here = kept["postgres"], !.there = kept[d]]
  BY DEF ExportBegins
<1>2. kept[d] \in [Items -> Versions] /\ kept["postgres"] \in [Items -> Versions]
      /\ d \in Places /\ "postgres" \in Places
  BY SiteFields DEF Places
<1>3. /\ run' \in SiteRun /\ run'.op = "export" /\ run'.at = "exporting" /\ run'.src = "postgres"
      /\ run'.dst = d /\ run'.here = kept["postgres"] /\ ~run'.finished /\ run'.unseen = {}
  <2> DEFINE one == [NoRun EXCEPT !.op = "export", !.at = "exporting"]
             two == [one EXCEPT !.src = "postgres", !.dst = d]
             begun == [two EXCEPT !.here = kept["postgres"], !.there = kept[d]]
  <2>1. one \in SiteRun /\ one.op = "export" /\ one.at = "exporting" /\ ~one.finished /\ one.unseen = {}
    BY NoRunIs DEF SiteRun, Wheres
  <2>2. run' = begun
    BY <1>1
  <2> HIDE DEF one
  <2>3. /\ two \in SiteRun /\ two.op = "export" /\ two.at = "exporting" /\ two.src = "postgres"
        /\ two.dst = d /\ ~two.finished /\ two.unseen = {}
    BY <1>2, <2>1 DEF SiteRun
  <2> HIDE DEF two
  <2> QED
    BY <1>2, <2>2, <2>3 DEF SiteRun
<1>4. RunShape'
  BY <1>1, <1>3 DEF RunShape, siteVars
<1>5. AsRead'
  BY <1>1, <1>3 DEF AsRead, LookedAt
<1> QED
  BY <1>1, <1>3, <1>4, <1>5, OnlyRuns

LEMMA ExportingKeepsTransfer ==
    ASSUME TransferInv, MarkExporting
    PROVE  TransferInv'
<1> DEFINE to == IF marker[run.dst] = "none" THEN "exporting" ELSE marker[run.dst]
<1>1. /\ run.op = "export" /\ run.at = "exporting"
      /\ marker' = [marker EXCEPT ![run.dst] = to]
      /\ copies' = copies \union {run.dst} /\ run' = [run EXCEPT !.at = "state"]
      /\ UNCHANGED <<kept, auth, flag, server, row, home, untold, newest, missed, written>>
  BY DEF MarkExporting, RunAt
<1>2. /\ run' \in SiteRun /\ run'.at = "state" /\ run'.op = run.op /\ run'.src = run.src
      /\ run'.dst = run.dst /\ run'.here = run.here /\ run'.finished = run.finished
      /\ run'.unseen = run.unseen
  BY <1>1, RunGoes DEF Wheres
<1>3. run.dst \in Dirs /\ home = "postgres" /\ flag # "copying"
  BY <1>1 DEF TransferInv, RunShape
<1>4. to \in {"moved", "exporting"}
  BY <1>3 DEF TransferInv, TransferTypes, TransferTypeOK
<1> HIDE DEF to
<1>5. /\ marker' \in [Dirs -> {"none", "moved", "exporting"}]
      /\ \A d \in Dirs : marker'[d] = "none" => d # run.dst /\ marker[d] = "none"
  BY <1>1, <1>3, <1>4 DEF TransferInv, TransferTypes, TransferTypeOK
<1>6. TransferTypes'
  BY <1>1, <1>2, <1>3, <1>5 DEF TransferInv, TransferTypes, TransferTypeOK, Places
<1>7. FirstCopy' /\ HomeIsLatest'
  BY <1>1, <1>3 DEF TransferInv, FirstCopy, OneDirectory, HomeIsLatest
<1>8. Untold'
  BY <1>1, <1>3, <1>5 DEF TransferInv, Untold, Dirs
<1>9. RunShape'
  BY <1>1, <1>2 DEF TransferInv, RunShape
<1>10. AsRead'
  BY <1>1, <1>2 DEF TransferInv, AsRead, LookedAt, Unseen
<1> QED
  BY <1>6, <1>7, <1>8, <1>9, <1>10 DEF TransferInv

LEMMA ExportedKeepsTransfer ==
    ASSUME TransferInv, RemoveMarker
    PROVE  TransferInv'
<1>1. /\ run.op = "export" /\ run.at = "finish" /\ run' = NoRun
      /\ marker' = [marker EXCEPT ![run.dst] = "none"]
      /\ MovesTo(run.dst) /\ untold' = (untold \ {run.dst}) \union {"postgres"}
      /\ UNCHANGED <<kept, auth, flag, server, row, copies, newest, written>>
  BY DEF RemoveMarker, RunAt, RunEnds
<1>2. run.dst \in Dirs /\ run.src = "postgres" /\ home = "postgres" /\ flag # "copying"
  BY <1>1 DEF TransferInv, RunShape
<1>3. /\ marker' \in [Dirs -> {"none", "moved", "exporting"}]
      /\ \A d \in Dirs : d # run.dst => marker'[d] = marker[d]
  BY <1>1, <1>2 DEF TransferInv, TransferTypes, TransferTypeOK
<1>4. HomeIsLatest' /\ home' = run.dst /\ missed' \subseteq Items
  BY <1>1, <1>2, MoveIsLatest DEF Places
<1>5. TransferTypeOK' /\ written' \in Nat
  BY <1>1, <1>2, <1>3, <1>4 DEF TransferInv, TransferTypes, TransferTypeOK, Places, Versions
<1>6. FirstCopy'
  BY <1>1, <1>2 DEF TransferInv, FirstCopy, OneDirectory
<1>7. Untold'
  BY <1>1, <1>2, <1>3, <1>4 DEF TransferInv, Untold, Dirs
<1> QED
  BY <1>1, <1>4, <1>5, <1>6, <1>7, RunIsOver

LEMMA TransferInitInv ==
    ASSUME TransferInit
    PROVE  TransferInv
<1>1. NoRun \in SiteRun /\ NoRun.op = "none" /\ NoRun.at = "idle" /\ ~NoRun.finished
  BY NoRunIs
<1>2. TransferTypeOK
  <2>1. [i \in Items |-> 1] \in [Items -> 0..Writes + 1] /\ Empty \in [Items -> 0..Writes + 1]
    BY TransferAssumption DEF Empty
  <2>2. kept \in [Places -> [Items -> 0..Writes + 1]]
    <3> HIDE DEF Empty
    <3> QED
      BY <2>1 DEF TransferInit
  <2>3. Off \in [at : {"off", "checked", "on"}, place : Places]
    BY DEF Off, Places, Dirs
  <2>4. server \in [Servers -> [at : {"off", "checked", "on"}, place : Places]]
    BY <2>3 DEF TransferInit
  <2>5. home \in Places
    BY DEF TransferInit, Places, Dirs
  <2> QED
    BY <2>1, <2>2, <2>4, <2>5 DEF TransferInit, TransferTypeOK
<1>3. HomeIsLatest
  <2>1. home \in Places
    BY DEF TransferInit, Places, Dirs
  <2> QED
    BY <2>1 DEF TransferInit, HomeIsLatest
<1>4. FirstCopy /\ Untold
  BY DEF TransferInit, FirstCopy, OneDirectory, Untold, Places, Dirs
<1>5. RunShape /\ AsRead
  BY <1>1 DEF TransferInit, RunShape, AsRead
<1> QED
  BY <1>1, <1>2, <1>3, <1>4, <1>5 DEF TransferInv, TransferTypes, TransferInit

LEMMA TransferNextInv ==
    ASSUME TransferInv, [TransferNext]_transferVars
    PROVE  TransferInv'
<1>1. CASE UNCHANGED transferVars
  <2>1. UNCHANGED <<kept, auth, marker, flag, server, row, siteVars>> /\ run' = run
    BY <1>1 DEF transferVars
  <2>2. RunShape' /\ AsRead'
    BY <2>1 DEF TransferInv, RunShape, OneDirectory, AsRead, LookedAt, Unseen, siteVars
  <2> QED
    BY <2>1, <2>2, SiteFields, OnlyRuns
<1>2. ASSUME NEW s \in Servers,
             \/ \E d \in Dirs : StartOnFiles(s, d) \/ OpenPostgres(s, d)
             \/ Heartbeat(s) \/ RowAges(s) \/ Leaves(s) \/ IsKilled(s)
             \/ \E i \in Items, to \in 0..Writes + 1 : ServerWrites(s, i, to)
      PROVE  TransferInv'
  BY <1>2, StartsKeepsTransfer, BeatKeepsTransfer, StopsKeepsTransfer, WritesKeepsTransfer
<1>3. ASSUME NEW d \in Dirs, Prepare(d) \/ ExportBegins(d)
      PROVE  TransferInv'
  BY <1>3, PrepareKeepsTransfer, ExportKeepsTransfer
<1> QED
  BY <1>1, <1>2, <1>3, TargetKeepsTransfer, ReadTargetKeepsTransfer, CopyingKeepsTransfer,
     DoneKeepsTransfer, MarkerKeepsTransfer, ExportingKeepsTransfer, ExportedKeepsTransfer,
     CopyKeepsTransfer, ReadBackKeepsTransfer, UnchangedKeepsTransfer, AloneKeepsTransfer,
     RunDiesKeepsTransfer DEF TransferNext

\* What holds of the site's places, the command that moves it and the servers.
THEOREM TransferInvariance == TransferSpec => []TransferInv
<1>1. TransferInit => TransferInv
  BY TransferInitInv
<1>2. TransferInv /\ [TransferNext]_transferVars => TransferInv'
  BY TransferNextInv
<1> QED
  BY <1>1, <1>2, PTL DEF TransferSpec

\* The site's places, marks and rows keep their types.
THEOREM TransferTypeCorrect == TransferSpec => []TransferTypeOK
<1>1. TransferInv => TransferTypeOK
  BY DEF TransferInv, TransferTypes
<1> QED
  BY <1>1, TransferInvariance, PTL

\* Where the site lives each item is what was last written there, or one whose last
\* write a finished command did not look at (LookedAt, MovesTo), whatever migrates
\* and exports, cut short at any step and run again, left elsewhere (transfer.rs: the
\* copies, the second look at platform state, the marks).
THEOREM MovesWhole == TransferSpec => []HomeIsLatest
<1>1. TransferInv => HomeIsLatest
  BY DEF TransferInv
<1> QED
  BY <1>1, TransferInvariance, PTL

\* A step that starts no server.
LEMMA StartsNone ==
    ASSUME TransferInv, NEW s \in Servers, NEW q \in Places, Starts(s, q), [TransferNext]_transferVars
    PROVE  \E d \in Dirs : StartOnFiles(s, d) \/ OpenPostgres(s, d)
<1>1. server[s].at = "off" /\ server'[s].at # "off"
  BY DEF Starts
<1>2. server \in [Servers -> [at : {"off", "checked", "on"}, place : Places]]
  BY DEF TransferInv, TransferTypes, TransferTypeOK
<1>3. server' # server
  BY <1>1
<1>4. ASSUME NEW t \in Servers, Heartbeat(t) PROVE FALSE
  <2>1. server[t].at # "off" /\ server' = [server EXCEPT ![t].at = "on"]
    BY <1>4 DEF Heartbeat
  <2> QED
    BY <1>1, <1>2, <2>1
<1>5. ASSUME NEW t \in Servers, Leaves(t) \/ IsKilled(t) PROVE FALSE
  <2>1. server' = [server EXCEPT ![t] = Off]
    BY <1>5 DEF Leaves, IsKilled
  <2> QED
    BY <1>1, <1>2, <2>1 DEF Off
<1>6. ASSUME NEW t \in Servers, NEW d \in Dirs, StartOnFiles(t, d) \/ OpenPostgres(t, d) PROVE t = s
  <2>1. PICK rec : server' = [server EXCEPT ![t] = rec]
    BY <1>6 DEF StartOnFiles, OpenPostgres
  <2> QED
    BY <1>1, <1>2, <2>1
<1>7. CASE UNCHANGED transferVars
  BY <1>3, <1>7 DEF transferVars
<1>8. ASSUME \/ \E t \in Servers : RowAges(t) \/ \E i \in Items, to \in 0..Writes + 1 : ServerWrites(t, i, to)
             \/ \E d \in Dirs : Prepare(d) \/ ExportBegins(d)
             \/ TransferTarget \/ ReadTarget \/ SetCopying \/ SetDone \/ WriteMarker
             \/ MarkExporting \/ RemoveMarker
             \/ CopyState \/ CopyPublished \/ ReadBack \/ Unchanged \/ StillAlone
             \/ RunDies
      PROVE  FALSE
  BY <1>3, <1>8 DEF RowAges, ServerWrites, Prepare, ExportBegins, TransferTarget, ReadTarget, SetCopying,
     SetDone, WriteMarker, MarkExporting, RemoveMarker, CopyState, CopyPublished, CopyItem, ReadBack,
     Unchanged, StillAlone, RunDies
<1> QED
  BY <1>4, <1>5, <1>6, <1>7, <1>8 DEF TransferNext

\* A server starts on no copy of the site but the one it lives in, but for the
\* places the site has left with nothing there to say so (state/mod.rs, the
\* checks of a start against marker and flag).
THEOREM StartsAtHome == TransferSpec => StartsWhereItLives
<1>1. ASSUME TransferInv, [TransferNext]_transferVars
      PROVE  [\A s \in Servers, p \in copies : Starts(s, p) => p = home \/ p \in untold]_transferVars
  <2>1. SUFFICES ASSUME NEW s \in Servers, NEW p \in copies, Starts(s, p)
                 PROVE  p = home \/ p \in untold
    OBVIOUS
  <2>2. p \in Places
    BY <1>1 DEF TransferInv, TransferTypes, TransferTypeOK
  <2>3. PICK d \in Dirs : StartOnFiles(s, d) \/ OpenPostgres(s, d)
    BY <1>1, <2>1, <2>2, StartsNone
  <2>4. server \in [Servers -> [at : {"off", "checked", "on"}, place : Places]]
    BY <1>1 DEF TransferInv, TransferTypes, TransferTypeOK
  <2>5. CASE StartOnFiles(s, d)
    <3>1. p = d
      BY <2>1, <2>4, <2>5 DEF StartOnFiles, Starts
    <3> QED
      BY <1>1, <2>5, <3>1 DEF StartOnFiles, Migrated, TransferInv, Untold
  <2>6. CASE OpenPostgres(s, d)
    <3>1. p = "postgres" /\ flag # "copying"
      BY <2>1, <2>4, <2>6 DEF OpenPostgres, Starts
    <3> QED
      BY <1>1, <3>1 DEF TransferInv, Untold
  <2> QED
    BY <2>3, <2>5, <2>6
<1> QED
  BY <1>1, TransferInvariance, PTL DEF TransferSpec, StartsWhereItLives
=============================================================================
