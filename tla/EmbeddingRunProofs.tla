------------------------- MODULE EmbeddingRunProofs -------------------------
(***************************************************************************)
(* What the embedding run has stored and what it returns is right, for any *)
(* number of posts, any batch size and save interval, and any failures and *)
(* crashes.                                                                *)
(***************************************************************************)
EXTENDS EmbeddingRun, TLAPS, SequenceTheorems, WellFoundedInduction

TypeInv ==
  /\ chunk \in Seq(Seq(Posts)) /\ vectors \in Seq(Seq(Posts))
  /\ batch \in Seq(Posts) /\ rest \in Seq(Posts) /\ fresh \in Seq(Posts)
  /\ bufferVectors \in Seq(Posts) /\ bufferPosts \in Seq(Posts)

(* The posts of the batch that have not been encoded one by one.            *)
Left == IF pc = "singleId" THEN Tail(rest) ELSE rest

(* The vectors of a batch are those of its posts, unless there are fewer.   *)
BatchInOrder ==
  /\ pc = "buffer" => fresh = batch
  /\ pc = "singleId" => rest # <<>>
  /\ pc \in {"single", "singleId"} =>
       /\ Len(fresh) + Len(Left) <= Len(batch)
       /\ Len(fresh) + Len(Left) = Len(batch) => fresh \o Left = batch

BufferInOrder ==
  /\ Len(bufferVectors) <= Len(bufferPosts)
  /\ SameLength => bufferVectors = bufferPosts

(* The files of a running process are what it has in memory, and its next   *)
(* completed ids are in one of them.                                        *)
FilesInMemory == pc \notin {"stopped", "over"} => vectors = chunk

Stored(ps) == \E i \in DOMAIN chunk : chunk[i] = ps

ChunkBeforeIds ==
  /\ pc = "ids" => Stored(batch)
  /\ pc = "singleId" => Stored(<<Head(rest)>>)

BufferInv == TypeInv /\ BatchInOrder /\ BufferInOrder /\ VectorsBelong
FileInv   == TypeInv /\ FilesInMemory /\ ChunkBeforeIds /\ CompletedHasChunk

-----------------------------------------------------------------------------
(* Types.                                                                   *)

LEMMA WrittenIsFiles ==
  ASSUME TypeInv, NEW ps \in Seq(Posts)
  PROVE  Written(ps) \in Seq(Seq(Posts))
<1>1. Len(vectors) + 1 \in Int /\ Len(vectors) + 1 >= 1
  BY LenProperties DEF TypeInv
<1>2. CASE Len(vectors) + 1 <= Len(chunk)
  <2>1. Len(vectors) + 1 \in 1 .. Len(chunk)
    BY <1>1, <1>2, LenProperties DEF TypeInv
  <2>2. [chunk EXCEPT ![Len(vectors) + 1] = ps] \in Seq(Seq(Posts))
    BY <2>1, ExceptSeq DEF TypeInv
  <2> QED BY <1>2, <2>2 DEF Written
<1>3. CASE ~(Len(vectors) + 1 <= Len(chunk))
  BY <1>3 DEF Written, TypeInv
<1> QED BY <1>2, <1>3

LEMMA TypeInit == Init => TypeInv
  BY EmptySeq DEF Init, TypeInv

LEMMA TypeStep == TypeInv /\ [Next]_vars => TypeInv'
<1> SUFFICES ASSUME TypeInv, [Next]_vars PROVE TypeInv'
  OBVIOUS
<1> USE DEF files, memory
<1>1. CASE Resume
  BY <1>1, EmptySeq DEF Resume, TypeInv
<1>2. CASE Collect
  <2>1. next \in Posts => Append(batch, next) \in Seq(Posts)
    BY DEF TypeInv
  <2>2. next \in Posts /\ batch' \in {batch, Append(batch, next)}
    BY <1>2 DEF Collect
  <2>3. batch' \in Seq(Posts)
    BY <2>1, <2>2 DEF TypeInv
  <2> QED BY <1>2, <2>3 DEF Collect, TypeInv
<1>3. CASE EncodeBatch
  <2>1. Written(batch) \in Seq(Seq(Posts))
    BY WrittenIsFiles DEF TypeInv
  <2>2. Append(vectors, batch) \in Seq(Seq(Posts))
    BY DEF TypeInv
  <2> QED BY <1>3, <2>1, <2>2, EmptySeq DEF EncodeBatch, TypeInv
<1>4. CASE BatchIds
  BY <1>4, EmptySeq DEF BatchIds, TypeInv
<1>5. CASE EncodeSingle
  <2>1. Head(rest) \in Posts /\ Tail(rest) \in Seq(Posts)
    BY <1>5, HeadTailProperties DEF EncodeSingle, TypeInv
  <2>2. <<Head(rest)>> \in Seq(Posts)
    BY <2>1
  <2>3. Written(<<Head(rest)>>) \in Seq(Seq(Posts))
    BY <2>2, WrittenIsFiles
  <2>4. Append(vectors, <<Head(rest)>>) \in Seq(Seq(Posts))
    BY <2>2 DEF TypeInv
  <2>5. Append(fresh, Head(rest)) \in Seq(Posts)
    BY <2>1 DEF TypeInv
  <2> QED BY <1>5, <2>1, <2>3, <2>4, <2>5 DEF EncodeSingle, TypeInv
<1>6. CASE SingleId
  <2>1. CASE rest = <<>>
    <3>1. Tail(rest) = <<>>
      BY <2>1, EmptySeq
    <3> QED BY <1>6, <3>1, EmptySeq DEF SingleId, TypeInv
  <2>2. CASE rest # <<>>
    BY <1>6, <2>2, HeadTailProperties DEF SingleId, TypeInv
  <2> QED BY <2>1, <2>2
<1>7. CASE Buffer
  BY <1>7, EmptySeq, ConcatProperties DEF Buffer, TypeInv
<1>8. CASE Flush
  BY <1>8, EmptySeq DEF Flush, TypeInv
<1>9. CASE Die
  BY <1>9 DEF Die, TypeInv
<1>10. CASE UNCHANGED vars
  BY <1>10 DEF vars, TypeInv
<1> QED BY <1>1, <1>2, <1>3, <1>4, <1>5, <1>6, <1>7, <1>8, <1>9, <1>10 DEF Next

-----------------------------------------------------------------------------
(* Sequences.                                                               *)

(* A head moved to the end of the sequence before it.                       *)
LEMMA ShiftHead ==
  ASSUME NEW S, NEW s \in Seq(S), NEW t \in Seq(S), t # <<>>
  PROVE  /\ Append(s, Head(t)) \o Tail(t) = s \o t
         /\ Len(Append(s, Head(t))) + Len(Tail(t)) = Len(s) + Len(t)
<1>1. Head(t) \in S /\ Tail(t) \in Seq(S) /\ Len(Tail(t)) = Len(t) - 1
  BY HeadTailProperties
<1>2. /\ Append(s, Head(t)) \in Seq(S) /\ Len(Append(s, Head(t))) = Len(s) + 1
      /\ Len(s) \in Nat /\ Len(t) \in Nat
  BY <1>1, LenProperties
<1>3. Len(Append(s, Head(t)) \o Tail(t)) = Len(s \o t)
  BY <1>1, <1>2, ConcatProperties
<1>4. ASSUME NEW i \in 1 .. Len(s \o t)
      PROVE  (Append(s, Head(t)) \o Tail(t))[i] = (s \o t)[i]
  <2>1. i \in 1 .. Len(s) + Len(t)
    BY <1>4, ConcatProperties
  <2>2. (s \o t)[i] = IF i <= Len(s) THEN s[i] ELSE t[i - Len(s)]
    BY <2>1, ConcatProperties
  <2>3. (Append(s, Head(t)) \o Tail(t))[i] =
          IF i <= Len(s) + 1 THEN Append(s, Head(t))[i] ELSE Tail(t)[i - (Len(s) + 1)]
    <3>1. i \in 1 .. (Len(s) + 1) + (Len(t) - 1)
      BY <1>2, <2>1
    <3> QED BY <1>1, <1>2, <3>1, ConcatProperties
  <2>4. CASE i <= Len(s)
    <3>1. Append(s, Head(t))[i] = s[i]
      BY <1>1, <2>1, <2>4
    <3> QED BY <1>2, <2>1, <2>2, <2>3, <2>4, <3>1
  <2>5. CASE i = Len(s) + 1
    <3>1. Append(s, Head(t))[i] = Head(t) /\ Head(t) = t[1]
      BY <1>1, <2>5
    <3>2. i - Len(s) = 1 /\ ~(i <= Len(s)) /\ i <= Len(s) + 1
      BY <1>2, <2>5
    <3> QED BY <2>2, <2>3, <3>1, <3>2
  <2>6. CASE i > Len(s) + 1
    <3>1. /\ i - (Len(s) + 1) \in 1 .. Len(Tail(t))
          /\ (i - (Len(s) + 1)) + 1 = i - Len(s)
          /\ ~(i <= Len(s)) /\ ~(i <= Len(s) + 1)
      BY <1>1, <1>2, <2>1, <2>6
    <3>2. Tail(t)[i - (Len(s) + 1)] = t[(i - (Len(s) + 1)) + 1]
      BY <3>1, HeadTailProperties
    <3> QED BY <2>2, <2>3, <3>1, <3>2
  <2> QED BY <1>2, <2>1, <2>4, <2>5, <2>6
<1>5. Append(s, Head(t)) \o Tail(t) \in Seq(S) /\ s \o t \in Seq(S)
  BY <1>1, <1>2, ConcatProperties
<1>6. Append(s, Head(t)) \o Tail(t) = s \o t
  <2>1. \A i \in 1 .. Len(Append(s, Head(t)) \o Tail(t)) :
          (Append(s, Head(t)) \o Tail(t))[i] = (s \o t)[i]
    BY <1>3, <1>4
  <2> QED BY <1>3, <1>5, <2>1, SeqEqual
<1>7. Len(Append(s, Head(t))) + Len(Tail(t)) = Len(s) + Len(t)
  BY <1>1, <1>2
<1> QED BY <1>6, <1>7

-----------------------------------------------------------------------------
(* The buffer.                                                              *)

LEMMA BufferInit == Init => BufferInv
  BY TypeInit, EmptySeq
     DEF Init, BufferInv, BatchInOrder, BufferInOrder, VectorsBelong

LEMMA BufferStep == BufferInv /\ [Next]_vars => BufferInv'
<1> SUFFICES ASSUME BufferInv, [Next]_vars PROVE BufferInv'
  OBVIOUS
<1> USE DEF files, memory
<1>0. TypeInv /\ TypeInv'
  BY TypeStep DEF BufferInv
<1>1. CASE Resume
  <2>1. BatchInOrder'
    BY <1>1 DEF Resume, BatchInOrder
  <2>2. BufferInOrder'
    BY <1>1, EmptySeq DEF Resume, BufferInOrder
  <2>3. VectorsBelong'
    BY <1>1 DEF Resume, BufferInv, VectorsBelong
  <2> QED BY <1>0, <2>1, <2>2, <2>3 DEF BufferInv
<1>2. CASE Collect
  <2>1. BatchInOrder'
    BY <1>2 DEF Collect, BatchInOrder
  <2>2. BufferInOrder'
    BY <1>2 DEF Collect, BufferInv, BufferInOrder, SameLength
  <2>3. VectorsBelong'
    BY <1>2 DEF Collect, BufferInv, VectorsBelong
  <2> QED BY <1>0, <2>1, <2>2, <2>3 DEF BufferInv
<1>3. CASE EncodeBatch
  <2>1. BatchInOrder'
    <3>1. CASE pc' = "ids"
      BY <3>1 DEF BatchInOrder
    <3>2. CASE pc' = "single"
      <4>1. rest' = batch /\ fresh' = <<>> /\ batch' = batch
        BY <1>3, <3>2 DEF EncodeBatch
      <4>2. <<>> \o batch = batch /\ Len(<<>>) = 0 /\ Len(batch) \in Nat
        BY <1>0, ConcatEmptySeq, EmptySeq, LenProperties DEF TypeInv
      <4> QED BY <3>2, <4>1, <4>2 DEF BatchInOrder, Left
    <3> QED BY <1>3, <3>1, <3>2 DEF EncodeBatch
  <2>2. BufferInOrder'
    BY <1>3 DEF EncodeBatch, BufferInv, BufferInOrder, SameLength
  <2>3. VectorsBelong'
    BY <1>3 DEF EncodeBatch, BufferInv, VectorsBelong
  <2> QED BY <1>0, <2>1, <2>2, <2>3 DEF BufferInv
<1>4. CASE BatchIds
  <2>1. BatchInOrder'
    <3>1. CASE pc' = "buffer"
      BY <1>4, <3>1 DEF BatchIds, BatchInOrder
    <3>2. CASE pc' = "single"
      <4>1. rest' = batch /\ fresh' = <<>> /\ batch' = batch
        BY <1>4, <3>2 DEF BatchIds
      <4>2. <<>> \o batch = batch /\ Len(<<>>) = 0 /\ Len(batch) \in Nat
        BY <1>0, ConcatEmptySeq, EmptySeq, LenProperties DEF TypeInv
      <4> QED BY <3>2, <4>1, <4>2 DEF BatchInOrder, Left
    <3> QED BY <1>4, <3>1, <3>2 DEF BatchIds
  <2>2. BufferInOrder'
    BY <1>4 DEF BatchIds, BufferInv, BufferInOrder, SameLength
  <2>3. VectorsBelong'
    BY <1>4 DEF BatchIds, BufferInv, VectorsBelong
  <2> QED BY <1>0, <2>1, <2>2, <2>3 DEF BufferInv
<1>5. CASE EncodeSingle
  <2>1. BatchInOrder'
    <3> DEFINE n == Len(fresh) + Len(rest)
    <3>1. /\ pc = "single" /\ rest # <<>> /\ batch' = batch
          /\ n <= Len(batch) /\ (n = Len(batch) => fresh \o rest = batch)
      BY <1>5 DEF EncodeSingle, BufferInv, BatchInOrder, Left
    <3>2. CASE pc' = "singleId"
      <4>1. fresh' = Append(fresh, Head(rest)) /\ rest' = rest
        BY <1>5, <3>2 DEF EncodeSingle
      <4>2. /\ Append(fresh, Head(rest)) \o Tail(rest) = fresh \o rest
            /\ Len(Append(fresh, Head(rest))) + Len(Tail(rest)) = n
        BY <1>0, <3>1, ShiftHead DEF TypeInv
      <4> QED BY <3>1, <3>2, <4>1, <4>2 DEF BatchInOrder, Left
    <3>3. CASE pc' = "single"
      <4>1. fresh' = fresh /\ rest' = Tail(rest)
        BY <1>5, <3>1, <3>3 DEF EncodeSingle
      <4>2. /\ Len(Tail(rest)) = Len(rest) - 1
            /\ Len(rest) \in Nat /\ Len(fresh) \in Nat /\ Len(batch) \in Nat
        BY <1>0, <3>1, HeadTailProperties, LenProperties DEF TypeInv
      <4>3. Len(fresh') + Len(rest') < Len(batch')
        BY <3>1, <4>1, <4>2
      <4>4. /\ Len(fresh') + Len(rest') <= Len(batch')
            /\ Len(fresh') + Len(rest') # Len(batch')
        BY <4>3, <4>1, <4>2, <3>1
      <4> QED BY <3>3, <4>4 DEF BatchInOrder, Left
    <3> QED BY <1>5, <3>1, <3>2, <3>3 DEF EncodeSingle
  <2>2. BufferInOrder'
    BY <1>5 DEF EncodeSingle, BufferInv, BufferInOrder, SameLength
  <2>3. VectorsBelong'
    BY <1>5 DEF EncodeSingle, BufferInv, VectorsBelong
  <2> QED BY <1>0, <2>1, <2>2, <2>3 DEF BufferInv
<1>6. CASE SingleId
  <2>1. BatchInOrder'
    BY <1>6 DEF SingleId, BufferInv, BatchInOrder, Left
  <2>2. BufferInOrder'
    BY <1>6 DEF SingleId, BufferInv, BufferInOrder, SameLength
  <2>3. VectorsBelong'
    BY <1>6 DEF SingleId, BufferInv, VectorsBelong
  <2> QED BY <1>0, <2>1, <2>2, <2>3 DEF BufferInv
<1>7. CASE Buffer
  <2>1. BatchInOrder'
    BY <1>7 DEF Buffer, BatchInOrder
  <2>2. BufferInOrder'
    <3>1. Len(fresh) <= Len(batch) /\ (Len(fresh) = Len(batch) => fresh = batch)
      <4>1. CASE pc = "buffer"
        BY <1>0, <4>1, LenProperties DEF TypeInv, BufferInv, BatchInOrder
      <4>2. CASE pc = "single"
        <5>1. rest = <<>> /\ Len(rest) = 0 /\ fresh \o rest = fresh /\ Len(fresh) \in Nat
          BY <1>0, <1>7, <4>2, EmptySeq, ConcatEmptySeq, LenProperties DEF Buffer, TypeInv
        <5> QED BY <4>2, <5>1 DEF BufferInv, BatchInOrder, Left
      <4> QED BY <1>7, <4>1, <4>2 DEF Buffer
    <3>2. /\ Len(bufferVectors) <= Len(bufferPosts)
          /\ Len(bufferVectors) = Len(bufferPosts) => bufferVectors = bufferPosts
      BY DEF BufferInv, BufferInOrder, SameLength
    <3>3. /\ Len(bufferVectors) \in Nat /\ Len(bufferPosts) \in Nat
          /\ Len(fresh) \in Nat /\ Len(batch) \in Nat
      BY <1>0, LenProperties DEF TypeInv
    <3>4. CASE fresh = <<>>
      <4>1. bufferVectors' = bufferVectors /\ bufferPosts' = bufferPosts
        BY <1>0, <1>7, <3>4, ConcatEmptySeq DEF Buffer, TypeInv
      <4> QED BY <3>2, <4>1 DEF BufferInOrder, SameLength
    <3>5. CASE fresh # <<>>
      <4>1. bufferVectors' = bufferVectors \o fresh /\ bufferPosts' = bufferPosts \o batch
        BY <1>7, <3>5 DEF Buffer
      <4>2. /\ Len(bufferVectors') = Len(bufferVectors) + Len(fresh)
            /\ Len(bufferPosts') = Len(bufferPosts) + Len(batch)
        BY <1>0, <4>1, ConcatProperties DEF TypeInv
      <4>3. Len(bufferVectors') <= Len(bufferPosts')
        BY <3>1, <3>2, <3>3, <4>2
      <4>4. ASSUME Len(bufferVectors') = Len(bufferPosts')
            PROVE  bufferVectors = bufferPosts /\ fresh = batch
        <5>1. Len(bufferVectors) = Len(bufferPosts) /\ Len(fresh) = Len(batch)
          BY <3>1, <3>2, <3>3, <4>2, <4>4
        <5> QED BY <3>1, <3>2, <5>1
      <4> QED BY <4>1, <4>3, <4>4 DEF BufferInOrder, SameLength
    <3> QED BY <3>4, <3>5
  <2>3. VectorsBelong'
    BY <1>7 DEF Buffer, BufferInv, VectorsBelong
  <2> QED BY <1>0, <2>1, <2>2, <2>3 DEF BufferInv
<1>8. CASE Flush
  <2>1. BatchInOrder'
    BY <1>8 DEF Flush, BatchInOrder
  <2>2. BufferInOrder'
    BY <1>8, EmptySeq DEF Flush, BufferInOrder
  <2>3. VectorsBelong'
    <3>1. ASSUME SameLength, NEW p \in Posts PROVE Rows[p] \in {0, p}
      <4>1. bufferVectors = bufferPosts
        BY <3>1 DEF BufferInv, BufferInOrder
      <4>2. CASE p \in {bufferPosts[i] : i \in DOMAIN bufferVectors}
        <5>1. bufferPosts[CHOOSE i \in DOMAIN bufferPosts : bufferPosts[i] = p] = p
          BY <4>1, <4>2
        <5> QED BY <4>1, <4>2, <5>1 DEF Rows
      <4>3. CASE p \notin {bufferPosts[i] : i \in DOMAIN bufferVectors}
        BY <4>3 DEF Rows, BufferInv, VectorsBelong
      <4> QED BY <4>2, <4>3
    <3>2. table' = table \/ (SameLength /\ table' = Rows)
      BY <1>8 DEF Flush
    <3> QED BY <3>1, <3>2 DEF BufferInv, VectorsBelong, Posts
  <2> QED BY <1>0, <2>1, <2>2, <2>3 DEF BufferInv
<1>9. CASE Die
  <2>1. BatchInOrder'
    BY <1>9 DEF Die, BatchInOrder
  <2>2. BufferInOrder'
    BY <1>9 DEF Die, BufferInv, BufferInOrder, SameLength
  <2>3. VectorsBelong'
    BY <1>9 DEF Die, BufferInv, VectorsBelong
  <2> QED BY <1>0, <2>1, <2>2, <2>3 DEF BufferInv
<1>10. CASE UNCHANGED vars
  BY <1>0, <1>10
     DEF vars, BufferInv, BatchInOrder, Left, BufferInOrder, SameLength, VectorsBelong
<1> QED BY <1>1, <1>2, <1>3, <1>4, <1>5, <1>6, <1>7, <1>8, <1>9, <1>10 DEF Next

(* A stored vector is the vector of its post (_process_batch, run_async,    *)
(* _flush_to_db): vectors and posts of the buffer can have the same length  *)
(* only if no post of a batch is missing among the vectors.                 *)
THEOREM NoForeignVector == Spec => []VectorsBelong
<1>1. BufferInv => VectorsBelong
  BY DEF BufferInv
<1> QED BY <1>1, BufferInit, BufferStep, PTL DEF Spec

-----------------------------------------------------------------------------
(* The files.                                                               *)

(* np.save adds a file and leaves the others alone, because the process has *)
(* in memory what the files hold.                                           *)
LEMMA WrittenAdds ==
  ASSUME TypeInv, vectors = chunk, NEW ps \in Seq(Posts)
  PROVE  /\ Written(ps) = Append(vectors, ps)
         /\ DOMAIN Written(ps) = 1 .. Len(chunk) + 1
         /\ \A i \in DOMAIN chunk : i \in DOMAIN Written(ps) /\ Written(ps)[i] = chunk[i]
         /\ Written(ps)[Len(chunk) + 1] = ps
<1>1. Len(chunk) \in Nat /\ DOMAIN chunk = 1 .. Len(chunk) /\ chunk \in Seq(Seq(Posts))
  BY LenProperties DEF TypeInv
<1>2. Written(ps) = Append(chunk, ps)
  <2>1. ~(Len(vectors) + 1 <= Len(chunk))
    BY <1>1
  <2> QED BY <2>1 DEF Written
<1> QED BY <1>1, <1>2

(* So a step that writes a chunk keeps what was stored.                     *)
LEMMA WriteKeepsFiles ==
  ASSUME FileInv, NEW ps \in Seq(Posts), completed' = completed, pc \notin {"stopped", "over"},
         chunk' = Written(ps), vectors' = Append(vectors, ps)
  PROVE  /\ FilesInMemory' /\ CompletedHasChunk'
         /\ \E i \in DOMAIN chunk' : chunk'[i] = ps
<1>1. /\ Written(ps) = Append(vectors, ps)
      /\ DOMAIN Written(ps) = 1 .. Len(chunk) + 1
      /\ \A i \in DOMAIN chunk : i \in DOMAIN Written(ps) /\ Written(ps)[i] = chunk[i]
      /\ Written(ps)[Len(chunk) + 1] = ps
  BY WrittenAdds DEF FileInv, FilesInMemory
<1>2. Len(chunk) \in Nat
  BY LenProperties DEF FileInv, TypeInv
<1>3. FilesInMemory'
  BY <1>1 DEF FilesInMemory
<1>4. CompletedHasChunk'
  BY <1>1 DEF FileInv, CompletedHasChunk
<1>5. Len(chunk) + 1 \in DOMAIN chunk'
  BY <1>1, <1>2
<1> QED BY <1>1, <1>3, <1>4, <1>5

(* A step that leaves the files alone, or adds ids that a file has.         *)
LEMMA IdsKeepFiles ==
  ASSUME FileInv, chunk' = chunk,
         \A p \in completed' \ completed : \E i \in DOMAIN chunk : p \in ToSet(chunk[i])
  PROVE  CompletedHasChunk'
BY DEF FileInv, CompletedHasChunk

LEMMA FileInit == Init => FileInv
  BY TypeInit DEF Init, FileInv, FilesInMemory, ChunkBeforeIds, CompletedHasChunk

LEMMA FileStep == FileInv /\ [Next]_vars => FileInv'
<1> SUFFICES ASSUME FileInv, [Next]_vars PROVE FileInv'
  OBVIOUS
<1> USE DEF files, memory
<1>0. TypeInv /\ TypeInv'
  BY TypeStep DEF FileInv
<1>1. CASE Resume
  BY <1>0, <1>1, IdsKeepFiles DEF Resume, FileInv, FilesInMemory, ChunkBeforeIds
<1>2. CASE Collect
  BY <1>0, <1>2, IdsKeepFiles DEF Collect, FileInv, FilesInMemory, ChunkBeforeIds
<1>3. CASE EncodeBatch
  <2>1. CASE chunk' = Written(batch) /\ vectors' = Append(vectors, batch) /\ pc' = "ids"
    <3>1. batch \in Seq(Posts) /\ batch' = batch /\ completed' = completed /\ pc = "collect"
      BY <1>0, <1>3 DEF EncodeBatch, TypeInv
    <3>2. FilesInMemory' /\ CompletedHasChunk' /\ \E i \in DOMAIN chunk' : chunk'[i] = batch
      BY <2>1, <3>1, WriteKeepsFiles
    <3> QED BY <1>0, <2>1, <3>1, <3>2 DEF FileInv, ChunkBeforeIds, Stored
  <2>2. CASE UNCHANGED <<chunk, vectors>> /\ pc' = "single"
    BY <1>0, <1>3, <2>2, IdsKeepFiles DEF EncodeBatch, FileInv, FilesInMemory, ChunkBeforeIds
  <2> QED BY <1>3, <2>1, <2>2 DEF EncodeBatch
<1>4. CASE BatchIds
  <2>1. UNCHANGED <<chunk, vectors>> /\ pc = "ids" /\ pc' \in {"buffer", "single"}
    BY <1>4 DEF BatchIds
  <2>2. PICK i \in DOMAIN chunk : chunk[i] = batch
    BY <2>1 DEF FileInv, ChunkBeforeIds, Stored
  <2>3. completed' \subseteq completed \cup ToSet(batch)
    BY <1>4 DEF BatchIds
  <2>4. CompletedHasChunk'
    BY <2>1, <2>2, <2>3, IdsKeepFiles
  <2> QED BY <1>0, <2>1, <2>4 DEF FileInv, FilesInMemory, ChunkBeforeIds
<1>5. CASE EncodeSingle
  <2>1. /\ pc = "single" /\ completed' = completed
        /\ Head(rest) \in Posts /\ <<Head(rest)>> \in Seq(Posts)
    BY <1>0, <1>5, HeadTailProperties DEF EncodeSingle, TypeInv
  <2>2. CASE /\ chunk' = Written(<<Head(rest)>>) /\ vectors' = Append(vectors, <<Head(rest)>>)
             /\ rest' = rest /\ pc' = "singleId"
    <3>1. /\ FilesInMemory' /\ CompletedHasChunk'
          /\ \E i \in DOMAIN chunk' : chunk'[i] = <<Head(rest)>>
      BY <2>1, <2>2, WriteKeepsFiles
    <3> QED BY <1>0, <2>2, <3>1 DEF FileInv, ChunkBeforeIds, Stored
  <2>3. CASE UNCHANGED <<chunk, vectors, pc>>
    BY <1>0, <2>1, <2>3, IdsKeepFiles DEF FileInv, FilesInMemory, ChunkBeforeIds
  <2> QED BY <1>5, <2>2, <2>3 DEF EncodeSingle
<1>6. CASE SingleId
  <2>1. UNCHANGED <<chunk, vectors>> /\ pc = "singleId" /\ pc' = "single"
    BY <1>6 DEF SingleId
  <2>2. PICK i \in DOMAIN chunk : chunk[i] = <<Head(rest)>>
    BY <2>1 DEF FileInv, ChunkBeforeIds, Stored
  <2>3. Head(rest) \in ToSet(chunk[i])
    BY <2>2 DEF ToSet
  <2>4. completed' \subseteq completed \cup {Head(rest)}
    BY <1>6 DEF SingleId
  <2>5. CompletedHasChunk'
    BY <2>1, <2>3, <2>4, IdsKeepFiles
  <2> QED BY <1>0, <2>1, <2>5 DEF FileInv, FilesInMemory, ChunkBeforeIds
<1>7. CASE Buffer
  BY <1>0, <1>7, IdsKeepFiles DEF Buffer, FileInv, FilesInMemory, ChunkBeforeIds
<1>8. CASE Flush
  BY <1>0, <1>8, IdsKeepFiles DEF Flush, FileInv, FilesInMemory, ChunkBeforeIds
<1>9. CASE Die
  BY <1>0, <1>9, IdsKeepFiles DEF Die, FileInv, FilesInMemory, ChunkBeforeIds
<1>10. CASE UNCHANGED vars
  BY <1>0, <1>10, IdsKeepFiles DEF vars, FileInv, FilesInMemory, ChunkBeforeIds, Stored
<1> QED BY <1>1, <1>2, <1>3, <1>4, <1>5, <1>6, <1>7, <1>8, <1>9, <1>10 DEF Next

(* A completed post has its vector in a chunk file (_process_batch,         *)
(* run_async): the chunk is written before the ids, and no later one takes  *)
(* its place, since a resume counts its files from those it has read.       *)
THEOREM NoVectorLost == Spec => []CompletedHasChunk
<1>1. FileInv => CompletedHasChunk
  BY DEF FileInv
<1> QED BY <1>1, FileInit, FileStep, PTL DEF Spec

-----------------------------------------------------------------------------
(* FlattenSeq.  It is defined by a recursive function, whose values are the *)
(* partial results; a claim about all of them is proved by contradiction,   *)
(* from the least one that it is wrong for.                                 *)

(* A set of natural numbers has a least one.                                *)
LEMMA LeastNat ==
  ASSUME NEW T, T \subseteq Nat, T # {}
  PROVE  \E n \in T : \A m \in T : n <= m
<1> DEFINE R == OpToRel(<, Nat)
<1>1. IsWellFoundedOn(R, Nat)
  BY NatLessThanWellFounded, Zenon
<1>2. \E n \in T : \A m \in T : <<m, n>> \notin R
  <2> HIDE DEF R
  <2> QED BY <1>1, WFMin
<1>3. \A m, n \in Nat : m < n => <<m, n>> \in R
  BY DEF OpToRel
<1> HIDE DEF R
<1>4. PICK n \in T : \A m \in T : <<m, n>> \notin R
  BY <1>2
<1>5. ASSUME NEW m \in T PROVE n <= m
  <2>1. m \in Nat /\ n \in Nat /\ ~(m < n)
    BY <1>3, <1>4
  <2> QED BY <2>1
<1> QED BY <1>5

(* g holds the partial results of FlattenSeq(seqs), up to the n-th.         *)
Partial(seqs, n, g) ==
  g = [i \in 1 .. n |-> IF i = 1 THEN seqs[i] ELSE g[i - 1] \o seqs[i]]

(* The equation, at each position.                                          *)
LEMMA PartialIs ==
  ASSUME NEW seqs, NEW n \in Nat, NEW g, Partial(seqs, n, g)
  PROVE  /\ DOMAIN g = 1 .. n
         /\ \A i \in 1 .. n : g[i] = IF i = 1 THEN seqs[i] ELSE g[i - 1] \o seqs[i]
<1> DEFINE G == [i \in 1 .. n |-> IF i = 1 THEN seqs[i] ELSE g[i - 1] \o seqs[i]]
<1>1. g = G
  BY DEF Partial
<1>2. /\ DOMAIN G = 1 .. n
      /\ \A i \in 1 .. n : G[i] = IF i = 1 THEN seqs[i] ELSE g[i - 1] \o seqs[i]
  OBVIOUS
<1> HIDE DEF G
<1> QED BY <1>1, <1>2

(* The partial results are sequences of the elements, ...                   *)
LEMMA PartialTyped ==
  ASSUME NEW S, NEW seqs \in Seq(Seq(S)), NEW n \in Nat, n <= Len(seqs),
         NEW g, Partial(seqs, n, g)
  PROVE  \A i \in 1 .. n : g[i] \in Seq(S)
<1> DEFINE Wrong == {i \in 1 .. n : g[i] \notin Seq(S)}
<1> SUFFICES ASSUME Wrong # {} PROVE FALSE
  OBVIOUS
<1>1. PICK i \in Wrong : \A j \in Wrong : i <= j
  <2>1. Wrong \subseteq Nat
    OBVIOUS
  <2> HIDE DEF Wrong
  <2> QED BY <2>1, LeastNat
<1>2. i \in 1 .. n /\ g[i] \notin Seq(S)
  BY <1>1
<1>3. seqs[i] \in Seq(S)
  BY <1>2, ElementOfSeq, LenProperties
<1>4. g[i] = IF i = 1 THEN seqs[i] ELSE g[i - 1] \o seqs[i]
  BY <1>2, PartialIs
<1>5. i # 1 => g[i - 1] \in Seq(S)
  <2> SUFFICES ASSUME i # 1, g[i - 1] \notin Seq(S) PROVE FALSE
    OBVIOUS
  <2>1. i - 1 \in Wrong
    BY <1>2
  <2> HIDE DEF Wrong
  <2> QED BY <1>1, <1>2, <2>1
<1> QED BY <1>2, <1>3, <1>4, <1>5, ConcatProperties

(* ... those of lists that begin alike are the same as far as they do, ...   *)
LEMMA PartialUnique ==
  ASSUME NEW n \in Nat, NEW m \in Nat, n <= m,
         NEW s, NEW t, \A i \in 1 .. n : s[i] = t[i],
         NEW g, Partial(s, n, g), NEW h, Partial(t, m, h)
  PROVE  \A i \in 1 .. n : g[i] = h[i]
<1> DEFINE Wrong == {i \in 1 .. n : g[i] # h[i]}
<1> SUFFICES ASSUME Wrong # {} PROVE FALSE
  OBVIOUS
<1>1. PICK i \in Wrong : \A j \in Wrong : i <= j
  <2>1. Wrong \subseteq Nat
    OBVIOUS
  <2> HIDE DEF Wrong
  <2> QED BY <2>1, LeastNat
<1>2. i \in 1 .. n /\ i \in 1 .. m /\ g[i] # h[i]
  BY <1>1
<1>3. g[i] = IF i = 1 THEN s[i] ELSE g[i - 1] \o s[i]
  BY <1>2, PartialIs
<1>4. h[i] = IF i = 1 THEN t[i] ELSE h[i - 1] \o t[i]
  BY <1>2, PartialIs
<1>5. i # 1 => g[i - 1] = h[i - 1]
  <2> SUFFICES ASSUME i # 1, g[i - 1] # h[i - 1] PROVE FALSE
    OBVIOUS
  <2>1. i - 1 \in Wrong
    BY <1>2
  <2> HIDE DEF Wrong
  <2> QED BY <1>1, <1>2, <2>1
<1>6. s[i] = t[i]
  BY <1>2
<1> QED BY <1>2, <1>3, <1>4, <1>5, <1>6

(* ... and there are some, so that the recursive function is one.            *)
LEMMA PartialExists ==
  ASSUME NEW seqs, NEW n \in Nat
  PROVE  \E g : Partial(seqs, n, g)
<1> DEFINE Wrong == {k \in Nat : ~\E g : Partial(seqs, k, g)}
<1> SUFFICES ASSUME Wrong # {} PROVE FALSE
  OBVIOUS
<1>1. PICK k \in Wrong : \A j \in Wrong : k <= j
  <2>1. Wrong \subseteq Nat
    OBVIOUS
  <2> HIDE DEF Wrong
  <2> QED BY <2>1, LeastNat
<1>2. k \in Nat /\ ~\E g : Partial(seqs, k, g)
  BY <1>1
<1>3. CASE k = 0
  <2> DEFINE e == [i \in 1 .. 0 |-> seqs]
  <2>1. e = [i \in 1 .. 0 |-> IF i = 1 THEN seqs[i] ELSE e[i - 1] \o seqs[i]]
    OBVIOUS
  <2> HIDE DEF e
  <2> QED BY <1>2, <1>3, <2>1 DEF Partial
<1>4. CASE k # 0
  <2>1. PICK g : Partial(seqs, k - 1, g)
    <3>1. k - 1 \in Nat /\ ~(k <= k - 1)
      BY <1>2, <1>4
    <3>2. k - 1 \notin Wrong
      <4> HIDE DEF Wrong
      <4> QED BY <1>1, <3>1
    <3> QED BY <3>1, <3>2
  <2>2. \A i \in 1 .. k - 1 : g[i] = IF i = 1 THEN seqs[i] ELSE g[i - 1] \o seqs[i]
    <3>1. k - 1 \in Nat
      BY <1>2, <1>4
    <3> QED BY <2>1, <3>1, PartialIs
  <2> DEFINE last == IF k = 1 THEN seqs[k] ELSE g[k - 1] \o seqs[k]
             h == [i \in 1 .. k |-> IF i = k THEN last ELSE g[i]]
  <2>3. \A i \in 1 .. k : h[i] = IF i = k THEN last ELSE g[i]
    <3> HIDE DEF last
    <3> QED OBVIOUS
  <2>4. DOMAIN h = 1 .. k /\ h = [i \in 1 .. k |-> h[i]]
    <3> HIDE DEF last
    <3> QED OBVIOUS
  <2>5. ASSUME NEW i \in 1 .. k
        PROVE  h[i] = IF i = 1 THEN seqs[i] ELSE h[i - 1] \o seqs[i]
    <3>1. i # 1 => i - 1 \in 1 .. k /\ i - 1 # k /\ h[i - 1] = g[i - 1]
      <4>1. i # 1 => i - 1 \in 1 .. k /\ i - 1 # k
        BY <1>2
      <4> HIDE DEF h
      <4> QED BY <2>3, <4>1
    <3>2. CASE i = k
      <4>1. h[i] = last
        <5> HIDE DEF h, last
        <5> QED BY <2>3, <3>2
      <4> HIDE DEF h
      <4> QED BY <3>1, <3>2, <4>1 DEF last
    <3>3. CASE i # k
      <4>1. h[i] = g[i] /\ i \in 1 .. k - 1
        <5>1. i \in 1 .. k - 1
          BY <1>2, <3>3
        <5> HIDE DEF h, last
        <5> QED BY <2>3, <3>3, <5>1
      <4> HIDE DEF h
      <4> QED BY <2>2, <3>1, <4>1
    <3> QED BY <3>2, <3>3
  <2>6. Partial(seqs, k, h)
    <3> HIDE DEF h
    <3> QED BY <2>4, <2>5 DEF Partial
  <2> QED BY <1>2, <2>6
<1> QED BY <1>3, <1>4

LEMMA FlattenIs ==
  ASSUME NEW S, NEW seqs \in Seq(Seq(S)), seqs # <<>>
  PROVE  \E g : Partial(seqs, Len(seqs), g) /\ FlattenSeq(seqs) = g[Len(seqs)]
<1>1. Len(seqs) \in Nat /\ Len(seqs) # 0
  BY EmptySeq
<1> DEFINE f == CHOOSE g : Partial(seqs, Len(seqs), g)
<1>2. Partial(seqs, Len(seqs), f)
  BY <1>1, PartialExists
<1>3. FlattenSeq(seqs) = f[Len(seqs)]
  BY <1>1, Zenon DEF FlattenSeq, Partial
<1> QED BY <1>2, <1>3

LEMMA FlattenEmpty == FlattenSeq(<<>>) = <<>>
BY EmptySeq DEF FlattenSeq

LEMMA FlattenTyped ==
  ASSUME NEW S, NEW seqs \in Seq(Seq(S))
  PROVE  FlattenSeq(seqs) \in Seq(S)
<1>1. CASE seqs = <<>>
  BY <1>1, FlattenEmpty, EmptySeq
<1>2. CASE seqs # <<>>
  <2>1. PICK g : Partial(seqs, Len(seqs), g) /\ FlattenSeq(seqs) = g[Len(seqs)]
    BY <1>2, FlattenIs
  <2>2. Len(seqs) \in Nat /\ Len(seqs) \in 1 .. Len(seqs)
    BY <1>2, EmptySeq
  <2>3. \A i \in 1 .. Len(seqs) : g[i] \in Seq(S)
    <3>1. Len(seqs) \in Nat /\ Len(seqs) <= Len(seqs) /\ Partial(seqs, Len(seqs), g)
      BY <2>1, <2>2
    <3> QED BY <3>1, PartialTyped, Zenon
  <2> QED BY <2>1, <2>2, <2>3
<1> QED BY <1>1, <1>2

(* One more sequence at the end of the list is one more concatenation.      *)
LEMMA PartialNext ==
  ASSUME NEW n \in Nat, NEW s, NEW t, \A i \in 1 .. n : s[i] = t[i],
         NEW g, Partial(s, n, g), NEW h, Partial(t, n + 1, h)
  PROVE  h[n + 1] = IF n = 0 THEN t[n + 1] ELSE g[n] \o t[n + 1]
<1>1. n + 1 \in Nat /\ n <= n + 1 /\ n + 1 \in 1 .. n + 1
  OBVIOUS
<1>2. h[n + 1] = IF n + 1 = 1 THEN t[n + 1] ELSE h[(n + 1) - 1] \o t[n + 1]
  BY <1>1, PartialIs
<1>3. \A i \in 1 .. n : g[i] = h[i]
  BY <1>1, PartialUnique
<1>4. (n + 1) - 1 = n /\ (n + 1 = 1 <=> n = 0) /\ (n # 0 => n \in 1 .. n)
  OBVIOUS
<1> QED BY <1>2, <1>3, <1>4

LEMMA FlattenAppend ==
  ASSUME NEW S, NEW seqs \in Seq(Seq(S)), NEW c \in Seq(S)
  PROVE  FlattenSeq(Append(seqs, c)) = FlattenSeq(seqs) \o c
<1> DEFINE t == Append(seqs, c)
<1>1. /\ t \in Seq(Seq(S)) /\ t # <<>> /\ Len(t) = Len(seqs) + 1 /\ Len(seqs) \in Nat
      /\ t[Len(seqs) + 1] = c /\ \A i \in 1 .. Len(seqs) : seqs[i] = t[i]
  BY AppendProperties, LenProperties
<1> HIDE DEF t
<1>2. PICK h : Partial(t, Len(seqs) + 1, h) /\ FlattenSeq(t) = h[Len(seqs) + 1]
  <2>1. \E g : Partial(t, Len(t), g) /\ FlattenSeq(t) = g[Len(t)]
    BY <1>1, FlattenIs
  <2> QED BY <1>1, <2>1
<1>3. PICK g : Partial(seqs, Len(seqs), g) /\ (seqs # <<>> => FlattenSeq(seqs) = g[Len(seqs)])
  <2>1. CASE seqs = <<>>
    BY <1>1, <2>1, PartialExists
  <2>2. CASE seqs # <<>>
    <3>1. \E g : Partial(seqs, Len(seqs), g) /\ FlattenSeq(seqs) = g[Len(seqs)]
      BY <2>2, FlattenIs
    <3> QED BY <3>1
  <2> QED BY <2>1, <2>2
<1>4. h[Len(seqs) + 1] = IF Len(seqs) = 0 THEN c ELSE g[Len(seqs)] \o c
  <2>1. h[Len(seqs) + 1] = IF Len(seqs) = 0 THEN t[Len(seqs) + 1]
                           ELSE g[Len(seqs)] \o t[Len(seqs) + 1]
    <3>1. /\ Len(seqs) \in Nat /\ \A i \in 1 .. Len(seqs) : seqs[i] = t[i]
          /\ Partial(seqs, Len(seqs), g) /\ Partial(t, Len(seqs) + 1, h)
      BY <1>1, <1>2, <1>3
    <3> QED BY <3>1, PartialNext, Zenon
  <2> QED BY <1>1, <2>1
<1>5. CASE seqs = <<>>
  <2>1. Len(seqs) = 0 /\ FlattenSeq(seqs) = <<>>
    BY <1>5, EmptySeq, FlattenEmpty
  <2>2. <<>> \o c = c
    BY ConcatEmptySeq
  <2> QED BY <1>2, <1>4, <2>1, <2>2 DEF t
<1>6. CASE seqs # <<>>
  <2>1. Len(seqs) # 0
    BY <1>6, EmptySeq
  <2> QED BY <1>2, <1>3, <1>4, <1>6, <2>1 DEF t
<1> QED BY <1>5, <1>6
-----------------------------------------------------------------------------
(* The order of the rows.                                                   *)

FirstPosts(n) == [i \in 1 .. n |-> i]

(* The matrix of the chunk files.                                           *)
Encoded == FlattenSeq(chunk)

(* The posts read from the dataset and still to encode.                     *)
Pending == IF pc = "collect" THEN batch
           ELSE IF pc \in {"single", "singleId"} THEN Left ELSE <<>>

(* The posts of a chunk whose ids are still to be written.                  *)
Unrecorded == IF pc = "ids" THEN ToSet(batch)
              ELSE IF pc = "singleId" THEN {Head(rest)} ELSE {}

(* The files hold the posts from the first on; behind the successful ones   *)
(* come those of the batch, once all that were completed have been read.    *)
FilesOrdered ==
  /\ Encoded = FirstPosts(Len(Encoded))
  /\ completed \cup Unrecorded = ToSet(Encoded)

MemoryOrdered ==
  /\ vectors = chunk
  /\ successful \o Pending = FirstPosts(next - 1)
  /\ IF pc = "collect" /\ batch = <<>> THEN next - 1 <= Len(Encoded) ELSE successful = Encoded
  /\ pc = "flush" => batch = <<>>

OrderInv ==
  /\ TypeInv /\ successful \in Seq(Posts) /\ next \in Nat \ {0}
  /\ ~torn => FilesOrdered /\ (pc # "stopped" => MemoryOrdered)

LEMMA FirstIsSeq ==
  ASSUME NEW n \in Nat
  PROVE  /\ FirstPosts(n) \in Seq(Nat) /\ Len(FirstPosts(n)) = n
         /\ \A i \in 1 .. n : FirstPosts(n)[i] = i
         /\ ToSet(FirstPosts(n)) = 1 .. n
<1>1. /\ FirstPosts(n) \in Seq(Nat) /\ Len(FirstPosts(n)) = n
      /\ DOMAIN FirstPosts(n) = 1 .. n /\ \A i \in 1 .. n : FirstPosts(n)[i] = i
  BY DEF FirstPosts
<1>2. ToSet(FirstPosts(n)) = 1 .. n
  BY <1>1 DEF ToSet
<1> QED BY <1>1, <1>2

LEMMA NextPost ==
  ASSUME NEW n \in Nat, NEW m \in Nat, m = n + 1
  PROVE  Append(FirstPosts(n), m) = FirstPosts(m)
<1>1. /\ FirstPosts(n) \in Seq(Nat) /\ Len(FirstPosts(n)) = n
      /\ FirstPosts(m) \in Seq(Nat) /\ Len(FirstPosts(m)) = m
      /\ \A i \in 1 .. n : FirstPosts(n)[i] = i
      /\ \A i \in 1 .. m : FirstPosts(m)[i] = i
  BY FirstIsSeq
<1>2. /\ Append(FirstPosts(n), m) \in Seq(Nat) /\ Len(Append(FirstPosts(n), m)) = m
      /\ Append(FirstPosts(n), m)[m] = m
      /\ \A i \in 1 .. n : Append(FirstPosts(n), m)[i] = i
  BY <1>1, AppendProperties
<1>3. \A i \in 1 .. m : Append(FirstPosts(n), m)[i] = FirstPosts(m)[i]
  BY <1>1, <1>2
<1> QED BY <1>1, <1>2, <1>3, SeqEqual

(* What begins a list of the first posts is one.                            *)
LEMMA Beginning ==
  ASSUME NEW s \in Seq(Posts), NEW t \in Seq(Posts), NEW n \in Nat, s \o t = FirstPosts(n)
  PROVE  s = FirstPosts(Len(s))
<1>1. /\ Len(s) \in Nat /\ Len(t) \in Nat /\ Len(s \o t) = Len(s) + Len(t)
      /\ \A i \in 1 .. Len(s) : i \in 1 .. Len(s) + Len(t) /\ (s \o t)[i] = s[i]
  BY ConcatProperties, LenProperties
<1>2. Len(s) + Len(t) = n /\ \A i \in 1 .. n : (s \o t)[i] = i
  BY <1>1, FirstIsSeq
<1>3. \A i \in 1 .. Len(s) : s[i] = i
  BY <1>1, <1>2
<1>4. s = [i \in 1 .. Len(s) |-> s[i]]
  BY LenProperties
<1>5. s = FirstPosts(Len(s))
  BY <1>3, <1>4 DEF FirstPosts
<1> QED BY <1>5

LEMMA SetOfConcat ==
  ASSUME NEW S, NEW s \in Seq(S), NEW t \in Seq(S)
  PROVE  ToSet(s \o t) = ToSet(s) \cup ToSet(t)
<1>1. /\ Len(s) \in Nat /\ Len(t) \in Nat /\ s \o t \in Seq(S)
      /\ DOMAIN s = 1 .. Len(s) /\ DOMAIN t = 1 .. Len(t)
      /\ DOMAIN (s \o t) = 1 .. Len(s) + Len(t)
  BY ConcatProperties, LenProperties
<1>2. \A i \in 1 .. Len(s) + Len(t) :
        (s \o t)[i] = IF i <= Len(s) THEN s[i] ELSE t[i - Len(s)]
  BY ConcatProperties
<1>3. ASSUME NEW x \in ToSet(s) \cup ToSet(t) PROVE x \in ToSet(s \o t)
  <2>1. CASE x \in ToSet(s)
    <3>1. PICK i \in 1 .. Len(s) : x = s[i]
      BY <1>1, <2>1 DEF ToSet
    <3>2. i \in 1 .. Len(s) + Len(t) /\ (s \o t)[i] = x
      BY <1>1, <1>2, <3>1
    <3> QED BY <1>1, <3>2 DEF ToSet
  <2>2. CASE x \in ToSet(t)
    <3>1. PICK i \in 1 .. Len(t) : x = t[i]
      BY <1>1, <2>2 DEF ToSet
    <3>2. /\ Len(s) + i \in 1 .. Len(s) + Len(t) /\ ~(Len(s) + i <= Len(s))
          /\ Len(s) + i - Len(s) = i
      BY <1>1, <3>1
    <3>3. (s \o t)[Len(s) + i] = x
      BY <1>2, <3>1, <3>2
    <3> QED BY <1>1, <3>2, <3>3 DEF ToSet
  <2> QED BY <2>1, <2>2
<1>4. ASSUME NEW x \in ToSet(s \o t) PROVE x \in ToSet(s) \cup ToSet(t)
  <2>1. PICK i \in 1 .. Len(s) + Len(t) : x = (s \o t)[i]
    BY <1>1 DEF ToSet
  <2>2. CASE i <= Len(s)
    <3>1. i \in 1 .. Len(s) /\ x = s[i]
      BY <1>1, <1>2, <2>1, <2>2
    <3> QED BY <1>1, <3>1 DEF ToSet
  <2>3. CASE ~(i <= Len(s))
    <3>1. i - Len(s) \in 1 .. Len(t) /\ x = t[i - Len(s)]
      BY <1>1, <1>2, <2>1, <2>3
    <3> QED BY <1>1, <3>1 DEF ToSet
  <2> QED BY <2>2, <2>3
<1> QED BY <1>3, <1>4

(* The files hold posts only, so that the position behind the last post is  *)
(* behind those of the files.                                               *)
LEMMA EncodedArePosts ==
  ASSUME TypeInv, FilesOrdered
  PROVE  /\ Encoded \in Seq(Posts) /\ Len(Encoded) \in Nat
         /\ ToSet(Encoded) = 1 .. Len(Encoded) /\ 1 .. Len(Encoded) \subseteq Posts
<1>1. Encoded \in Seq(Posts)
  BY FlattenTyped DEF TypeInv, Encoded
<1>2. Len(Encoded) \in Nat /\ \A i \in 1 .. Len(Encoded) : Encoded[i] \in Posts
  BY <1>1, ElementOfSeq, LenProperties
<1>3. /\ ToSet(Encoded) = 1 .. Len(Encoded)
      /\ \A i \in 1 .. Len(Encoded) : Encoded[i] = i
  BY <1>2, FirstIsSeq DEF FilesOrdered
<1> QED BY <1>1, <1>2, <1>3

(* A chunk is written when all that is encoded is among the successful      *)
(* posts, and its posts are those that come next.                           *)
LEMMA WriteKeepsOrder ==
  ASSUME TypeInv, FilesOrdered, MemoryOrdered, successful = Encoded, next \in Nat \ {0},
         NEW ps \in Seq(Posts), NEW left \in Seq(Posts),
         chunk' = Written(ps), successful' = successful \o ps,
         (successful \o ps) \o left = FirstPosts(next - 1)
  PROVE  /\ chunk' = Append(vectors, ps)
         /\ successful' = Encoded'
         /\ Encoded' = FirstPosts(Len(Encoded'))
         /\ ToSet(Encoded') = ToSet(Encoded) \cup ToSet(ps)
<1>1. vectors = chunk /\ chunk \in Seq(Seq(Posts))
  BY DEF MemoryOrdered, TypeInv
<1>2. chunk' = Append(vectors, ps)
  BY <1>1, WrittenAdds
<1>3. Encoded' = Encoded \o ps
  BY <1>1, <1>2, FlattenAppend DEF Encoded
<1>4. Encoded \in Seq(Posts) /\ Encoded \o ps \in Seq(Posts)
  BY EncodedArePosts, ConcatProperties
<1>5. ToSet(Encoded') = ToSet(Encoded) \cup ToSet(ps)
  BY <1>3, <1>4, SetOfConcat
<1>6. Encoded \o ps = FirstPosts(Len(Encoded \o ps))
  <2>1. next - 1 \in Nat /\ (Encoded \o ps) \o left = FirstPosts(next - 1)
    OBVIOUS
  <2> QED BY <1>4, <2>1, Beginning
<1> QED BY <1>2, <1>3, <1>5, <1>6

LEMMA OrderInit == Init => OrderInv
<1> SUFFICES ASSUME Init PROVE OrderInv
  OBVIOUS
<1>1. /\ chunk = <<>> /\ completed = {} /\ pc = "stopped" /\ next = 1 /\ successful = <<>>
  BY DEF Init
<1>2. Encoded = <<>> /\ Len(Encoded) = 0 /\ successful \in Seq(Posts)
  BY <1>1, FlattenEmpty, EmptySeq DEF Encoded
<1>3. FirstPosts(0) = <<>> /\ ToSet(<<>>) = {}
  BY DEF FirstPosts, ToSet
<1>4. FilesOrdered
  BY <1>1, <1>2, <1>3 DEF FilesOrdered, Unrecorded
<1> QED BY <1>1, <1>2, <1>4, TypeInit DEF OrderInv

LEMMA OrderTypes ==
  ASSUME OrderInv, Next
  PROVE  TypeInv' /\ successful' \in Seq(Posts) /\ next' \in Nat \ {0}
<1> USE DEF files, memory
<1>0. TypeInv /\ successful \in Seq(Posts) /\ next \in Nat \ {0}
  BY DEF OrderInv
<1>1. TypeInv'
  BY <1>0, TypeStep
<1>2. successful' \in Seq(Posts)
  <2>1. CASE Collect
    <3>1. next \in Posts => Append(successful, next) \in Seq(Posts)
      BY <1>0
    <3>2. next \in Posts /\ successful' \in {successful, Append(successful, next)}
      BY <2>1 DEF Collect
    <3> QED BY <1>0, <3>1, <3>2
  <2>2. CASE EncodeBatch
    <3>1. successful \o batch \in Seq(Posts)
      BY <1>0, ConcatProperties DEF TypeInv
    <3>2. successful' \in {successful, successful \o batch}
      BY <2>2 DEF EncodeBatch
    <3> QED BY <1>0, <3>1, <3>2
  <2>3. CASE EncodeSingle
    <3>1. Head(rest) \in Posts
      BY <1>0, <2>3, HeadTailProperties DEF EncodeSingle, TypeInv
    <3>2. Append(successful, Head(rest)) \in Seq(Posts)
      BY <1>0, <3>1
    <3>3. successful' \in {successful, Append(successful, Head(rest))}
      BY <2>3 DEF EncodeSingle
    <3> QED BY <1>0, <3>2, <3>3
  <2>4. CASE Resume
    BY <2>4, EmptySeq DEF Resume
  <2>5. CASE BatchIds \/ SingleId \/ Buffer \/ Flush \/ Die
    BY <1>0, <2>5 DEF BatchIds, SingleId, Buffer, Flush, Die
  <2> QED BY <2>1, <2>2, <2>3, <2>4, <2>5 DEF Next
<1>3. next' \in {1, next, next + 1}
  BY DEF Next, Resume, Collect, EncodeBatch, BatchIds, EncodeSingle, SingleId, Buffer, Flush, Die
<1> QED BY <1>0, <1>1, <1>2, <1>3

LEMMA OrderNext == OrderInv /\ Next => OrderInv'
<1> SUFFICES ASSUME OrderInv, Next, ~torn'
             PROVE  FilesOrdered' /\ (pc' # "stopped" => MemoryOrdered')
  BY OrderTypes DEF OrderInv
<1> USE DEF files, memory
<1>0. TypeInv /\ successful \in Seq(Posts) /\ next \in Nat \ {0} /\ next - 1 \in Nat
  BY DEF OrderInv
<1>a. ~torn
  BY DEF Next, Resume, Collect, EncodeBatch, BatchIds, EncodeSingle, SingleId, Buffer, Flush, Die
<1>b. FilesOrdered /\ (pc # "stopped" => MemoryOrdered)
  BY <1>a DEF OrderInv
<1>c. /\ Encoded \in Seq(Posts) /\ Len(Encoded) \in Nat
      /\ ToSet(Encoded) = 1 .. Len(Encoded) /\ 1 .. Len(Encoded) \subseteq Posts
      /\ Encoded = FirstPosts(Len(Encoded))
      /\ completed \cup Unrecorded = 1 .. Len(Encoded)
  BY <1>0, <1>b, EncodedArePosts DEF FilesOrdered
<1>d. ASSUME chunk' = chunk, completed' \cup Unrecorded' = completed \cup Unrecorded
      PROVE  Encoded' = Encoded /\ FilesOrdered'
  BY <1>b, <1>d DEF FilesOrdered, Encoded
<1>1. CASE Resume
  <2>1. /\ chunk' = chunk /\ completed' = completed /\ vectors' = chunk /\ pc' = "collect"
        /\ pc \in {"stopped", "over"} /\ next' = 1 /\ batch' = <<>> /\ successful' = <<>>
    BY <1>1 DEF Resume
  <2>2. FilesOrdered' /\ Encoded' = Encoded
    BY <1>d, <2>1 DEF Unrecorded
  <2>3. <<>> \o <<>> = FirstPosts(0) /\ 1 - 1 = 0
    BY DEF FirstPosts
  <2>4. successful' \o Pending' = FirstPosts(next' - 1)
    BY <2>1, <2>3 DEF Pending
  <2>5. MemoryOrdered'
    BY <1>c, <2>1, <2>2, <2>4 DEF MemoryOrdered
  <2> QED BY <2>2, <2>5
<1>2. CASE Collect
  <2>1. /\ pc = "collect" /\ pc' = "collect" /\ next' = next + 1 /\ next \in Posts
        /\ chunk' = chunk /\ completed' = completed /\ vectors' = vectors
    BY <1>2 DEF Collect
  <2>2. FilesOrdered' /\ Encoded' = Encoded
    BY <1>d, <2>1 DEF Unrecorded
  <2>3. completed = 1 .. Len(Encoded)
    BY <1>c, <2>1 DEF Unrecorded
  <2>4. /\ vectors = chunk /\ successful \o batch = FirstPosts(next - 1)
        /\ IF batch = <<>> THEN next - 1 <= Len(Encoded) ELSE successful = Encoded
    BY <1>b, <2>1 DEF MemoryOrdered, Pending
  <2>5. Append(FirstPosts(next - 1), next) = FirstPosts(next)
    <3>1. next \in Nat /\ next = (next - 1) + 1
      BY <1>0
    <3> QED BY <1>0, <3>1, NextPost
  <2>6. batch \in Seq(Posts) /\ Len(successful) + Len(batch) = next - 1
    <3>1. batch \in Seq(Posts)
      BY <1>0 DEF TypeInv
    <3>2. /\ successful \in Seq(Posts) /\ next - 1 \in Nat
          /\ successful \o batch = FirstPosts(next - 1)
      BY <1>0, <2>4
    <3>3. Len(successful \o batch) = Len(successful) + Len(batch)
      BY <3>1, <3>2, ConcatProperties
    <3>4. Len(FirstPosts(next - 1)) = next - 1
      BY <3>2, FirstIsSeq
    <3> QED BY <3>1, <3>2, <3>3, <3>4
  <2>7. CASE next \in completed
    <3>1. batch' = batch /\ successful' = Append(successful, next)
      BY <1>2, <2>7 DEF Collect
    <3>2. batch = <<>>
      <4> SUFFICES ASSUME successful = Encoded PROVE FALSE
        BY <2>4
      <4>1. Len(batch) \in Nat /\ next <= Len(Encoded) /\ Len(successful) = Len(Encoded)
        BY <1>c, <2>3, <2>6, <2>7, LenProperties
      <4> QED BY <1>0, <1>c, <2>6, <4>1
    <3>3. /\ successful \o <<>> = successful
          /\ Append(successful, next) \o <<>> = Append(successful, next)
      <4>1. Append(successful, next) \in Seq(Posts)
        BY <1>0, <2>1
      <4> QED BY <1>0, <4>1, ConcatEmptySeq
    <3>4. Append(successful, next) = FirstPosts(next)
      BY <2>4, <2>5, <3>2, <3>3
    <3>5. successful' \o Pending' = FirstPosts(next' - 1)
      <4>1. next' - 1 = next /\ Pending' = <<>>
        BY <1>0, <2>1, <3>1, <3>2 DEF Pending
      <4> QED BY <3>1, <3>3, <3>4, <4>1
    <3>6. next' - 1 <= Len(Encoded)
      BY <1>0, <1>c, <2>1, <2>3, <2>7
    <3> QED BY <2>1, <2>2, <2>4, <3>1, <3>2, <3>5, <3>6 DEF MemoryOrdered
  <2>8. CASE next \notin completed
    <3>1. batch' = Append(batch, next) /\ successful' = successful
      BY <1>2, <1>a, <2>8 DEF Collect
    <3>2. next > Len(Encoded)
      BY <1>0, <1>c, <2>3, <2>8
    <3>3. successful = Encoded
      <4> SUFFICES ASSUME batch = <<>> PROVE successful = Encoded
        BY <2>4
      <4>1. next - 1 = Len(Encoded)
        BY <1>0, <1>c, <2>4, <3>2
      <4>2. successful \o <<>> = successful
        BY <1>0, ConcatEmptySeq
      <4> QED BY <1>c, <2>4, <4>1, <4>2
    <3>4. successful \o Append(batch, next) = Append(successful \o batch, next)
      <4>1. /\ <<next>> \in Seq(Posts) /\ successful \o batch \in Seq(Posts)
            /\ Append(batch, next) = batch \o <<next>>
        BY <1>0, <2>1, <2>6, AppendIsConcat, ConcatProperties
      <4>2. Append(successful \o batch, next) = (successful \o batch) \o <<next>>
        BY <2>1, <4>1, AppendIsConcat
      <4> QED BY <1>0, <2>6, <4>1, <4>2, ConcatAssociative
    <3>5. successful' \o Pending' = FirstPosts(next' - 1)
      <4>1. next' - 1 = next /\ Pending' = Append(batch, next)
        BY <1>0, <2>1, <3>1 DEF Pending
      <4> QED BY <2>4, <2>5, <3>1, <3>4, <4>1
    <3>6. batch' # <<>>
      <4>1. Append(batch, next) # <<>>
        BY <2>1, <2>6, AppendProperties
      <4> QED BY <3>1, <4>1
    <3> QED BY <2>1, <2>2, <2>4, <3>1, <3>3, <3>5, <3>6 DEF MemoryOrdered
  <2> QED BY <2>7, <2>8
<1>3. CASE EncodeBatch
  <2>1. /\ pc = "collect" /\ batch # <<>> /\ batch' = batch /\ next' = next
        /\ completed' = completed
    BY <1>3 DEF EncodeBatch
  <2>2. /\ vectors = chunk /\ successful \o batch = FirstPosts(next - 1)
        /\ successful = Encoded /\ completed = ToSet(Encoded)
    BY <1>b, <2>1 DEF MemoryOrdered, FilesOrdered, Pending, Unrecorded
  <2>3. batch \in Seq(Posts) /\ successful \o batch \in Seq(Posts)
    BY <1>0, ConcatProperties DEF TypeInv
  <2>4. (successful \o batch) \o <<>> = successful \o batch
    BY <2>3, ConcatEmptySeq
  <2>5. CASE /\ chunk' = Written(batch) /\ vectors' = Append(vectors, batch)
             /\ successful' = successful \o batch /\ pc' = "ids"
    <3>1. /\ chunk' = vectors' /\ successful' = Encoded'
          /\ Encoded' = FirstPosts(Len(Encoded'))
          /\ ToSet(Encoded') = ToSet(Encoded) \cup ToSet(batch)
      <4>1. <<>> \in Seq(Posts) /\ (successful \o batch) \o <<>> = FirstPosts(next - 1)
        BY <2>2, <2>4, EmptySeq
      <4> QED BY <1>0, <1>b, <2>1, <2>2, <2>3, <2>5, <4>1, WriteKeepsOrder
    <3>2. FilesOrdered'
      BY <2>1, <2>2, <2>5, <3>1 DEF FilesOrdered, Unrecorded
    <3>3. successful' \o Pending' = FirstPosts(next' - 1)
      BY <2>1, <2>2, <2>4, <2>5 DEF Pending
    <3> QED BY <2>5, <3>1, <3>2, <3>3 DEF MemoryOrdered
  <2>6. CASE rest' = batch /\ pc' = "single" /\ UNCHANGED <<chunk, vectors, successful>>
    <3>1. FilesOrdered' /\ Encoded' = Encoded
      BY <1>d, <2>1, <2>6 DEF Unrecorded
    <3>2. successful' \o Pending' = FirstPosts(next' - 1)
      BY <2>1, <2>2, <2>6 DEF Pending, Left
    <3> QED BY <2>2, <2>6, <3>1, <3>2 DEF MemoryOrdered
  <2> QED BY <1>3, <2>5, <2>6 DEF EncodeBatch
<1>4. CASE BatchIds
  <2>1. /\ pc = "ids" /\ completed' = completed \cup ToSet(batch) /\ pc' = "buffer"
        /\ UNCHANGED <<chunk, next, batch, vectors, successful>>
    BY <1>4 DEF BatchIds
  <2>2. FilesOrdered' /\ Encoded' = Encoded
    BY <1>d, <2>1 DEF Unrecorded
  <2>3. /\ vectors = chunk /\ successful \o <<>> = FirstPosts(next - 1)
        /\ successful = Encoded
    BY <1>b, <2>1 DEF MemoryOrdered, Pending
  <2> QED BY <2>1, <2>2, <2>3 DEF MemoryOrdered, Pending
<1>5. CASE EncodeSingle
  <2>1. /\ pc = "single" /\ rest # <<>> /\ pc' = "singleId" /\ rest' = rest /\ next' = next
        /\ chunk' = Written(<<Head(rest)>>) /\ vectors' = Append(vectors, <<Head(rest)>>)
        /\ successful' = Append(successful, Head(rest)) /\ completed' = completed
    BY <1>5 DEF EncodeSingle
  <2>2. /\ vectors = chunk /\ successful \o rest = FirstPosts(next - 1)
        /\ successful = Encoded /\ completed = ToSet(Encoded)
    BY <1>b, <2>1 DEF MemoryOrdered, FilesOrdered, Pending, Left, Unrecorded
  <2>3. /\ rest \in Seq(Posts) /\ Head(rest) \in Posts /\ Tail(rest) \in Seq(Posts)
        /\ <<Head(rest)>> \in Seq(Posts)
    BY <1>0, <2>1, HeadTailProperties DEF TypeInv
  <2>4. Append(successful, Head(rest)) = successful \o <<Head(rest)>>
    BY <1>0, <2>3, AppendIsConcat
  <2>5. Append(successful, Head(rest)) \o Tail(rest) = FirstPosts(next - 1)
    BY <1>0, <2>1, <2>2, <2>3, ShiftHead
  <2>6. /\ chunk' = vectors' /\ successful' = Encoded'
        /\ Encoded' = FirstPosts(Len(Encoded'))
        /\ ToSet(Encoded') = ToSet(Encoded) \cup ToSet(<<Head(rest)>>)
    <3>1. /\ successful' = successful \o <<Head(rest)>>
          /\ (successful \o <<Head(rest)>>) \o Tail(rest) = FirstPosts(next - 1)
      BY <2>1, <2>4, <2>5
    <3> QED BY <1>0, <1>b, <2>1, <2>2, <2>3, <3>1, WriteKeepsOrder
  <2>7. ToSet(<<Head(rest)>>) = {Head(rest)}
    BY DEF ToSet
  <2>8. FilesOrdered'
    BY <2>1, <2>2, <2>6, <2>7 DEF FilesOrdered, Unrecorded
  <2>9. successful' \o Pending' = FirstPosts(next' - 1)
    BY <2>1, <2>5 DEF Pending, Left
  <2> QED BY <2>1, <2>6, <2>8, <2>9 DEF MemoryOrdered
<1>6. CASE SingleId
  <2>1. /\ pc = "singleId" /\ completed' = completed \cup {Head(rest)} /\ pc' = "single"
        /\ rest' = Tail(rest) /\ UNCHANGED <<chunk, next, batch, vectors, successful>>
    BY <1>6 DEF SingleId
  <2>2. FilesOrdered' /\ Encoded' = Encoded
    BY <1>d, <2>1 DEF Unrecorded
  <2>3. /\ vectors = chunk /\ successful \o Tail(rest) = FirstPosts(next - 1)
        /\ successful = Encoded
    BY <1>b, <2>1 DEF MemoryOrdered, Pending, Left
  <2>4. successful' \o Pending' = FirstPosts(next' - 1)
    BY <2>1, <2>3 DEF Pending, Left
  <2> QED BY <2>1, <2>2, <2>3, <2>4 DEF MemoryOrdered
<1>7. CASE Buffer
  <2>1. /\ pc \in {"buffer", "single"} /\ (pc = "single" => rest = <<>>)
        /\ batch' = <<>> /\ pc' \in {"flush", "collect"}
        /\ UNCHANGED <<chunk, completed, next, vectors, successful>>
    BY <1>7 DEF Buffer
  <2>2. FilesOrdered' /\ Encoded' = Encoded
    BY <1>d, <2>1 DEF Unrecorded
  <2>3. /\ vectors = chunk /\ successful \o <<>> = FirstPosts(next - 1)
        /\ successful = Encoded
    BY <1>b, <2>1 DEF MemoryOrdered, Pending, Left
  <2>4. Len(Encoded) = next - 1
    <3>1. Len(FirstPosts(next - 1)) = next - 1 /\ successful \o <<>> = successful
      BY <1>0, FirstIsSeq, ConcatEmptySeq
    <3> QED BY <2>3, <3>1
  <2>5. successful' \o Pending' = FirstPosts(next' - 1)
    BY <2>1, <2>3 DEF Pending
  <2>6. next' - 1 <= Len(Encoded)
    BY <1>0, <1>c, <2>1, <2>4
  <2> QED BY <2>1, <2>2, <2>3, <2>5, <2>6 DEF MemoryOrdered
<1>8. CASE Flush
  <2>1. UNCHANGED <<chunk, completed, next, batch, vectors, successful>>
    BY <1>8 DEF Flush
  <2>2. CASE pc = "flush"
    <3>1. pc' = "collect"
      BY <1>8, <2>2 DEF Flush
    <3>2. FilesOrdered' /\ Encoded' = Encoded
      BY <1>d, <2>1, <2>2, <3>1 DEF Unrecorded
    <3>3. /\ vectors = chunk /\ successful \o <<>> = FirstPosts(next - 1)
          /\ successful = Encoded /\ batch = <<>>
      BY <1>b, <2>2 DEF MemoryOrdered, Pending
    <3>4. Len(Encoded) = next - 1
      <4>1. Len(FirstPosts(next - 1)) = next - 1 /\ successful \o <<>> = successful
        BY <1>0, FirstIsSeq, ConcatEmptySeq
      <4> QED BY <3>3, <4>1
    <3>5. next' - 1 <= Len(Encoded) /\ successful' \o Pending' = FirstPosts(next' - 1)
      BY <1>0, <1>c, <2>1, <3>1, <3>3, <3>4 DEF Pending
    <3> QED BY <2>1, <3>1, <3>2, <3>3, <3>5 DEF MemoryOrdered
  <2>3. CASE pc = "collect" /\ next \notin Posts /\ batch = <<>>
    <3>1. pc' = "over"
      BY <1>8, <2>3 DEF Flush
    <3>2. FilesOrdered' /\ Encoded' = Encoded
      BY <1>d, <2>1, <2>3, <3>1 DEF Unrecorded
    <3>3. /\ vectors = chunk /\ successful \o <<>> = FirstPosts(next - 1)
          /\ next - 1 <= Len(Encoded)
      BY <1>b, <2>3 DEF MemoryOrdered, Pending
    <3>4. next - 1 = Len(Encoded)
      <4>1. next \notin 1 .. Len(Encoded)
        BY <1>c, <2>3
      <4> QED BY <1>0, <1>c, <3>3, <4>1
    <3>5. successful = Encoded
      <4>1. successful \o <<>> = successful
        BY <1>0, ConcatEmptySeq
      <4> QED BY <1>c, <3>3, <3>4, <4>1
    <3>6. successful' \o Pending' = FirstPosts(next' - 1)
      BY <2>1, <3>1, <3>3 DEF Pending
    <3> QED BY <2>1, <3>1, <3>2, <3>3, <3>5, <3>6 DEF MemoryOrdered
  <2> QED BY <1>8, <2>2, <2>3 DEF Flush
<1>9. CASE Die
  <2>1. /\ pc' = "stopped" /\ pc \notin {"ids", "singleId"}
        /\ UNCHANGED <<chunk, completed>>
    BY <1>9 DEF Die
  <2>2. FilesOrdered'
    BY <1>d, <2>1 DEF Unrecorded
  <2> QED BY <2>1, <2>2
<1> QED BY <1>1, <1>2, <1>3, <1>4, <1>5, <1>6, <1>7, <1>8, <1>9 DEF Next

LEMMA OrderStep == OrderInv /\ [Next]_vars => OrderInv'
<1>1. ASSUME OrderInv, UNCHANGED vars PROVE OrderInv'
  <2>1. /\ chunk' = chunk /\ completed' = completed /\ pc' = pc /\ next' = next
        /\ batch' = batch /\ rest' = rest /\ vectors' = vectors
        /\ successful' = successful /\ torn' = torn
    BY <1>1 DEF vars, files, memory
  <2>2. TypeInv'
    BY <1>1, TypeStep DEF OrderInv
  <2>3. Encoded' = Encoded /\ Pending' = Pending /\ Unrecorded' = Unrecorded
    BY <2>1 DEF Encoded, Pending, Left, Unrecorded
  <2>4. FilesOrdered => FilesOrdered'
    BY <2>1, <2>3 DEF FilesOrdered
  <2>5. MemoryOrdered => MemoryOrdered'
    BY <2>1, <2>3 DEF MemoryOrdered
  <2> QED BY <1>1, <2>1, <2>2, <2>4, <2>5 DEF OrderInv
<1> QED BY <1>1, OrderNext

LEMMA OrderIsEnough == OrderInv => RowsMatchPosts
BY DEF OrderInv, MemoryOrdered, Encoded, RowsMatchPosts

(* run_async returns a row for each successful post, in the same order: the *)
(* files hold the posts from the first on, and a resume that has read past  *)
(* the completed ones goes on where they end.                               *)
THEOREM RowsInOrder == Spec => []RowsMatchPosts
BY OrderInit, OrderStep, OrderIsEnough, PTL DEF Spec
=============================================================================
