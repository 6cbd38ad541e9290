---------------------------- MODULE EmbeddingRun ----------------------------
(***************************************************************************)
(* The embedding of posts: chunk files, the file of completed ids and the  *)
(* table post_embeddings, written one after the other for each batch.  A   *)
(* batch that fails is encoded post by post; the process may die between   *)
(* any two writes and is then run again with resume.                       *)
(***************************************************************************)
EXTENDS Integers, Sequences, FiniteSets, SequencesExt

CONSTANTS PostCount, BatchSize, SaveInterval, MaxFaults

VARIABLES
  chunk,      (* chunk files: the posts whose vectors they hold, in their order *)
  completed,  (* completed_ids.txt                                              *)
  table,      (* post_embeddings: the post whose vector is stored for each post *)
  pc,         (* "stopped", "collect", "encode", "ids", "single", "singleId",   *)
              (* "buffer", "flush", "over"                                      *)
  next,       (* position in the dataset                                        *)
  batch, rest,         (* current_batch_posts; those still to encode one by one *)
  vectors,    (* embeddings_chunks in memory                                    *)
  successful, (* successful_posts                                               *)
  fresh,      (* what _process_batch returns                                    *)
  bufferVectors, bufferPosts,   (* db_buffer_embs, db_buffer_posts              *)
  torn,       (* history: a chunk was left without its ids, or a post failed    *)
  faults

files  == <<chunk, completed, table>>
memory == <<next, batch, rest, vectors, successful, fresh, bufferVectors, bufferPosts>>
vars   == <<files, pc, memory, torn, faults>>

Posts == 1 .. PostCount

Init ==
  /\ chunk = <<>> /\ completed = {} /\ table = [p \in Posts |-> 0]
  /\ pc = "stopped" /\ next = 1 /\ batch = <<>> /\ rest = <<>>
  /\ vectors = <<>> /\ successful = <<>> /\ fresh = <<>>
  /\ bufferVectors = <<>> /\ bufferPosts = <<>>
  /\ torn = FALSE /\ faults = 0

-----------------------------------------------------------------------------
(* Faulty variant: the chunks of earlier runs are not read.                 *)
ResumeWithoutChunks ==
  /\ pc \in {"stopped", "over"}
  /\ vectors' = <<>>
  /\ next' = 1 /\ pc' = "collect"
  /\ batch' = <<>> /\ rest' = <<>> /\ successful' = <<>> /\ fresh' = <<>>
  /\ bufferVectors' = <<>> /\ bufferPosts' = <<>>
  /\ UNCHANGED <<files, torn, faults>>

(* run_async: what is known from earlier runs.                              *)
Resume ==
  /\ pc \in {"stopped", "over"}
  /\ vectors' = chunk
  /\ next' = 1 /\ pc' = "collect"
  /\ batch' = <<>> /\ rest' = <<>> /\ successful' = <<>> /\ fresh' = <<>>
  /\ bufferVectors' = <<>> /\ bufferPosts' = <<>>
  /\ UNCHANGED <<files, torn, faults>>

(* Faulty variant: a post completed before is not among the successful ones.*)
CollectUnfinished ==
  /\ pc = "collect" /\ next \in Posts /\ Len(batch) < BatchSize
  /\ next' = next + 1
  /\ batch' = IF next \in completed THEN batch ELSE Append(batch, next)
  /\ UNCHANGED <<files, pc, rest, vectors, successful, fresh, bufferVectors,
                 bufferPosts, torn, faults>>

(* The next post: completed before, unreadable, or part of the batch.       *)
Collect ==
  /\ pc = "collect" /\ next \in Posts /\ Len(batch) < BatchSize
  /\ next' = next + 1
  /\ \/ /\ next \in completed
        /\ successful' = Append(successful, next)
        /\ UNCHANGED <<batch, torn, faults>>
     \/ /\ next \notin completed
        /\ batch' = Append(batch, next)
        /\ UNCHANGED <<successful, torn, faults>>
     \/ /\ next \notin completed /\ faults < MaxFaults
        /\ torn' = TRUE /\ faults' = faults + 1
        /\ UNCHANGED <<successful, batch>>
  /\ UNCHANGED <<files, pc, rest, vectors, fresh, bufferVectors, bufferPosts>>

(* np.save: the file number is the number of chunks in memory.              *)
Written(content) ==
  LET i == Len(vectors) + 1
  IN  IF i <= Len(chunk) THEN [chunk EXCEPT ![i] = content] ELSE Append(chunk, content)

(* _process_batch: the whole batch, and its ids, ...                        *)
EncodeBatch ==
  /\ pc = "collect" /\ batch # <<>> /\ (Len(batch) = BatchSize \/ next \notin Posts)
  /\ \/ /\ chunk' = Written(batch) /\ vectors' = Append(vectors, batch)
        /\ successful' = successful \o batch
        /\ pc' = "ids"
        /\ UNCHANGED <<rest, fresh, faults>>
     \/ /\ faults < MaxFaults /\ faults' = faults + 1
        /\ rest' = batch /\ fresh' = <<>> /\ pc' = "single"
        /\ UNCHANGED <<chunk, vectors, successful>>
  /\ UNCHANGED <<completed, table, next, batch, bufferVectors, bufferPosts, torn>>

BatchIds ==
  /\ pc = "ids"
  /\ \/ /\ completed' = completed \cup ToSet(batch)
        /\ fresh' = batch /\ pc' = "buffer"
        /\ UNCHANGED <<rest, torn, faults>>
     \/ /\ faults < MaxFaults /\ faults' = faults + 1 /\ torn' = TRUE
        /\ rest' = batch /\ fresh' = <<>> /\ pc' = "single"
        /\ UNCHANGED completed
  /\ UNCHANGED <<chunk, table, next, batch, vectors, successful,
                 bufferVectors, bufferPosts>>

(* ... or one post after the other, a chunk each.                           *)
EncodeSingle ==
  /\ pc = "single" /\ rest # <<>>
  /\ LET p == Head(rest) IN
     \/ /\ chunk' = Written(<<p>>) /\ vectors' = Append(vectors, <<p>>)
        /\ successful' = Append(successful, p) /\ fresh' = Append(fresh, p)
        /\ pc' = "singleId"
        /\ UNCHANGED <<rest, torn, faults>>
     \/ /\ faults < MaxFaults
        /\ rest' = Tail(rest) /\ torn' = TRUE /\ faults' = faults + 1
        /\ UNCHANGED <<chunk, vectors, successful, fresh, pc>>
  /\ UNCHANGED <<completed, table, next, batch, bufferVectors, bufferPosts>>

SingleId ==
  /\ pc = "singleId"
  /\ \/ completed' = completed \cup {Head(rest)} /\ UNCHANGED <<torn, faults>>
     \/ /\ faults < MaxFaults /\ faults' = faults + 1 /\ torn' = TRUE
        /\ UNCHANGED completed
  /\ rest' = Tail(rest) /\ pc' = "single"
  /\ UNCHANGED <<chunk, table, next, batch, vectors, successful, fresh,
                 bufferVectors, bufferPosts>>

(* The batch is added to the buffer with all its posts.                     *)
Buffer ==
  /\ pc \in {"buffer", "single"} /\ (pc = "single" => rest = <<>>)
  /\ bufferVectors' = bufferVectors \o fresh
  /\ bufferPosts' = IF fresh = <<>> THEN bufferPosts ELSE bufferPosts \o batch
  /\ batch' = <<>>
  /\ pc' = IF Len(bufferPosts') >= SaveInterval THEN "flush" ELSE "collect"
  /\ UNCHANGED <<files, next, rest, vectors, successful, fresh, torn, faults>>

(* Faulty variant: lengths are not compared, and the longer list is cut.    *)
AnyLength == TRUE

(* save_post_embeddings_batch refuses different lengths.                    *)
SameLength == Len(bufferVectors) = Len(bufferPosts)

(* Vectors and posts are paired by position.                                *)
Rows == [p \in Posts |->
  IF p \in {bufferPosts[i] : i \in DOMAIN bufferVectors}
  THEN bufferVectors[CHOOSE i \in DOMAIN bufferPosts : bufferPosts[i] = p] ELSE table[p]]

(* _flush_to_db: an error of the database is logged, and the buffer is      *)
(* dropped all the same.                                                    *)
Flush ==
  /\ \/ pc = "flush"
     \/ pc = "collect" /\ next \notin Posts /\ batch = <<>>
  /\ \/ table' = (IF SameLength THEN Rows ELSE table) /\ UNCHANGED faults
     \/ faults < MaxFaults /\ faults' = faults + 1 /\ UNCHANGED table
  /\ bufferVectors' = <<>> /\ bufferPosts' = <<>>
  /\ pc' = IF pc = "flush" THEN "collect" ELSE "over"
  /\ UNCHANGED <<chunk, completed, next, batch, rest, vectors, successful, fresh, torn>>

Die ==
  /\ pc \notin {"stopped", "over"} /\ faults < MaxFaults
  /\ torn' = (torn \/ pc \in {"ids", "singleId"})
  /\ pc' = "stopped" /\ faults' = faults + 1
  /\ UNCHANGED <<files, memory>>

Next ==
  \/ Resume \/ Collect \/ EncodeBatch \/ BatchIds \/ EncodeSingle \/ SingleId
  \/ Buffer \/ Flush \/ Die

Spec == Init /\ [][Next]_vars

-----------------------------------------------------------------------------
(* Properties.                                                              *)

(* A stored vector is the vector of its post, whatever part of a batch      *)
(* failed before the buffer was written.                                    *)
VectorsBelong == \A p \in Posts : table[p] \in {0, p}

(* The matrix that run_async returns has a row for each successful post, in *)
(* the same order, over batches encoded one by one and every resume, as     *)
(* long as no chunk was left without its ids and no post failed.            *)
RowsMatchPosts == pc = "over" /\ ~torn => FlattenSeq(vectors) = successful

(* No completed post is without its vector in a chunk file: a resume, which *)
(* does not encode it again, has it.                                        *)
CompletedHasChunk == \A p \in completed : \E i \in DOMAIN chunk : p \in ToSet(chunk[i])
=============================================================================
