-------------------------- MODULE FileFetchProofs --------------------------
(***************************************************************************)
(* Proofs about FileFetch, for every manifest, every number of chunks and  *)
(* of goroutines per batch and every state of the store and the cache.     *)
(*                                                                         *)
(* Inv follows the goroutines through the batches: those before batchStart *)
(* are done, those of the batch run or are done, the others have not been  *)
(* started; and one that is done has its block or has left an error.  So   *)
(* wg.Wait and the test of fetchErr after it are enough for the response   *)
(* to be complete, which is what the refinement of FileService needs.      *)
(***************************************************************************)
EXTENDS FileFetch, TLAPS

BodyType == [chunk : Chunks, copy : {"torn", "whole"}]

Types == TypeOK /\ body \in Seq(BodyType) /\ \A i \in Chunks : got[i] \in {None, "whole"}

\* Where the goroutines are.
BatchInv ==
    /\ pc = "manifest" => batchStart = 0
    /\ \A i \in Chunks : i <= batchStart => worker[i] = "done"
    /\ \A i \in Chunks : batchStart < i /\ pc \in {"manifest", "spawn"} => worker[i] = "none"
    /\ \A i \in Chunks : batchStart + FetchConcurrency < i => worker[i] = "none"
    /\ pc = "wait" => \A i \in Batch : worker[i] # "none"
    /\ pc # "wait" => Running = {}

\* What a goroutine has achieved.
WorkerInv ==
    /\ \A i \in Chunks : worker[i] = "done" => blocks[i] # None \/ ChunkCIDs[i] \in failed
    /\ \A i \in Chunks : worker[i] # "done" => blocks[i] = None
    /\ \A i \in Chunks : worker[i] = "put" => got[i] = "whole"
    /\ fetchErr = None <=> failed = {}
    /\ pc \in {"manifest", "spawn", "write"} => failed = {}
    /\ pc = "manifest" => \A i \in Chunks : blocks[i] = None

\* Torn copies are copies of which a write failed.
DamageInv ==
    /\ \A c \in CIDs : "torn" \in {disk[c], cache[c]} => c \in damaged
    /\ \A i \in Chunks : blocks[i] = "torn" => ChunkCIDs[i] \in damaged
    /\ BodyIntact

\* The response.
ResponseInv ==
    /\ pc \in {"manifest", "spawn", "wait"} => status = None
    /\ pc = "write" => status = "200"
    /\ pc = "done" => status # None
    /\ status = "200" => failed = {} /\ \A i \in Chunks : blocks[i] # None
    /\ status # "200" => body = << >>
    /\ \A k \in 1 .. Len(body) : body[k].chunk = k

Inv == Types /\ BatchInv /\ WorkerInv /\ DamageInv /\ ResponseInv

-----------------------------------------------------------------------------
(* Every step preserves the invariant. *)

\* A request that has just arrived.
LEMMA InitInv == Init => Inv
<1> SUFFICES ASSUME Init PROVE Inv
  OBVIOUS
<1>1. N \in Nat /\ Len(<< >>) = 0 /\ << >> \in Seq(BodyType)
  BY FileAssumption DEF N
<1>2. Types
  <2>1. /\ disk \in [CIDs -> {"absent", "torn", "whole"}]
        /\ cache \in [CIDs -> {"absent", "torn", "whole"}]
    BY FileAssumption DEF Init
  <2> QED BY <2>1, <1>1 DEF Init, Types, TypeOK
<1>3. BatchInv
  BY <1>1, FileAssumption DEF Init, BatchInv, Running, Chunks
<1>4. WorkerInv /\ DamageInv /\ ResponseInv
  BY <1>1 DEF Init, WorkerInv, DamageInv, ResponseInv, BodyIntact, None
<1> QED BY <1>2, <1>3, <1>4 DEF Inv

\* The handler reads and verifies the manifest.
LEMMA ReadManifestInv ==
    ASSUME Inv, ReadManifest
    PROVE  Inv'
<1>1. Types'
  BY DEF Inv, Types, TypeOK, ReadManifest, local
<1>2. BatchInv'
  BY DEF Inv, BatchInv, ReadManifest, Batch, Running
<1>3. WorkerInv' /\ DamageInv' /\ ResponseInv'
  BY DEF Inv, WorkerInv, DamageInv, ResponseInv, BodyIntact, ReadManifest, local, None
<1> QED BY <1>1, <1>2, <1>3 DEF Inv

\* The goroutines of the next batch are started.
LEMMA SpawnBatchInv ==
    ASSUME Inv, SpawnBatch
    PROVE  Inv'
<1>1. Types'
  BY DEF Inv, Types, TypeOK, SpawnBatch, local, response
<1>2. \A i \in Chunks : worker'[i] = IF i \in Batch THEN "cache" ELSE worker[i]
  BY DEF SpawnBatch
<1>3. /\ \A i \in Batch : worker[i] = "none" /\ batchStart < i
      /\ \A i \in Chunks : i <= batchStart => i \notin Batch
      /\ \A i \in Chunks : batchStart + FetchConcurrency < i => i \notin Batch
  BY FileAssumption DEF Inv, BatchInv, Types, TypeOK, Batch, Chunks, N, SpawnBatch
<1>4. BatchInv'
  BY <1>2, <1>3 DEF Inv, BatchInv, SpawnBatch, Batch, Running
<1>5. WorkerInv'
  BY <1>2, <1>3 DEF Inv, WorkerInv, SpawnBatch
<1>6. DamageInv' /\ ResponseInv'
  BY DEF Inv, DamageInv, ResponseInv, BodyIntact, SpawnBatch, local, response
<1> QED BY <1>1, <1>4, <1>5, <1>6 DEF Inv

\* wg.Wait returns: the batch is done, whole, or the request is answered.
LEMMA BatchDoneInv ==
    ASSUME Inv, BatchDone
    PROVE  Inv'
<1>0. batchStart \in Nat /\ FetchConcurrency \in Nat \ {0} /\ Chunks \subseteq Nat
  BY FileAssumption DEF Inv, Types, TypeOK, Chunks, N
<1>1. Types'
  BY <1>0 DEF Inv, Types, TypeOK, BatchDone, local
<1>2. \A i \in Chunks : /\ i <= batchStart + FetchConcurrency => worker[i] = "done"
                        /\ batchStart + FetchConcurrency < i => worker[i] = "none"
  BY <1>0 DEF Inv, BatchInv, BatchDone, Batch
<1>3. \A i \in Chunks : worker[i] \in {"done", "none"}
  BY <1>0, <1>2
<1>4. BatchInv'
  <2>1. Running' = {}
    BY <1>3 DEF Running, BatchDone
  <2>2. \A i \in Chunks : batchStart + FetchConcurrency + FetchConcurrency < i =>
            batchStart + FetchConcurrency < i
    BY <1>0
  <2> QED BY <1>2, <2>1, <2>2 DEF Inv, BatchInv, BatchDone
<1>5. WorkerInv' /\ DamageInv' /\ ResponseInv'
  BY DEF Inv, WorkerInv, DamageInv, ResponseInv, BodyIntact, BatchDone, local, None
<1> QED BY <1>1, <1>4, <1>5 DEF Inv

\* All batches are done: every block is there.
LEMMA StartResponseInv ==
    ASSUME Inv, StartResponse
    PROVE  Inv' /\ \A i \in Chunks : blocks[i] # None
<1>0. batchStart \in Nat /\ N \in Nat /\ batchStart >= N /\ pc = "spawn"
  BY FileAssumption DEF Inv, Types, TypeOK, N, StartResponse
<1>1. Types'
  BY DEF Inv, Types, TypeOK, StartResponse, local
<1>2. \A i \in Chunks : worker[i] = "done"
  BY <1>0 DEF Inv, BatchInv, Chunks
<1>3. failed = {} /\ \A i \in Chunks : blocks[i] # None
  BY <1>0, <1>2 DEF Inv, WorkerInv
<1>4. BatchInv'
  BY DEF Inv, BatchInv, StartResponse, Batch, Running
<1>5. WorkerInv' /\ DamageInv' /\ ResponseInv'
  BY <1>3 DEF Inv, WorkerInv, DamageInv, ResponseInv, BodyIntact, StartResponse, local, None
<1> QED BY <1>1, <1>3, <1>4, <1>5 DEF Inv

\* The next block is written, or the connection is gone.
LEMMA WriteBlockInv ==
    ASSUME Inv, WriteBlock
    PROVE  Inv'
<1> DEFINE k == Len(body) + 1
           b == [chunk |-> k, copy |-> blocks[k]]
<1>1. /\ pc = "write" /\ status = "200" /\ body \in Seq(BodyType) /\ Len(body) \in Nat
      /\ N \in Nat /\ k \in Chunks /\ Len(body) < N
  BY FileAssumption DEF Inv, Types, TypeOK, N, Chunks, WriteBlock, ResponseInv
<1>2. blocks[k] \in {"torn", "whole"} /\ (blocks[k] = "torn" => ChunkCIDs[k] \in damaged)
  BY <1>1 DEF Inv, ResponseInv, DamageInv, Types, TypeOK
<1>3. /\ UNCHANGED <<manifest, local, batchStart, worker, got, blocks, fetchErr, failed, status>>
      /\ pc' \in {"write", "done"}
      /\ body' = body \/ body' = Append(body, b)
  BY DEF WriteBlock
<1> HIDE DEF k
<1>4. b \in BodyType /\ b.chunk = k /\ b.copy = blocks[k]
  BY <1>1, <1>2 DEF BodyType
<1> HIDE DEF b
<1>5. /\ body' \in Seq(BodyType) /\ Len(body') \in 0 .. N
      /\ \A j \in 1 .. Len(body') : \/ j \in 1 .. Len(body) /\ body'[j] = body[j]
                                    \/ j = k /\ body'[j] = b
  <2>1. CASE body' = body
    BY <2>1, <1>1 DEF Inv, Types, TypeOK
  <2>2. CASE body' = Append(body, b)
    BY <2>2, <1>1, <1>4 DEF k
  <2> QED BY <1>3, <2>1, <2>2
<1>6. Types'
  BY <1>3, <1>5 DEF Inv, Types, TypeOK, local
<1>7. BatchInv'
  BY <1>1, <1>3 DEF Inv, BatchInv, Batch, Running
<1>8. WorkerInv'
  BY <1>1, <1>3 DEF Inv, WorkerInv
<1>9. DamageInv'
  BY <1>2, <1>3, <1>4, <1>5 DEF Inv, DamageInv, BodyIntact, local
<1>10. ResponseInv'
  BY <1>1, <1>3, <1>4, <1>5 DEF Inv, ResponseInv, None
<1> QED BY <1>6, <1>7, <1>8, <1>9, <1>10 DEF Inv

\* The last block was written.
LEMMA EndResponseInv ==
    ASSUME Inv, EndResponse
    PROVE  Inv'
<1>1. Types'
  BY DEF Inv, Types, TypeOK, EndResponse, local, response
<1>2. BatchInv'
  BY DEF Inv, BatchInv, EndResponse, Batch, Running
<1>3. WorkerInv' /\ DamageInv' /\ ResponseInv'
  BY DEF Inv, WorkerInv, DamageInv, ResponseInv, BodyIntact, EndResponse, local, response, None
<1> QED BY <1>1, <1>2, <1>3 DEF Inv

\* A goroutine that is at work belongs to the batch that the handler waits for.
LEMMA RunningInBatch ==
    ASSUME Inv, NEW i \in Chunks, worker[i] \in {"cache", "store", "network", "put"}
    PROVE  i \in Batch /\ pc = "wait" /\ ChunkCIDs[i] \in CIDs
<1>1. batchStart \in Nat /\ FetchConcurrency \in Nat \ {0} /\ i \in Nat /\ ChunkCIDs[i] \in CIDs
  BY FileAssumption DEF Inv, Types, TypeOK, Chunks, N
<1>2. batchStart < i /\ i <= batchStart + FetchConcurrency
  BY <1>1 DEF Inv, BatchInv
<1> QED BY <1>1, <1>2 DEF Inv, BatchInv, Batch, Running

\* A goroutine that found a copy, or goes on to look elsewhere.
LEMMA TryInv ==
    ASSUME Inv, NEW i \in Chunks, TryCache(i) \/ TryStore(i)
    PROVE  Inv'
<1>0. ChunkCIDs[i] \in CIDs
  BY FileAssumption DEF Chunks, N
<1>1. /\ worker[i] \in {"cache", "store"}
      /\ UNCHANGED <<manifest, local, pc, batchStart, got, fetchErr, failed, response>>
  BY DEF TryCache, TryStore
<1>2. \/ /\ blocks' = blocks
         /\ worker' = [worker EXCEPT ![i] = "store"] \/ worker' = [worker EXCEPT ![i] = "network"]
      \/ /\ worker' = [worker EXCEPT ![i] = "done"]
         /\ \E copy \in {"torn", "whole"} :
                /\ blocks' = [blocks EXCEPT ![i] = copy]
                /\ copy = "torn" => ChunkCIDs[i] \in damaged
  BY <1>0 DEF TryCache, TryStore, Goto, Inv, Types, TypeOK, DamageInv
<1>3. /\ \A j \in Chunks \ {i} : worker'[j] = worker[j] /\ blocks'[j] = blocks[j]
      /\ worker'[i] \in {"store", "network", "done"}
      /\ worker'[i] # "done" => blocks'[i] = blocks[i]
      /\ worker'[i] = "done" => /\ blocks'[i] \in {"torn", "whole"}
                                /\ blocks'[i] = "torn" => ChunkCIDs[i] \in damaged
      /\ worker' \in [Chunks -> {"none", "cache", "store", "network", "put", "done"}]
      /\ blocks' \in [Chunks -> {None, "torn", "whole"}]
  BY <1>2 DEF Inv, Types, TypeOK
<1>4. Types'
  BY <1>1, <1>3 DEF Inv, Types, TypeOK, local, response
<1>5. i \in Batch /\ pc = "wait"
  BY <1>1, RunningInBatch
<1>6. BatchInv'
  BY <1>1, <1>3, <1>5 DEF Inv, BatchInv, Batch, Running
<1>7. WorkerInv'
  BY <1>1, <1>3, <1>5 DEF Inv, WorkerInv, None
<1>8. DamageInv'
  BY <1>1, <1>3 DEF Inv, DamageInv, BodyIntact, WorkerInv, local, response, None
<1>9. ResponseInv'
  BY <1>1, <1>5 DEF Inv, ResponseInv, response, None
<1> QED BY <1>4, <1>6, <1>7, <1>8, <1>9 DEF Inv

\* fetchBlockFromNetwork returns a verified block.
LEMMA FetchOKInv ==
    ASSUME Inv, NEW i \in Chunks, FetchOK(i)
    PROVE  Inv'
<1>1. /\ worker[i] = "network"
      /\ got' = [got EXCEPT ![i] = "whole"] /\ worker' = [worker EXCEPT ![i] = "put"]
      /\ UNCHANGED <<manifest, local, pc, batchStart, blocks, fetchErr, failed, response>>
  BY DEF FetchOK, Goto
<1>2. /\ \A j \in Chunks \ {i} : worker'[j] = worker[j] /\ got'[j] = got[j]
      /\ worker'[i] = "put" /\ got'[i] = "whole"
      /\ worker' \in [Chunks -> {"none", "cache", "store", "network", "put", "done"}]
      /\ got' \in [Chunks -> {None, "torn", "whole"}]
  BY <1>1 DEF Inv, Types, TypeOK
<1>3. i \in Batch /\ pc = "wait"
  BY <1>1, RunningInBatch
<1>4. Types'
  BY <1>1, <1>2 DEF Inv, Types, TypeOK, local, response
<1>5. BatchInv'
  BY <1>1, <1>2, <1>3 DEF Inv, BatchInv, Batch, Running
<1>6. WorkerInv'
  BY <1>1, <1>2, <1>3 DEF Inv, WorkerInv
<1>7. DamageInv' /\ ResponseInv'
  BY <1>1 DEF Inv, DamageInv, ResponseInv, BodyIntact, local, response
<1> QED BY <1>4, <1>5, <1>6, <1>7 DEF Inv

\* No provider has the block: the error is left for the handler.
LEMMA FetchFailsInv ==
    ASSUME Inv, NEW i \in Chunks, FetchFails(i)
    PROVE  Inv'
<1>1. /\ worker[i] = "network" /\ worker' = [worker EXCEPT ![i] = "done"]
      /\ fetchErr' = IF fetchErr = None THEN ChunkCIDs[i] ELSE fetchErr
      /\ failed' = failed \cup {ChunkCIDs[i]}
      /\ UNCHANGED <<manifest, local, pc, batchStart, got, blocks, response>>
  BY DEF FetchFails, Goto
<1>2. /\ \A j \in Chunks \ {i} : worker'[j] = worker[j]
      /\ worker'[i] = "done"
      /\ worker' \in [Chunks -> {"none", "cache", "store", "network", "put", "done"}]
  BY <1>1 DEF Inv, Types, TypeOK
<1>3. i \in Batch /\ pc = "wait" /\ ChunkCIDs[i] \in CIDs
  BY <1>1, RunningInBatch
<1>4. fetchErr' \in CIDs /\ fetchErr' # None
  BY <1>1, <1>3, FileAssumption DEF Inv, Types, TypeOK, None
<1>5. Types'
  BY <1>1, <1>2, <1>3, <1>4 DEF Inv, Types, TypeOK, local, response
<1>6. BatchInv'
  BY <1>1, <1>2, <1>3 DEF Inv, BatchInv, Batch, Running
<1>7. WorkerInv'
  BY <1>1, <1>2, <1>3, <1>4 DEF Inv, WorkerInv
<1>8. DamageInv'
  BY <1>1 DEF Inv, DamageInv, BodyIntact, local, response
<1>9. ResponseInv'
  BY <1>1, <1>3 DEF Inv, ResponseInv, response, None
<1> QED BY <1>5, <1>6, <1>7, <1>8, <1>9 DEF Inv

\* What Store.Put of a whole block leaves on the disk.
LEMMA StorePutDamage ==
    ASSUME Inv, NEW c \in CIDs, StorePut(c, "whole")
    PROVE  /\ disk' \in [CIDs -> {"absent", "torn", "whole"}]
           /\ damaged \subseteq damaged' /\ damaged' \in SUBSET CIDs
           /\ \A d \in CIDs : disk'[d] = "torn" => d \in damaged'
<1>1. PICK written \in {"whole"} \cup (IF DiskMayFail THEN {disk[c], "torn"} ELSE {}) :
          /\ disk' = [disk EXCEPT ![c] = written]
          /\ damaged' = IF written \notin {"whole", disk[c]} THEN damaged \cup {c} ELSE damaged
  BY DEF StorePut
<1>2. disk \in [CIDs -> {"absent", "torn", "whole"}] /\ damaged \in SUBSET CIDs
  BY DEF Inv, Types, TypeOK
<1>3. written \in {"whole", disk[c], "torn"} /\ written \in {"absent", "torn", "whole"}
  BY <1>2
<1>4. \A d \in CIDs : disk[d] = "torn" => d \in damaged
  BY DEF Inv, DamageInv
<1> QED BY <1>1, <1>2, <1>3, <1>4

\* The block goes to the store, whose error nobody looks at, and to blocks.
LEMMA PutBlockInv ==
    ASSUME Inv, NEW i \in Chunks, PutBlock(i)
    PROVE  Inv'
<1>1. /\ worker[i] = "put" /\ got[i] = "whole"
      /\ StorePut(ChunkCIDs[i], "whole")
      /\ blocks' = [blocks EXCEPT ![i] = "whole"] /\ worker' = [worker EXCEPT ![i] = "done"]
      /\ UNCHANGED <<manifest, cache, pc, batchStart, got, fetchErr, failed, response>>
  BY DEF PutBlock, Goto, Inv, WorkerInv
<1>2. /\ \A j \in Chunks \ {i} : worker'[j] = worker[j] /\ blocks'[j] = blocks[j]
      /\ worker'[i] = "done" /\ blocks'[i] = "whole"
      /\ worker' \in [Chunks -> {"none", "cache", "store", "network", "put", "done"}]
      /\ blocks' \in [Chunks -> {None, "torn", "whole"}]
  BY <1>1 DEF Inv, Types, TypeOK
<1>3. i \in Batch /\ pc = "wait" /\ ChunkCIDs[i] \in CIDs
  BY <1>1, RunningInBatch
<1>4. /\ disk' \in [CIDs -> {"absent", "torn", "whole"}]
      /\ damaged \subseteq damaged' /\ damaged' \in SUBSET CIDs
      /\ \A d \in CIDs : disk'[d] = "torn" => d \in damaged'
  BY <1>1, <1>3, StorePutDamage
<1>5. Types'
  BY <1>1, <1>2, <1>4 DEF Inv, Types, TypeOK, response
<1>6. BatchInv'
  BY <1>1, <1>2, <1>3 DEF Inv, BatchInv, Batch, Running
<1>7. WorkerInv'
  BY <1>1, <1>2, <1>3 DEF Inv, WorkerInv, None
<1>8. DamageInv'
  BY <1>1, <1>2, <1>4 DEF Inv, DamageInv, BodyIntact, response
<1>9. ResponseInv'
  BY <1>1, <1>3 DEF Inv, ResponseInv, response, None
<1> QED BY <1>5, <1>6, <1>7, <1>8, <1>9 DEF Inv

\* Evictions, pushes and requests of peers, at any moment.
LEMMA OthersInv ==
    ASSUME Inv, NEW c \in CIDs, CacheEvicts(c) \/ Pushed(c) \/ Served(c)
    PROVE  Inv'
<1>1. UNCHANGED <<manifest, pc, batchStart, worker, got, blocks, fetchErr, failed, response>>
  BY DEF CacheEvicts, Pushed, Served
<1>2. /\ disk' \in [CIDs -> {"absent", "torn", "whole"}]
      /\ damaged \subseteq damaged' /\ damaged' \in SUBSET CIDs
      /\ \A d \in CIDs : disk'[d] = "torn" => d \in damaged'
  <2>1. CASE Pushed(c)
    BY <2>1, StorePutDamage DEF Pushed
  <2>2. CASE CacheEvicts(c) \/ Served(c)
    BY <2>2 DEF CacheEvicts, Served, Inv, Types, TypeOK, DamageInv
  <2> QED BY <2>1, <2>2
<1>3. /\ cache' \in [CIDs -> {"absent", "torn", "whole"}]
      /\ \A d \in CIDs : cache'[d] = "torn" => d \in damaged'
  <2>1. \A d \in CIDs : "torn" \in {disk[d], cache[d]} => d \in damaged'
    BY <1>2 DEF Inv, DamageInv
  <2>2. PICK copy \in {"absent", "whole", disk[c]} : cache' = [cache EXCEPT ![c] = copy]
    BY DEF CacheEvicts, Pushed, Served
  <2> QED BY <2>1, <2>2 DEF Inv, Types, TypeOK
<1>4. Types'
  BY <1>1, <1>2, <1>3 DEF Inv, Types, TypeOK, response
<1>5. BatchInv'
  BY <1>1 DEF Inv, BatchInv, Batch, Running
<1>6. WorkerInv' /\ ResponseInv'
  BY <1>1 DEF Inv, WorkerInv, ResponseInv, response
<1>7. DamageInv'
  BY <1>1, <1>2, <1>3 DEF Inv, DamageInv, BodyIntact, response
<1> QED BY <1>4, <1>5, <1>6, <1>7 DEF Inv

\* Any step.
LEMMA NextInv ==
    ASSUME Inv, [Next]_vars
    PROVE  Inv'
<1>1. CASE UNCHANGED vars
  BY <1>1 DEF vars, local, response, Inv, Types, TypeOK, BatchInv, WorkerInv, DamageInv,
              ResponseInv, BodyIntact, Batch, Running
<1>2. CASE Next
  BY <1>2, ReadManifestInv, SpawnBatchInv, BatchDoneInv, StartResponseInv, WriteBlockInv,
     EndResponseInv, TryInv, FetchOKInv, FetchFailsInv, PutBlockInv, OthersInv
  DEF Next, HandlerStep, WorkerStep
<1> QED BY <1>1, <1>2

-----------------------------------------------------------------------------
(* The theorems. *)

\* Inv is an invariant of the retrieval of a file.
THEOREM Invariance == Spec => []Inv
  BY InitInv, NextInv, PTL DEF Spec

\* The variables keep their types.
THEOREM TypeCorrect == Spec => []TypeOK
<1>1. Inv => TypeOK
  BY DEF Inv, Types
<1> QED BY <1>1, Invariance, PTL

\* No goroutine outlives its batch or the response: BatchesDoNotOverlap.
THEOREM BatchesStayApart == Spec => []BatchesDoNotOverlap
<1>1. Inv => BatchesDoNotOverlap
  BY RunningInBatch DEF BatchesDoNotOverlap, Running, Inv, BatchInv
<1> QED BY <1>1, Invariance, PTL

\* The bytes sent match the CIDs, unless a write of the chunk failed: BodyIntact.
THEOREM BodyStaysIntact == Spec => []BodyIntact
<1>1. Inv => BodyIntact
  BY DEF Inv, DamageInv
<1> QED BY <1>1, Invariance, PTL

-----------------------------------------------------------------------------
(* The refinement. *)

\* A request that has just arrived promises nothing yet.
LEMMA ServiceInit == Init => Service!Init
  BY DEF Init, Service!Init, None

\* What the abstract service does not see.
LEMMA Unseen ==
    ASSUME UNCHANGED <<blocks, failed, status, body>>
    PROVE  UNCHANGED Service!serviceVars
  BY DEF Service!serviceVars

\* A goroutine that has its block obtains the chunk.
LEMMA Obtains ==
    ASSUME Inv, NEW i \in Chunks, status = None, NEW copy \in {"torn", "whole"},
           blocks' = [blocks EXCEPT ![i] = copy], UNCHANGED <<failed, status, body>>
    PROVE  Service!Obtain(i)
<1>1. {j \in Chunks : blocks[j] # None}' = {j \in Chunks : blocks[j] # None} \cup {i}
  BY DEF Inv, Types, TypeOK, None
<1> QED BY <1>1 DEF Service!Obtain, None

\* Every step is one of the abstract service, or one that it does not see.
LEMMA ServiceStep ==
    ASSUME Inv, [Next]_vars
    PROVE  [Service!Next]_(Service!serviceVars)
<1>0. N \in Nat /\ Chunks = 1 .. N
  BY FileAssumption DEF N, Chunks
<1>1. CASE UNCHANGED vars
  BY <1>1, Unseen DEF vars, response
<1>2. CASE ReadManifest
  <2>1. status = None /\ failed = {} /\ {i \in Chunks : blocks[i] # None} = {}
    BY <1>2 DEF ReadManifest, Inv, ResponseInv, WorkerInv
  <2>2. UNCHANGED <<blocks, failed, body>> /\ status' \in {status, "403", "404"}
    BY <1>2 DEF ReadManifest
  <2>3. CASE status' = status
    BY <2>2, <2>3, Unseen
  <2>4. CASE status' \in {"403", "404"}
    <3>1. Service!Refuse
      BY <2>1, <2>2, <2>4 DEF Service!Refuse, None
    <3> QED BY <3>1 DEF Service!Next
  <2> QED BY <2>2, <2>3, <2>4
<1>3. CASE SpawnBatch \/ EndResponse
  BY <1>3, Unseen DEF SpawnBatch, EndResponse, response
<1>4. CASE BatchDone
  <2>1. CASE fetchErr = None
    BY <1>4, <2>1, Unseen DEF BatchDone
  <2>2. CASE fetchErr # None
    <3>1. status = None /\ failed # {}
      BY <1>4, <2>2 DEF BatchDone, Inv, ResponseInv, WorkerInv
    <3>2. Service!Refuse
      BY <1>4, <2>2, <3>1 DEF BatchDone, Service!Refuse, None
    <3> QED BY <3>2 DEF Service!Next
  <2> QED BY <2>1, <2>2
<1>5. CASE StartResponse
  <2>1. /\ status = None /\ failed = {} /\ status' = "200"
        /\ {i \in Chunks : blocks[i] # None} = 1 .. N
    BY <1>0, <1>5, StartResponseInv DEF StartResponse, Inv, ResponseInv, WorkerInv
  <2>2. Service!Accept
    BY <1>5, <2>1 DEF StartResponse, Service!Accept, None
  <2> QED BY <2>2 DEF Service!Next
<1>6. CASE WriteBlock
  <2>1. CASE UNCHANGED body
    BY <1>6, <2>1, Unseen DEF WriteBlock
  <2>2. CASE body' = Append(body, [chunk |-> Len(body) + 1, copy |-> blocks[Len(body) + 1]])
    <3> DEFINE b == [chunk |-> Len(body) + 1, copy |-> blocks[Len(body) + 1]]
               sent == [k \in DOMAIN body |-> body[k].chunk]
    <3>1. /\ body \in Seq(BodyType) /\ Len(body) \in Nat /\ Len(body) < N
          /\ DOMAIN body = 1 .. Len(body) /\ status = "200" /\ b.chunk = Len(body) + 1
      BY <1>6 DEF WriteBlock, Inv, Types, ResponseInv
    <3>2. /\ DOMAIN body' = 1 .. Len(body) + 1
          /\ \A k \in 1 .. Len(body) : body'[k] = body[k]
          /\ body'[Len(body) + 1] = b
      BY <2>2, <3>1
    <3>3. \A k \in DOMAIN body : body[k].chunk = k
      BY <3>1 DEF Inv, ResponseInv
    <3> HIDE DEF b
    <3>4. sent' = [k \in 1 .. Len(body) + 1 |-> k] /\ sent = [k \in 1 .. Len(body) |-> k]
      BY <3>1, <3>2, <3>3
    <3> HIDE DEF sent
    <3>5. sent' = Append(sent, Len(sent) + 1) /\ Len(sent) = Len(body)
      BY <3>1, <3>4
    <3>6. Service!Send
      BY <1>6, <3>1, <3>5 DEF WriteBlock, Service!Send, sent
    <3> QED BY <3>6 DEF Service!Next
  <2> QED BY <1>6, <2>1, <2>2 DEF WriteBlock
<1>7. ASSUME NEW i \in Chunks, WorkerStep(i)
      PROVE  [Service!Next]_(Service!serviceVars)
  <2>1. status = None
    BY <1>7, RunningInBatch
       DEF WorkerStep, TryCache, TryStore, FetchOK, FetchFails, PutBlock, Inv, ResponseInv
  <2>2. UNCHANGED <<status, body>>
    BY <1>7 DEF WorkerStep, TryCache, TryStore, FetchOK, FetchFails, PutBlock, response
  <2>3. CASE UNCHANGED <<blocks, failed>>
    BY <2>2, <2>3, Unseen
  <2>4. CASE FetchFails(i)
    <3>1. failed' # {} /\ UNCHANGED blocks
      BY <2>4 DEF FetchFails
    <3>2. CASE failed # {}
      BY <2>2, <3>1, <3>2 DEF Service!serviceVars
    <3>3. CASE failed = {}
      <4>1. Service!Lose
        BY <2>1, <2>2, <3>1, <3>3 DEF Service!Lose, None
      <4> QED BY <4>1 DEF Service!Next
    <3> QED BY <3>2, <3>3
  <2>5. ASSUME NEW copy \in {"torn", "whole"}, blocks' = [blocks EXCEPT ![i] = copy],
               UNCHANGED failed
        PROVE  Service!Next
    <3>1. Service!Obtain(i)
      BY <2>1, <2>2, <2>5, Obtains
    <3> QED BY <1>0, <3>1 DEF Service!Next
  <2>6. ChunkCIDs[i] \in CIDs
    BY FileAssumption DEF Chunks, N
  <2>7. CASE TryCache(i) \/ TryStore(i)
    BY <2>3, <2>5, <2>6, <2>7 DEF TryCache, TryStore, Inv, Types, TypeOK
  <2>8. CASE FetchOK(i)
    BY <2>3, <2>8 DEF FetchOK
  <2>9. CASE PutBlock(i)
    BY <2>5, <2>9 DEF PutBlock, Inv, WorkerInv
  <2> QED BY <1>7, <2>4, <2>7, <2>8, <2>9 DEF WorkerStep
<1>8. ASSUME NEW c \in CIDs, CacheEvicts(c) \/ Pushed(c) \/ Served(c)
      PROVE  UNCHANGED Service!serviceVars
  BY <1>8, Unseen DEF CacheEvicts, Pushed, Served, response
<1> QED BY <1>1, <1>2, <1>3, <1>4, <1>5, <1>6, <1>7, <1>8 DEF Next, HandlerStep

\* handleFetch implements FileService: ImplementsFileService.
THEOREM FetchImplementsService == Spec => ImplementsFileService
  BY ServiceInit, ServiceStep, Invariance, PTL DEF Spec, ImplementsFileService, Service!Spec

=============================================================================
