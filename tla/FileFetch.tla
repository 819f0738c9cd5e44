----------------------------- MODULE FileFetch -----------------------------
(***************************************************************************)
(* handleFetch (internal/node/api.go): the retrieval of a file whose       *)
(* manifest is in the store, in batches of goroutines, one per chunk.      *)
(*                                                                         *)
(* The copies of a block differ in one respect: a "torn" copy is what an   *)
(* interrupted write left of it.  The store and the cache hand out what    *)
(* they have, torn or whole; the network only yields whole blocks, since   *)
(* FetchBlock verifies the CID (BlockFetch is the detail of that step).    *)
(* While the file is fetched, other goroutines evict blocks from the cache *)
(* and receive blocks pushed by peers.                                     *)
(***************************************************************************)
EXTENDS Integers, SequencesExt

CONSTANTS
    CIDs,
    ChunkCIDs,          \* the manifest's chunks; a CID may occur twice
    FetchConcurrency,   \* 4 in the code
    Copies,             \* the initial copies: a subset of {"absent", "torn", "whole"}
    DiskMayFail,        \* whether reads and writes of the store may fail
    Manifests           \* of {"missing", "unsigned", "signed", "forged"}

ASSUME FileAssumption ==
    /\ "none" \notin CIDs /\ ChunkCIDs \in Seq(CIDs)
    /\ FetchConcurrency \in Nat \ {0}
    /\ Copies \subseteq {"absent", "torn", "whole"} /\ DiskMayFail \in BOOLEAN
    /\ Manifests \subseteq {"missing", "unsigned", "signed", "forged"}

VARIABLES
    manifest,
    disk, cache,        \* the copies this node has of every block
    pc, batchStart,     \* handleFetch; batchStart counts from 0
    worker,             \* the goroutine of each chunk
    got,                \* what the goroutine has in hand
    blocks, fetchErr,   \* shared by the goroutines
    failed,             \* auxiliary: the chunks whose network fetch failed
    damaged,            \* auxiliary: those of which a write ever failed
    status, body        \* the HTTP response

local == <<disk, cache, damaged>>
response == <<status, body>>
vars == <<manifest, local, pc, batchStart, worker, got, blocks, fetchErr, failed, response>>

N == Len(ChunkCIDs)
Chunks == 1 .. N
None == "none"

Init ==
    /\ manifest \in Manifests
    /\ disk \in [CIDs -> Copies] /\ cache \in [CIDs -> Copies]
    /\ pc = "manifest" /\ batchStart = 0
    /\ worker = [i \in Chunks |-> "none"] /\ got = [i \in Chunks |-> None]
    /\ blocks = [i \in Chunks |-> None] /\ fetchErr = None
    /\ failed = {}
    /\ damaged = {c \in CIDs : "torn" \in {disk[c], cache[c]}}
    /\ status = None /\ body = << >>

-----------------------------------------------------------------------------
(* Other goroutines of the node. *)

\* evictOldest, on behalf of some Put.
CacheEvicts(c) ==
    /\ cache[c] # "absent"
    /\ cache' = [cache EXCEPT ![c] = "absent"]
    /\ UNCHANGED <<manifest, disk, damaged, pc, batchStart, worker, got, blocks, fetchErr, failed, response>>

\* Store.Put, whose error no caller here looks at: when it fails, the file is
\* as it was or torn.
StorePut(c, copy) ==
    \E written \in {copy} \cup (IF DiskMayFail THEN {disk[c], "torn"} ELSE {}) :
        /\ disk' = [disk EXCEPT ![c] = written]
        /\ damaged' = IF written \notin {copy, disk[c]} THEN damaged \cup {c} ELSE damaged

\* BlockPushHandler stores a verified block on disk and in the cache.
Pushed(c) ==
    /\ StorePut(c, "whole")
    /\ cache' = [cache EXCEPT ![c] = "whole"]
    /\ UNCHANGED <<manifest, pc, batchStart, worker, got, blocks, fetchErr, failed, response>>

\* BlockTransferHandler, for some peer: a block found on disk only is cached.
\* (Reading and caching are one step here.  A torn copy that a write overtakes
\* in between is one of a block that counts as damaged from then on anyway.)
Served(c) ==
    /\ cache[c] = "absent" /\ disk[c] # "absent"
    /\ cache' = [cache EXCEPT ![c] = disk[c]]
    /\ UNCHANGED <<manifest, disk, damaged, pc, batchStart, worker, got, blocks, fetchErr, failed, response>>

-----------------------------------------------------------------------------
(* The handler. *)

\* No manifest: 404.  A manifest with a signature that does not verify: 403.
ReadManifest ==
    /\ pc = "manifest"
    /\ \/ /\ manifest = "missing"
          /\ pc' = "done" /\ status' = "404"
       \/ /\ manifest = "forged"
          /\ pc' = "done" /\ status' = "403"
       \/ /\ manifest \in {"unsigned", "signed"}
          /\ pc' = "spawn" /\ UNCHANGED status
    /\ UNCHANGED <<manifest, local, batchStart, worker, got, blocks, fetchErr, failed, body>>

Batch == {i \in Chunks : batchStart < i /\ i <= batchStart + FetchConcurrency}

SpawnBatch ==
    /\ pc = "spawn" /\ batchStart < N
    /\ pc' = "wait"
    /\ worker' = [i \in Chunks |-> IF i \in Batch THEN "cache" ELSE worker[i]]
    /\ UNCHANGED <<manifest, local, batchStart, got, blocks, fetchErr, failed, response>>

\* Mutant of BatchDone: an error does not end the loop over the batches.
BatchDoneIgnoresError ==
    /\ pc = "wait" /\ \A i \in Batch : worker[i] = "done"
    /\ pc' = "spawn" /\ batchStart' = batchStart + FetchConcurrency
    /\ UNCHANGED <<manifest, local, worker, got, blocks, fetchErr, failed, response>>

\* Mutant of BatchDone: the first error is answered without waiting.
BatchDoneAtFirstError ==
    /\ pc = "wait"
    /\ \/ /\ fetchErr # None
          /\ pc' = "done" /\ status' = "404"
          /\ UNCHANGED batchStart
       \/ /\ fetchErr = None /\ \A i \in Batch : worker[i] = "done"
          /\ pc' = "spawn" /\ batchStart' = batchStart + FetchConcurrency
          /\ UNCHANGED status
    /\ UNCHANGED <<manifest, local, worker, got, blocks, fetchErr, failed, body>>

\* Mutant of BatchDone: the wait group counts all chunks, not the batch's.
BatchDoneWaitsForAll ==
    /\ pc = "wait" /\ \A i \in Chunks : worker[i] = "done"
    /\ \/ /\ fetchErr # None
          /\ pc' = "done" /\ status' = "404"
          /\ UNCHANGED batchStart
       \/ /\ fetchErr = None
          /\ pc' = "spawn" /\ batchStart' = batchStart + FetchConcurrency
          /\ UNCHANGED status
    /\ UNCHANGED <<manifest, local, worker, got, blocks, fetchErr, failed, body>>

\* wg.Wait returns when every goroutine of the batch is done.
BatchDone ==
    /\ pc = "wait" /\ \A i \in Batch : worker[i] = "done"
    /\ \/ /\ fetchErr # None
          /\ pc' = "done" /\ status' = "404"
          /\ UNCHANGED batchStart
       \/ /\ fetchErr = None
          /\ pc' = "spawn" /\ batchStart' = batchStart + FetchConcurrency
          /\ UNCHANGED status
    /\ UNCHANGED <<manifest, local, worker, got, blocks, fetchErr, failed, body>>

StartResponse ==
    /\ pc = "spawn" /\ batchStart >= N
    /\ pc' = "write" /\ status' = "200"
    /\ UNCHANGED <<manifest, local, batchStart, worker, got, blocks, fetchErr, failed, body>>

\* The blocks are written in the order of the manifest; a write may fail, and
\* then the handler returns.
WriteBlock ==
    /\ pc = "write" /\ Len(body) < N
    /\ \/ /\ body' = Append(body, [chunk |-> Len(body) + 1, copy |-> blocks[Len(body) + 1]])
          /\ UNCHANGED pc
       \/ /\ pc' = "done" /\ UNCHANGED body
    /\ UNCHANGED <<manifest, local, batchStart, worker, got, blocks, fetchErr, failed, status>>

EndResponse ==
    /\ pc = "write" /\ Len(body) = N
    /\ pc' = "done"
    /\ UNCHANGED <<manifest, local, batchStart, worker, got, blocks, fetchErr, failed, response>>

-----------------------------------------------------------------------------
(* The goroutine of chunk i. *)

Goto(i, w) == worker' = [worker EXCEPT ![i] = w]

TryCache(i) ==
    LET copy == cache[ChunkCIDs[i]]
    IN  /\ worker[i] = "cache"
        /\ IF copy # "absent"
           THEN blocks' = [blocks EXCEPT ![i] = copy] /\ Goto(i, "done")
           ELSE Goto(i, "store") /\ UNCHANGED blocks
        /\ UNCHANGED <<manifest, local, pc, batchStart, got, fetchErr, failed, response>>

\* Any error of Store.Get sends the goroutine to the network.
TryStore(i) ==
    LET copy == disk[ChunkCIDs[i]]
    IN  /\ worker[i] = "store"
        /\ \/ /\ copy # "absent"
              /\ blocks' = [blocks EXCEPT ![i] = copy] /\ Goto(i, "done")
           \/ /\ copy = "absent" \/ DiskMayFail
              /\ Goto(i, "network") /\ UNCHANGED blocks
        /\ UNCHANGED <<manifest, local, pc, batchStart, got, fetchErr, failed, response>>

\* Mutant of FetchOK: the CID of the bytes received is not verified.
FetchUnverified(i) ==
    /\ worker[i] = "network"
    /\ \E copy \in {"torn", "whole"} : got' = [got EXCEPT ![i] = copy]
    /\ Goto(i, "put")
    /\ UNCHANGED <<manifest, local, pc, batchStart, blocks, fetchErr, failed, response>>

\* fetchBlockFromNetwork: a verified block, or an error.
FetchOK(i) ==
    /\ worker[i] = "network"
    /\ got' = [got EXCEPT ![i] = "whole"]
    /\ Goto(i, "put")
    /\ UNCHANGED <<manifest, local, pc, batchStart, blocks, fetchErr, failed, response>>

\* Only the first error is kept.
FetchFails(i) ==
    /\ worker[i] = "network"
    /\ fetchErr' = IF fetchErr = None THEN ChunkCIDs[i] ELSE fetchErr
    /\ failed' = failed \cup {ChunkCIDs[i]}
    /\ Goto(i, "done")
    /\ UNCHANGED <<manifest, local, pc, batchStart, got, blocks, response>>

\* The block goes to the store, not to the cache.
PutBlock(i) ==
    /\ worker[i] = "put"
    /\ StorePut(ChunkCIDs[i], got[i])
    /\ blocks' = [blocks EXCEPT ![i] = got[i]]
    /\ Goto(i, "done")
    /\ UNCHANGED <<manifest, cache, pc, batchStart, got, fetchErr, failed, response>>

WorkerStep(i) == TryCache(i) \/ TryStore(i) \/ FetchOK(i) \/ FetchFails(i) \/ PutBlock(i)

HandlerStep ==
    ReadManifest \/ SpawnBatch \/ BatchDone \/ StartResponse \/ WriteBlock \/ EndResponse

Next ==
    \/ HandlerStep
    \/ \E i \in Chunks : WorkerStep(i)
    \/ \E c \in CIDs : CacheEvicts(c) \/ Pushed(c) \/ Served(c)

Spec == Init /\ [][Next]_vars

FairSpec == Spec /\ WF_vars(HandlerStep) /\ \A i \in Chunks : WF_vars(WorkerStep(i))

-----------------------------------------------------------------------------
(* Correctness. *)

\* The values of the variables.
TypeOK ==
    /\ manifest \in Manifests
    /\ disk \in [CIDs -> {"absent", "torn", "whole"}]
    /\ cache \in [CIDs -> {"absent", "torn", "whole"}]
    /\ pc \in {"manifest", "spawn", "wait", "write", "done"} /\ batchStart \in Nat
    /\ worker \in [Chunks -> {"none", "cache", "store", "network", "put", "done"}]
    /\ got \in [Chunks -> {None, "torn", "whole"}]
    /\ blocks \in [Chunks -> {None, "torn", "whole"}]
    /\ fetchErr \in CIDs \cup {None}
    /\ failed \in SUBSET CIDs /\ damaged \in SUBSET CIDs
    /\ status \in {None, "200", "403", "404"} /\ Len(body) \in 0 .. N

Running == {i \in Chunks : worker[i] \in {"cache", "store", "network", "put"}}

\* The promise of the handler, seen through its variables.
Service == INSTANCE FileService WITH
    NumChunks <- N,
    have <- {i \in Chunks : blocks[i] # None},
    lost <- failed # {},
    answer <- status,
    sent <- [k \in DOMAIN body |-> body[k].chunk]

\* handleFetch implements FileService: whatever the goroutines of the batches
\* do, the chunks are sent in order after all of them were obtained, an error
\* response carries none of them, and a 404 after the manifest was read means
\* that some chunk really could not be fetched.
ImplementsFileService == Service!Spec

\* Goroutines never outlive their batch, and there are at most
\* FetchConcurrency of them: nothing writes to blocks, to fetchErr or to the
\* store for this request once it has been answered.
BatchesDoNotOverlap ==
    /\ Running \subseteq Batch
    /\ pc # "wait" => Running = {}

\* The bytes sent match the CIDs of the manifest, except for chunks of which a
\* write to the store ever failed: evictions, pushes, requests of peers and
\* fetches of the same CID in other goroutines do not break that, and the
\* damage of one chunk does not reach another.
BodyIntact ==
    \A k \in 1 .. Len(body) :
        body[k].copy = "whole" \/ (body[k].copy = "torn" /\ ChunkCIDs[k] \in damaged)

\* The request is answered, if every network fetch comes to an end.
FileFetchEnds == <>(pc = "done")

=============================================================================
