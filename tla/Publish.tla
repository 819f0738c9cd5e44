------------------------------ MODULE Publish ------------------------------
(***************************************************************************)
(* Publishing a file (internal/node/api.go: handlePublish) on top of the   *)
(* content store.  The file is cut into chunks, the chunks are stored one  *)
(* by one, then the manifest that names them; the request is answered, and *)
(* a goroutine announces the CIDs to the DHT.  Several requests run at     *)
(* once, besides the other users of the store, and the process may die at  *)
(* any moment.                                                             *)
(*                                                                         *)
(* A file is the sequence of its bytes.  A CID is a hash of the bytes it   *)
(* names, so it is represented by those bytes: files that have a chunk in  *)
(* common share its file in the store.  Likewise a manifest's root CID is  *)
(* a hash of its chunk CIDs and is represented by them.  A request is      *)
(*                                                                         *)
(*   "new"      not yet received                                           *)
(*   "store"    about to store block number next, or the manifest          *)
(*   "putting"  inside Store.Put or PutManifest, holding Store.mu          *)
(*   "ok" or "error"  answered;  "lost"  the process died first            *)
(***************************************************************************)
EXTENDS ContentStore, SequencesExt

CONSTANTS
    Requests,
    Sources,                     \* the files that may be published
    RTTLists,                    \* the RTTs, in ms, of the peers' best paths
    ChunkSizeBytes, MinChunkSize, MaxChunkSize    \* Cfg

VARIABLES
    adaptive,     \* Cfg.AdaptiveChunking
    request,
    announcing,   \* the CIDs that the goroutine of each request has yet to announce
    announced,    \* the provider records that the DHT took
    deleted       \* auxiliary: the blocks that were deleted and not stored again

publishVars == <<adaptive, request, announcing, announced, deleted>>
allVars == <<vars, publishVars>>

-----------------------------------------------------------------------------
(* Chunking. *)

\* Mutant of AdaptiveChunkSize: slow paths get the many small chunks.
AdaptiveChunkSizeSwapped(fileSize, pathRTTms, minChunk, maxChunk) ==
    LET lo == IF minChunk <= 0 THEN 64 * 1024 ELSE minChunk
        hi == IF maxChunk <= 0 THEN 1024 * 1024 ELSE maxChunk
        targetChunks == IF pathRTTms > 50 THEN 16 ELSE IF pathRTTms < 5 THEN 4 ELSE 8
        share == Max({fileSize \div targetChunks, lo})
    IN  IF fileSize <= lo THEN fileSize ELSE Min({share, hi})

AdaptiveChunkSize(fileSize, pathRTTms, minChunk, maxChunk) ==
    LET lo == IF minChunk <= 0 THEN 64 * 1024 ELSE minChunk
        hi == IF maxChunk <= 0 THEN 1024 * 1024 ELSE maxChunk
        targetChunks == IF pathRTTms > 50 THEN 4 ELSE IF pathRTTms < 5 THEN 16 ELSE 8
        share == Max({fileSize \div targetChunks, lo})
    IN  IF fileSize <= lo THEN fileSize ELSE Min({share, hi})

\* The loop over the connected peers.  10 is both the assumption for no path
\* at all and the mark that none was seen yet.
BestRTT(rtts) ==
    FoldLeft(LAMBDA best, rtt : IF best = 10 \/ rtt < best THEN rtt ELSE best, 10, rtts)

FixedChunkSize == IF ChunkSizeBytes <= 0 THEN 256 * 1024 ELSE ChunkSizeBytes

ChunkSize(data, rtts) ==
    IF adaptive THEN AdaptiveChunkSize(Len(data), BestRTT(rtts), MinChunkSize, MaxChunkSize)
    ELSE FixedChunkSize

NumChunks(length, chunkSize) == (length + chunkSize - 1) \div chunkSize

\* Chunk of a chunkSize > 0: full blocks, and the rest in a shorter one.
Chunk(data, chunkSize) ==
    [i \in 1 .. NumChunks(Len(data), chunkSize) |->
        SubSeq(data, (i - 1) * chunkSize + 1, Min({i * chunkSize, Len(data)}))]

\* The file of the manifest of these blocks.
ManifestOf(blocks) == <<"manifest", blocks>>

ASSUME ConfigAssumption ==
    /\ ChunkSizeBytes \in Int /\ MinChunkSize \in Int /\ MaxChunkSize \in Int
    /\ \A data \in Sources : data \in Seq(ToSet(data))

\* Whatever a source may be cut into is among the files that may be stored.
ASSUME ChunksAssumption ==
    \A data \in Sources, rtts \in RTTLists :
        \A size \in {AdaptiveChunkSize(Len(data), BestRTT(rtts), MinChunkSize, MaxChunkSize),
                     FixedChunkSize} :
            size > 0 => /\ Chunk(data, size) \in Seq(Blocks)
                        /\ ManifestOf(Chunk(data, size)) \in Manifests

-----------------------------------------------------------------------------
(* The request. *)

NewRequest == [pc |-> "new", data |-> << >>, blocks |-> << >>, next |-> 1]

PublishInit ==
    /\ Init
    /\ adaptive \in BOOLEAN
    /\ request = [r \in Requests |-> NewRequest]
    /\ announcing = [r \in Requests |-> << >>]
    /\ announced = {} /\ deleted = {}

\* The file is read and cut.  Chunk refuses the size 0, which the adaptive
\* size of an empty file is.
Receive(r, data, rtts) ==
    /\ running /\ request[r].pc = "new"
    /\ request' = [request EXCEPT ![r] =
           IF ChunkSize(data, rtts) <= 0
           THEN [NewRequest EXCEPT !.pc = "error"]
           ELSE [pc |-> "store", data |-> data, next |-> 1,
                 blocks |-> Chunk(data, ChunkSize(data, rtts))]]
    /\ UNCHANGED <<vars, adaptive, announcing, announced, deleted>>

AtManifest(q) == q.next > Len(q.blocks)

\* Mutant of StoreNext: the manifest is stored first, the blocks after it.
StoreNextManifestFirst(r) ==
    LET q == request[r]
    IN  /\ q.pc = "store"
        /\ Put(IF q.next = 1 THEN ManifestOf(q.blocks) ELSE q.blocks[q.next - 1])
        /\ request' = [request EXCEPT ![r].pc = "putting"]
        /\ UNCHANGED <<adaptive, announcing, announced, deleted>>

\* Store.Put of the next block, or PutManifest of the signed manifest, waits
\* for Store.mu and takes it.
StoreNext(r) ==
    LET q == request[r]
    IN  /\ q.pc = "store"
        /\ Put(IF AtManifest(q) THEN ManifestOf(q.blocks) ELSE q.blocks[q.next])
        /\ request' = [request EXCEPT ![r].pc = "putting"]
        /\ UNCHANGED <<adaptive, announcing, announced, deleted>>

Stored(f) == deleted' = deleted \ {f}

\* Put returns nil.  After the last block comes the manifest; after the
\* manifest the goroutine is started and the request is answered.
PutReturns(r) ==
    LET q == request[r]
    IN  /\ q.pc = "putting"
        /\ WriteEnd /\ Stored(Target)
        /\ IF AtManifest(q)
           THEN /\ request' = [request EXCEPT ![r].pc = "ok"]
                /\ announcing' = [announcing EXCEPT ![r] = <<ManifestOf(q.blocks)>> \o q.blocks]
           ELSE /\ request' = [request EXCEPT ![r].pc = "store", ![r].next = q.next + 1]
                /\ UNCHANGED announcing
        /\ UNCHANGED <<adaptive, announced>>

\* Mutant of PutErrors: the error of a block is logged and the loop goes on.
PutErrorsIgnored(r) ==
    /\ request[r].pc = "putting"
    /\ WriteFails
    /\ request' = [request EXCEPT ![r] =
           IF AtManifest(@) THEN [@ EXCEPT !.pc = "error"]
           ELSE [@ EXCEPT !.pc = "store", !.next = @ + 1]]
    /\ UNCHANGED <<adaptive, announcing, announced, deleted>>

\* Put returns an error, which answers the request.
PutErrors(r) ==
    /\ request[r].pc = "putting"
    /\ WriteFails
    /\ request' = [request EXCEPT ![r].pc = "error"]
    /\ UNCHANGED <<adaptive, announcing, announced, deleted>>

\* Mutant of Announce: a CID that the DHT did not take is tried again later.
AnnounceUntilTaken(r) ==
    /\ running /\ announcing[r] # << >>
    /\ \/ /\ announced' = announced \cup {Head(announcing[r])}
          /\ announcing' = [announcing EXCEPT ![r] = Tail(@)]
       \/ /\ announcing' = [announcing EXCEPT ![r] = Append(Tail(@), Head(@))]
          /\ UNCHANGED announced
    /\ UNCHANGED <<vars, adaptive, request, deleted>>

\* ProvideBlocks: an error of Provide, such as the end of the 30 seconds, is
\* logged, and the next CID is tried.
Announce(r) ==
    /\ running /\ announcing[r] # << >>
    /\ announced' \in {announced, announced \cup {Head(announcing[r])}}
    /\ announcing' = [announcing EXCEPT ![r] = Tail(@)]
    /\ UNCHANGED <<vars, adaptive, request, deleted>>

-----------------------------------------------------------------------------
(* The rest of the node. *)

Putting == {r \in Requests : request[r].pc = "putting"}

\* The write in progress takes a step that no request waits for: its first
\* one, or any step of a write by somebody else.
OtherWrite ==
    /\ \/ OpenTruncate /\ UNCHANGED deleted
       \/ Putting = {} /\ WriteEnd /\ Stored(Target)
       \/ Putting = {} /\ WriteFails /\ UNCHANGED deleted
    /\ UNCHANGED <<adaptive, request, announcing, announced>>

\* Blocks fetched from or pushed by peers, and fragments.
OtherPut ==
    /\ \E f \in Blocks \cup Fragments : Put(f)
    /\ UNCHANGED publishVars

\* handlePin: POST pins, DELETE unpins.
HandlePin(c) ==
    /\ Pin(c) \/ Unpin(c)
    /\ UNCHANGED publishVars

\* Only the data-loss benchmark deletes.
DeleteBlock(c) ==
    /\ Delete(c)
    /\ deleted' = deleted \cup {c}
    /\ UNCHANGED <<adaptive, request, announcing, announced>>

\* The goroutines of the requests die with the process; nothing announces
\* their CIDs again after a restart.
ProcessDies ==
    /\ Crash
    /\ request' = [r \in Requests |->
           IF request[r].pc \in {"store", "putting"}
           THEN [request[r] EXCEPT !.pc = "lost"] ELSE request[r]]
    /\ announcing' = [r \in Requests |-> << >>]
    /\ UNCHANGED <<adaptive, announced, deleted>>

ProcessRestarts == Restart /\ UNCHANGED publishVars

PublishNext ==
    \/ \E r \in Requests :
           \/ \E data \in Sources, rtts \in RTTLists : Receive(r, data, rtts)
           \/ StoreNext(r) \/ PutReturns(r) \/ PutErrors(r) \/ Announce(r)
    \/ \E c \in Blocks : DeleteBlock(c)
    \/ \E c \in CIDs : HandlePin(c)
    \/ OtherWrite \/ OtherPut \/ ProcessDies \/ ProcessRestarts

PublishSpec == PublishInit /\ [][PublishNext]_allVars

\* The holder of Store.mu runs on; a goroutine that waits for it gets it in
\* the end (sync.RWMutex does not starve a writer); Provide ends with its
\* context at the latest.
PublishFairSpec ==
    /\ PublishSpec
    /\ WF_allVars(OtherWrite \/ \E r \in Requests : PutReturns(r) \/ PutErrors(r))
    /\ \A r \in Requests : SF_allVars(StoreNext(r)) /\ WF_allVars(Announce(r))

-----------------------------------------------------------------------------
(* Correctness. *)

\* The values of the variables that are added to the store's.
PublishTypeOK ==
    /\ TypeOK
    /\ adaptive \in BOOLEAN
    /\ \A r \in Requests :
           /\ request[r].pc \in {"new", "store", "putting", "ok", "error", "lost"}
           /\ ToSet(request[r].blocks) \subseteq Blocks
           /\ request[r].next \in 1 .. Len(request[r].blocks) + 1
    /\ \A r \in Requests : ToSet(announcing[r]) \subseteq Content
    /\ announced \in SUBSET Content /\ deleted \in SUBSET Blocks
    /\ Cardinality(Putting) <= 1

\* Whoever reads a manifest from the store can read the blocks it names:
\* whatever fails and whoever writes the same blocks at the same time, each is
\* answered whole, except one that a later write left torn or that was deleted.
\* And the blocks of a file whose publication was reported make up that file.
PublishedFilesAreWhole ==
    /\ \A r \in Requests :
           request[r].pc = "ok" => FlattenSeq(request[r].blocks) = request[r].data
    /\ Unlocked => \A m \in Manifests : Answer(m) = "whole" =>
           \A c \in ToSet(m[2]) : Answer(c) = "whole" \/ c \in interrupted \cup deleted

\* What the DHT was told can be served: a CID that was announced is whole in the
\* store, through failed writes, crashes and restarts, unless it was deleted or
\* a later write of it was cut short.
AnnouncedIsStored ==
    Unlocked => \A c \in announced : Answer(c) = "whole" \/ c \in interrupted \cup deleted

\* A publication comes to an end: it is answered and its announcements are
\* over, if the process lives.
PublishEnds ==
    \A r \in Requests :
        (request[r].pc # "new") ~>
            (request[r].pc \in {"ok", "error", "lost"} /\ announcing[r] = << >>)

SampleRTTs == {0, 4, 5, 10, 11, 50, 51}

\* AdaptiveChunkSize on files of up to 300 bytes, before any is published: some
\* chunk size for every file that is not empty, within the limits, with at most
\* one chunk more than "Target 4-16 chunks" says (chunker.go:78) unless the
\* upper limit forces it, and never larger chunks on a faster path.  The RTT it
\* is given is that of the fastest path in whatever order the peers are listed,
\* unless a path of exactly 10 ms is among them.
AdaptiveSizing ==
    adaptive /\ Unlocked /\ faults = 0 /\ disk = [f \in Files |-> "absent"] =>
        /\ \A size \in 1 .. 300, lo \in {16, 20}, hi \in {20, 64}, rtt \in SampleRTTs :
               LET chunk == AdaptiveChunkSize(size, rtt, lo, hi)
               IN  /\ chunk \in 1 .. hi
                   /\ chunk < hi => NumChunks(size, chunk) <= 17
                   /\ \A faster \in {f \in SampleRTTs : f < rtt} :
                          AdaptiveChunkSize(size, faster, lo, hi) <= chunk
        /\ \A rtts \in BoundedSeq(SampleRTTs \ {10}, 3) :
               BestRTT(rtts) = IF rtts = << >> THEN 10 ELSE Min(ToSet(rtts))

=============================================================================
