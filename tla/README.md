# A TLA+ model of PathAware-libp2p

This directory is a verification project for the Go program in `src/`: a
peer-to-peer content node that measures the paths to its peers, stores and
caches content-addressed blocks, and fetches files from other nodes. TLA+
modules model its components; TLC checks them on small instances; TLAPS proves
the safety properties that hold for every value of the constants. `PROJECT.json` lists
components, runs, mutants, findings, hazards and theorems, and maps every
definition to the source lines it models.

    tlc -workers 2 -config LRUCache.cfg MCLRUCache    # one run
    tlapm LRUCacheProofs.tla                          # the proofs

## 1. The system

| Part | State | Operations | What is hard |
|---|---|---|---|
| Block cache (`cache/lru.go`) | map, recency list, byte account, fetch counts | Get, Put, Evict, evictOldest | Put asks the store about pins, under another lock, in the middle of its scan |
| Content store (`content/store.go`) | block, manifest and fragment files; pins in memory and in `pins.json` | Put, Get, Delete, Pin, Unpin, load at start | writes are not atomic; crashes, full disks |
| Path metrics (`pathpolicy/path.go`) | ring buffer of RTTs, moving success rate | RecordProbe | window and average at their edges |
| Path manager (`pathpolicy/manager.go`, `protocol/probe.go`) | path set per target | probe round, prune, BestPath, DisjointPaths, Stop | peers come and go during a round; probes wait without deadline |
| Policies (`pathpolicy/policy.go`) | counters and maps of the policies that learn | Score, SelectPath | shared between goroutines without locks; scores read while probes are recorded |
| Block fetch (`node/api.go`, `protocol/blocktransfer.go`) | race goroutines, result channel | cache, store, providers, race, serial fallback | results in any order, cancelled contexts, silent peers |
| File fetch (`node/api.go`) | per-request blocks and error | batches of goroutines, response | goroutines share results and blocks |
| Transfer and push (`protocol/blocktransfer.go`) | none of their own: store and cache of both ends | serve, fetch, push | damaged copies, crashes, ignored errors |
| Replication (`content/replication.go`, `node/node.go`) | fetch counters | periodic push, erasure-coded push | failed and silent receivers, peers that come and go, errors nobody notices |
| Publishing (`node/api.go`, `content/chunker.go`) | files written in sequence | chunk, store, sign, announce | failure half-way, announcement after the answer |
| Cooperative caching (`cache/bloom.go`, `protocol/cachesummary.go`) | a Bloom filter per peer | broadcast, receive, boost providers | lost, late and stale filters; writes without deadline |
| Erasure coding (`erasure/erasure.go`) | none | encode, decode | which fragments suffice |
| Node (`node/node.go`, `transport/`, `cmd/daemon.go`) | key file, host, context, loops | Start, Stop | crashes while the key is written; shutdown against loops |

Interaction: the cache calls the store (`IsPinned`) while it holds its own
mutex; the block and push handlers call both; `handleFetch` calls cache, store,
DHT and path manager from several goroutines; the probe loop is a goroutine of
its own that shares the path sets with the fetches. Publishing writes through
the store and leaves a goroutine behind that talks to the DHT; two more loops of
the node push popular blocks and send cache summaries, one peer after another.

## 2. The modules

| Module | Models | Detail |
|---|---|---|
| `LRUCache` | the cache and the pins it asks about | one action per step of `evictOldest` that another goroutine can come before; everything under `c.mu` alone is one action |
| `ContentStore` | the store of one node | `os.WriteFile` is open-and-truncate, then fill; each may fail, and the process may die between; a start that cannot read or parse `pins.json` has no pins |
| `PathMetrics` | `RecordProbe` and what is computed of it | operators; a rate is an integer number of `RateUnit`-ths, rounded to the nearest |
| `PathManager` | probe loop, probes, path sets, pruning | peers connect, leave, fail and hang at any time; `Short` is the eight-character prefix path IDs are made of |
| `PathSelection` | the ten policies, `BestPath`, `DisjointPaths`, and the order of providers | scores are fractions, with a table (`InvLog`) for the logarithmic terms; each unlocked read and write of a counter or map is a step, and a map access that overlaps a write may end the process; what UCB1, Thompson sampling and LinUCB prefer is any path; their maps are shared by all targets and have path IDs (`ID`) as keys, which paths to different targets have in common |
| `BlockFetch` | one block: cache, store, providers, race, fallback | providers in any order; each may serve, lack, corrupt, fail or hang, and change |
| `FileService` | what `GET /api/fetch` promises | the abstract specification: no batches, goroutines, caches or providers |
| `FileFetch` | `handleFetch` over all chunks of a manifest | a network fetch is one step that succeeds with verified bytes or fails (`BlockFetch` is its detail); copies are whole, torn or absent; refines `FileService` |
| `Publish` | `handlePublish`, `handlePin` and the other users of the store | extends `ContentStore`: every store call of a request is a write of that module; files are sequences of bytes, a CID is represented by the bytes it names |
| `BlockExchange` | fetch and push of one block between several nodes | the store's two-step write, the cache and both protocols together, with crashes of any node |
| `Network` | the peers of a node and which are connected | shared by the two loops below |
| `Replication` | tracker, replication loop, spreading of blocks or fragments | a push arrives, fails or hangs; a receiver that cannot store a block acknowledges it all the same; fragments are numbered, any `DataShards` of them decode |
| `CacheSummary` | Bloom filters, their broadcast and reception | a filter is a set of bits; `Hashes` gives the bits of a CID in a filter of each size, so that there are false positives; summaries in flight are a set, and one larger than the limit of a megabyte (`MaxItems`) is dropped by its receiver |
| `Node` | Start, Stop, `peer.key`, connections and loops | extends `CacheSummary`; of `replicationLoop` only whether it waits, pushes or has ended |

`MC*` modules give the instances. A module `XProofs` holds the theorems about
`X`; `PublishProofs` also those about `ContentStore`, `NodeProofs` those about
`Replication` and about `Node`, and `FileFetchProofs` the refinement of
`FileService`. Section 4 describes them. State and actions carry the names of the
code's fields and functions where there is one; comments say where they do not.
Definitions called "Mutant of ..." are broken variants of the definition that
follows them. They are not part of any specification: each is what a plausible
bug would look like, and TLC finds a property violated when it is put in the
place of the original.

### Abstractions

* A block is its CID and, where it matters, its length or whether the copy is
  damaged. CIDs are not computed: "whole" is exactly what verification accepts.
* In `LRUCache` the length of a block is not a function of its CID, because
  blocks read from disk are not verified. `Budget` needs one length per CID.
* Auxiliary variables (marked so) record history that a property speaks of and
  never guard an action.
* `BlockFetch` and `FileFetch` follow one request. Other requests appear in
  `FileFetch` as evictions, pushes and served blocks.
* `PathManager` counts time in probe intervals.
* In `Publish` the signature of a manifest and its name are left out: neither
  decides what is stored.
* `Node` follows one node; its peers appear as connections and as the filters
  they hold of it. A process that dies loses everything but `peer.key`.

### The refinement

`FileFetch!ImplementsFileService` says that `FileFetch` implements
`FileService` under this mapping: the chunks *obtained* are those in the
request's `blocks`, a chunk is *lost* once its goroutine has failed, the answer is the
status of the response, and what is *sent* are the numbers of the blocks written
to it. The abstract specification accepts only when all chunks are obtained and
none is lost, refuses only for a lost chunk or before any chunk, and sends in
order: "the whole file or an error, and no error without a reason".

## 3. The runs

`TypeOK` is checked for `LRUCache`, where it says something about positions in
the list. In the other modules it documents the variables; it holds, and goes
into a configuration whenever the module changes.

Properties that hold:

| Run | Shows | Bounds |
|---|---|---|
| `cache` | the victim of an eviction is the oldest entry without an excuse, whatever is pinned and unpinned during the scan; map, list and byte account agree at every moment; a Put returns unless every entry is pinned | four CIDs of size one in a cache of four, so that the scanned half has two entries, and one that is small or larger than the whole cache; two CIDs that may be pinned; enough hits to make two entries popular |
| `path_rounds` | every result is recorded under the ID of its path, and none is lost, while peers join, leave and hang; the moving average tells paths that failed for long from those that answer, and no path that answered within the timeout is pruned; the round ends and Stop ends the loop unless a peer hangs for good | the IDs of all peers begin alike, as those of Ed25519 keys do. Two kinds of histories (`Histories`): one round over a peer and two relays, which are targets of the round, too, while one of them hangs, leaves and comes back at any moment (`Turbulent`); and nine intervals with a timeout of seven, without relays, in which one peer fails, leaves and returns between rounds, another stays, and Stop comes before or after the first tick (`Quiet`) |
| `path_selection` | by latency or reliability BestPath never answers with a silent path when another had answered; only overlapping calls can crash; the hand-written sorts are stable and complete | two paths to one peer and one to another with the ID of one of them, three probes of two speeds or failed, two goroutines with two calls each; an action constraint leaves out what a policy does not look at (`WhatMatters`) |
| `block_fetch` | one steadily good provider suffices; every goroutine of a race is accounted for once and ends; the fetch ends unless a provider hangs for good, and in a race even then if another one is good | two providers, any initial behaviour, two changes: a provider may fail the race and serve the fallback, or the reverse |
| `file_fetch` | the handler implements `FileService`; batches do not overlap; only chunks whose own write failed are ever sent damaged; the request is answered | five chunks in batches of two: two full batches and a short one, one block fetched twice at once, one again in a later batch |
| `publish` | a manifest in the store has its blocks, an announced CID is in the store, publications and their announcements end; acknowledged pins and unpins hold through faults; adaptive chunk sizes keep their limits | two requests for two files, one of them empty, the other cut in two different blocks or in three equal ones; two faults; `Separately` keeps pins and publications apart, which share nothing but the lock |
| `exchange` | damage stays where it was done; a publisher's copy survives pushes back to it | three nodes, two transfers, two faults |
| `replication` | if fetches were reported, every popular block of the store would reach every peer that stays connected; fragments survive the loss of as many peers as their shares allow | two blocks, one of them not in the store; two peers; two data and two parity fragments, so that a peer holds two |
| `node` | the node keeps its peer ID; Stop ends both loops and closes the host; a peer's view of the cache becomes true, up to the false positives of the filter of just this cache | three CIDs; filters for one and for two items, with false positives, are sent, that for three is too large; one peer that sees the cache grow and shrink, or two, so that a silent one keeps the loop from the other (`FewContents`); two keys, two summaries in flight at once, so that they overtake each other; `Separately` keeps lives with a replaced key and lives with summaries apart |

Properties that the code violates (each states what a comment or a document of
the repository says; `findings` in `PROJECT.json` quotes it):

| Run | Violated | Because |
|---|---|---|
| `path_ids` | `OnePathPerRelay` | the prefix of Ed25519 peer IDs is the same for all peers |
| `path_ucb1` | `UntriedFirst` | UCB1 counts selections by path ID, in one map for all targets; the direct paths to all peers have one ID, and so have all relay paths: a path to one peer passes for tried because one to another peer was |
| `replication_unwired` | `PopularBlocksSpread` | no code of the node calls `RecordFetch`: `Reporting` is FALSE in the program as it is. `replication` shows that the rest of the mechanism would do |

Some properties carry an exception that is a behaviour of the code worth
knowing. `PutCompletesUnlessAllPinned`: with every entry pinned, Put loops for
ever under `c.mu`, and every user of the cache waits for it.
`FetchEndsUnlessHung`: the answer of a provider is read without a deadline
(`docs/protocols.md:223` lists a read timeout), so that a silent one blocks the
fetch. `PopularBlocksSpread` and `SummariesConverge`: a peer that takes a stream
and neither reads nor answers stops the loop for all others, since the contexts
with timeouts only bound the opening of the stream. `SummariesConverge` has
two more exceptions: an empty cache is never announced, and one so large that its
filter exceeds a megabyte is announced in vain; the last filter stays. And it
claims no more than a Bloom filter can: what the filter of the present cache
does not tell from its contents (`internal/cache/bloom.go:60`) is believed to be
cached, but nothing that only an older filter contains.
`SurvivesPeerLoss` counts shares: with two peers and the default of four and two
fragments, one peer holds three and may not be lost. Nothing in the node reads
fragments back. `IdentityKept` excepts a key that could not be read for whatever
reason: the node then replaces it. `AdaptiveSizing` leaves out a path of exactly
10 ms, which counts as none. An empty file cannot be published with adaptive
chunking: its chunk size is 0. `AnnouncedIsStored` has no converse: CIDs whose
announcement fails or whose process dies are not announced again.
`SteadyPinsSurvive` speaks of blocks pinned throughout the call: a pin
that arrives between the question and the removal does not protect. `Budget`
needs one length per CID: replacing a block in place does not check for room.
`RoundEnds` and `StopEndsLoop` need peers that do not hang: the echo is read
without a deadline, too. `BodyIntact` excepts chunks whose write failed: blocks
from the store are not verified. `AckedPinsInForce` excepts `forgotten` pins:
`pins.json` is truncated in place, and a torn one is read as no pins; so is a whole
one when reading it fails for whatever reason (`internal/content/store.go:202`), and
the next Pin then writes a file without them. `OwnMetrics` goes by path ID: relays
whose IDs begin alike share one path, whose metrics mix the results of all of them.
`NodeStops` is about the host and the loops: the server of the Prometheus metrics
(`internal/node/node.go:151`) has no way to be stopped. In
`PruneKeepsLivePaths` the converse does not hold: a path that is probed but never
answers is kept, since the time compared is that of the last probe. In
`PathManager` a probe over a relay is answered by the relay (`StreamTarget`), so
such a path says nothing of its target; `docs/protocols.md:84-89` has the relay
forward the probe, which no code does. In `BlockExchange` a push whose write
failed is acknowledged all the same. `SilentPathLoses` does not hold for
`hop-count` and `balanced`: the hop count of a path that never answered is 0, that
of any path that did is 1, direct or relayed, so `hop-count` prefers silent paths
and tells nothing else apart. `CrashNeedsOverlap` leaves the crashes of
overlapping calls: a fetch has several goroutines, and under `ucb1`, `thompson` and
`contextual` two of them can bring the process down. No two paths to a target
share a relay, so the conflict check of `DisjointPaths` never drops a path; the
fetch does not call `DisjointPaths`, although its comment says so
(`internal/node/api.go:597`).

### Fairness

* `LRUCache!FairSpec`: weak fairness of the steps inside Put. Go schedules a
  runnable goroutine, and the store's lock is only held briefly. Nothing makes
  anybody call, pin or unpin.
* `PathManager!FairSpec`: weak fairness of the loop and of each probe. A peer
  that is up answers or resets the stream; a hung peer has no enabled
  step. Ticks are not fair. That Stop ends the loop relies on the bounded number
  of ticks; in the code, on `select` not preferring the ticker for ever.
* `BlockFetch!FairSpec`: weak fairness of the fetching goroutine and of each
  racer, with the same reading of a hung provider.
* `FileFetch!FairSpec`: weak fairness of the handler and of each chunk's
  goroutine, so that a network fetch ends. `BlockFetch` shows when it does.

* `Publish!PublishFairSpec`: weak fairness of the holder of `Store.mu` and of
  the announcements, which end with their context; strong fairness of getting
  `Store.mu`, because `sync.RWMutex` does not starve a waiting writer.
* `Replication!ReplicationFairSpec`: weak fairness of the loop outside a push that hangs;
  a push that hangs ends when its connection does. Strong fairness of the arrival
  of each block at each peer: pushes that are
  repeated every minute over a connection do not all fail.
* `Node!FairSpec`: weak fairness of Stop, of the summary loop outside a write
  that hangs, and of the end of writes and pushes when their connection is
  gone. Strong fairness of the exits, as `select` chooses at random between the
  ticker and the cancelled context, and of sending and receiving what is cached:
  summaries that are repeated every 30 seconds do not all get lost. Neither starting nor exiting
  nor connecting is fair. Of the summaries, each stream ends, with its arrival or
  without, and one of those opened again and again to tell a peer the present
  contents arrives; no other summary need ever arrive.

Deadlock checking is off where the modelled request or probe series ends, and
for `Node`, which may stay down.

## 4. The proofs

The theorems hold for every value of the constants that satisfies the
assumptions of the modules, and for every interleaving: any number of nodes,
peers, goroutines, requests, chunks, faults and rounds. `PROJECT.json` lists them
with the properties of the runs that they state.

### Along which argument

Hardly any of the properties is inductive. Each module has an inductive
invariant (`Inv`, `StoreInv`, `PublishInv`, `SilentInv`, `RoundInv`, `RepInv`,
`KeyInv`), one lemma per action that
preserves it, and theorems that derive the properties from it.

`LRUCacheProofs` (`TypeOK`, `ListMatchesMap`, `SteadyPinsSurvive`,
`VictimIsOldest`, `SecondChance`, `BytesAccounted`, `Budget`).
`VictimIsOldest` and `SecondChance` speak only of the moment of removal. `Inv`
adds what the scan has established so far: every entry behind the candidate was
popular when the call began or has been pinned during it (`ScanInv`); in the
fallback, every entry behind the candidate has been pinned, and all of the
scanned part was popular or pinned (`FallbackInv`); `steadyPins` is within the
present pins and those are within `seenPins` (`PinsInv`), which is where Pin and
Unpin interfere; and the block being put is not in the map, since the mutex is
held (`FrameInv`). `MoveToFront`, `RemoveAt` and the push to the front get lemmas
of their own, stated with positions, because injectivity and the key set of the
list are what every action must keep. `Budget` needs a second invariant on the
recorded sizes: a replacement does not change the account, and an insertion
happens only when there is room or the list is empty. `BytesAccounted` is about a
sum over a set. The sum of the library picks the elements in an unknown order, so
the proof first shows that it is well defined and does not depend on that order
(`SumsExist`, `SumsAgree`), then what removing an element does to it
(`SumWithout`). Induction theorems that take an operator cannot be
instantiated here; these lemmas take a counterexample of least cardinality instead
(`WFMin`).

`PublishProofs`, the store (`TypeOK`, `TornOnlyIfInterrupted`,
`AckedPinsInForce`, `RevokedPinsStayOff`). The properties speak of what callers
see between two calls. `StoreInv` extends them to the moments inside a call and
between a crash and the next start: what the write in progress does
(`WritingInv`), why a file is torn (`TornInv`), and that acknowledged pins are in
memory while the process runs and in `pins.json` whenever it is whole
(`AckedInv`, `RevokedInv`). A start that cannot read or parse the file moves them
to `forgotten`.

`PublishProofs`, the requests (`PublishedFilesAreWhole`, `AnnouncedIsStored`,
`PublishTypeOK`, `AdaptiveSizing`). That every behaviour of `Publish` is one of
`ContentStore` (`PublishImplementsStore`) carries `StoreInv` over. A block is
*safe* if it is whole or excused: deleted, or hit by a later write that was cut
short or goes on. `PublishInv` says what is safe when: the blocks of a request
before the next one (`StoredSoFar`), all blocks of a manifest that is or is about
to be on the disk (`ManifestsInv`), whatever is or may yet be announced
(`AnnouncingInv`); `LockInv` says that the write in progress belongs to one
request. `ChunksMakeUpFile` shows that `Chunk` loses, repeats and
reorders nothing. `AdaptiveChunkSizeBounds` and `BestRTTIsLeast` hold for
every size, limit and list of RTTs, where TLC looks at samples.

`FileFetchProofs` (`BatchesDoNotOverlap`, `BodyIntact`,
`ImplementsFileService`). `Inv` says which chunks are decided at which point of
the loop over the batches (`BatchInv`), what a goroutine has in hand at each of
its steps (`WorkerInv`), that a damaged copy in cache or store is one of a chunk
whose write failed (`DamageInv`), and how the response relates to the blocks and
the error (`ResponseInv`). Under `Inv` every step is one of `FileService` or a
stutter under the refinement mapping (`FetchImplementsService`).

`BlockFetchProofs` (`GoodProviderSuffices`, `RaceAccounted`, `SendNeverBlocks`).
`Inv` keeps the account of the goroutines, *still to come + waiting in the
channel + received = started*, also after the race is over, when nobody receives
any more: the channel has room for all, so that no goroutine is left behind
blocked. For the good provider: whichever of race and fallback the fetch is in,
the provider is still ahead of it (`Stages`, `Tried`).

`BlockExchangeProofs` (`DamageIsLocal`, `BlockSurvives`). `TransferInv` says of
every transfer what its copy may be at each step: an unverified copy under way
may be torn only if its sender had a write cut short, a verified one is whole.

`PathManagerProofs` (`TypeOK`, `RateTellsDeadFromLive`,
`PruneKeepsLivePaths`, `OwnMetrics`, `EveryResultRecorded`), for any `Short`, the
constant one of Ed25519 peer IDs included. `RateBounds` bounds the moving average
from above and below by the number of failures in a row, the error of rounding
included. `PathOK` adds that a path in a path set has been probed, and was last
probed no earlier than it last answered, from which `PruneKeepsLivePaths`, an
action property, follows. `EveryResultRecorded` speaks of the end of a round:
`RoundInv` says that the targets which are done have, under the ID of each relay
of the round, a path that took in its results, and the present one for each
result recorded.

`PathSelectionProofs`, the policies that learn (`TypeOK`, `CrashNeedsOverlap`,
`EveryIDTried`). `CallOK` says what a call of BestPath knows, at each step,
of the counters and maps it shares; `CallOKStays` is the non-interference
argument: others only ever add to them. `PriorsComplete`: as long as no calls
overlapped, only a call between its two writes leaves an ID in the first map and
not in the second. `EveryIDTried` is what is left of "any path that hasn't been
tried yet" first: UCB1 exploits only when something was selected under the ID of
each path it looks at, in spite of lost updates (`CountsOK`). Assumed of IDs is
only that paths to one target have different ones, as their path set has them as
keys.

`PathSelectionProofs`, the rankings (`RankingIsStable`, `DisjointPathsAreBest`).
The loops over the providers and the paths are folds of the library.
`PositionsFold` shows that the recursion by which such a fold is defined has a
solution, again with a least counterexample; `SortUnfolded`, `OnlyUnfolded` and
`TakeUnfolded` restate the sort, the filter and the selection as sequences of
rounds. What they have computed after k rounds is `SortRanks` (a permutation of
the first k paths in which scores descend and equal ones keep their order),
`OnlyFilters` and `TakeSelects` (a path passed over so far has a better one with
its relay, or n better ones). Scores are compared by cross multiplication, so that
the order is strict only among fractions; `ScoresType` and `StatisticsType`
show that scores are such, down to the root in the jitter. Both properties speak of
states before the first call, which keeps the run small; the proofs do not use
that.

`PathSelectionProofs`, silent paths (`SilentPathLoses`). The answer of a call
was decided some steps earlier, when the scores were read one by one and probes
were recorded in between. `SilentInv` adds that the success rate of a path is
not 0 if and only if it answered, except between the two writes of RecordProbe
(`RatesOK`), and that the best path of a scan has answered once the scan has
passed one that had when the call began (`AnsweringOK`).

`NodeProofs`, replication (`SurvivesPeerLoss`). `RepInv` says of the block under
way that, as long as no push failed, each fragment so far is at the peer whose turn
it was (`CycleInv`), and of the blocks of earlier cycles that all their fragments
still are (`SpreadInv`), while peers come and go and later cycles use them in
another order. The rest is counting (`LostFragments`): fragment i of n peers is in
column i `div` n of the row of its peer, so those lost with some peers fit
into a table of that many rows with a column per fragment of a share.

`NodeProofs`, the identity (`IdentityKept`). `KeyInv` follows the key through
the steps of writing `peer.key`, the deaths of the process between them included.

### From which assumptions

Those of the modules, which TLC evaluates in every run. Sizes, limits and bounds
are numbers of the expected range and "none"-like values are outside the sets they
stand beside. Beyond that: `BlockFetch!Others`, `PathManager!Peers`,
`Network!Peers` (for `Replication`) and `PathSelection!Paths` are finite; `Publish!ChunksAssumption` says that the set of
files that may be stored has the files a source can be cut into, so that
it restricts nothing; `PathManager!RateAssumption` makes the unit of rates at least a
thousandth, since rounding, which float64 hardly does, must not decide whether a
path is below a tenth; `PathMetrics!MetricsAssumption` makes it at least a
hundredth and rates are rounded to the nearest unit, so that, as in the code, the
rate of a path that answered does not become 0; `InvLog`, which stands for
1 / (1 + log(1 + ms)), is a non-empty table of decreasing numbers, and times beyond
it count as its last; `Policies` are among the ten of the code.

### What stays with TLC

* Liveness, and with it all fairness: `PutCompletesUnlessAllPinned`,
  `RoundEnds`, `StopEndsLoop`, `FetchEndsUnlessHung`, `RacersEnd`,
  `RaceHidesHungProviders`, `FileFetchEnds`, `PublishEnds`, `PopularBlocksSpread`,
  `NodeStops` and `SummariesConverge`.
* The three violations.

## 5. What is not modelled

* The DHT, libp2p streams and relays beyond their effect on the code, and the
  Reed-Solomon arithmetic: external libraries.
* Cryptography: whether a signature is valid is an input of `FileFetch`.
* `P95RTT`, the throughput estimate, the Prometheus metrics and the handlers of
  the control API that only format state: nothing depends on them.
* The values by which UCB1, Thompson sampling and LinUCB rank paths: floating
  point, logarithms and random draws; any path may be preferred.
* The ping protocol, an echo without state; the command line, flags and HTTP
  clients; configuration defaults, which are constants here.
* The benchmark harness and the test cluster, which run nodes and are not part
  of one. What they rely on, that a stopped node ends in a process that goes
  on, is `NodeStops`.

## 6. What is left

All parts of the node that keep state are modelled, and every safety property
that a passing run checks is proved. Liveness
is checked by TLC alone. Of the parts listed in section 5, the values by which
UCB1, Thompson sampling and LinUCB rank paths would add the most; they need
arithmetic that neither tool has.
