---------------------------- MODULE CacheSummary ----------------------------
(***************************************************************************)
(* Cooperative caching: a node tells its peers by a Bloom filter what its  *)
(* block cache holds (internal/cache/bloom.go, internal/protocol/          *)
(* cachesummary.go, internal/node/node.go: broadcastCacheSummary).         *)
(*                                                                         *)
(* Every summary travels on a stream of its own and is handled by a        *)
(* goroutine of its own: summaries arrive in any order, or not at all.     *)
(* The peers' PeerBloomStores are seen from the one node that sends: they  *)
(* file its filters under the peer ID it had when it sent them.            *)
(*                                                                         *)
(* The loop is "off" when it does not run, "idle" between broadcasts, at   *)
(* "send" between two peers, and at p while peer p does not read: the      *)
(* write has no deadline.                                                  *)
(***************************************************************************)
EXTENDS Network, Integers, FiniteSets, FiniteSetsExt, TLC

CONSTANTS
    CIDs, IDs,
    MinItems,      \* the least number of items a filter is sized for: 100
    MaxItems,      \* the largest number for which it fits in a message: 1 MB
    Hashes,        \* the bits of every CID in a filter of every size
    MaxStreams     \* bound on the summaries on their way

ASSUME SummaryAssumption ==
    /\ IsFiniteSet(CIDs) /\ MinItems \in Nat \ {0} /\ MaxStreams \in Nat
    /\ MaxItems \in Nat
    /\ \A n \in MinItems .. Max({MinItems, Cardinality(CIDs)}) : Hashes[n] \in [CIDs -> SUBSET Nat]

VARIABLES
    cached,        \* BlockCache.CIDs()
    loop,          \* where cacheSummaryLoop stands
    data, todo,    \* broadcastCacheSummary: the message and the peers to come
    streams,       \* the summaries on their way: records of to, from and data
    filters        \* filters[p][i]: what peer p knows of the node with ID i

summaryVars == <<cached, connected, loop, data, todo, streams, filters>>

NoFilter == [items |-> 0, bits |-> {}]
NoData == << >>

-----------------------------------------------------------------------------
(* The Bloom filter. *)

NewBloomFilter(expectedItems) == [items |-> expectedItems, bits |-> {}]

Indices(bf, cid) == Hashes[bf.items][cid]

Add(bf, cids) == [bf EXCEPT !.bits = @ \cup UNION {Indices(bf, c) : c \in cids}]

MayContain(bf, cid) == Indices(bf, cid) \subseteq bf.bits

\* The filter that broadcastCacheSummary builds.
Summary(cids) == Add(NewBloomFilter(Max({Cardinality(cids), MinItems})), cids)

\* The wire format carries the size of the filter, which hashing depends on.
Bytes(bf) == <<bf.items, bf.bits>>

\* The limit on the length of a message.
Fits(bytes) == bytes[1] <= MaxItems

\* Mutant of BloomFromBytes: the receiver assumes the usual size.
BloomFromBytesOfUsualSize(bytes) == [items |-> MinItems, bits |-> bytes[2]]

BloomFromBytes(bytes) == [items |-> bytes[1], bits |-> bytes[2]]

\* PeerMayHave of peer p: FALSE for a node it has no filter of.
PeerMayHave(p, id, cid) ==
    filters[p][id] # NoFilter /\ MayContain(filters[p][id], cid)

-----------------------------------------------------------------------------
(* The sending node.  id is its peer ID; open says that its context is not  *)
(* cancelled.                                                               *)

SummaryInit ==
    /\ cached = {} /\ connected = {}
    /\ loop = "off" /\ data = NoData /\ todo = {}
    /\ streams = {}
    /\ filters = [p \in Peers |-> [i \in IDs |-> NoFilter]]

\* Get, Put and evictions change what is cached.
CacheChanges(c) ==
    /\ cached' = IF c \in cached THEN cached \ {c} ELSE cached \cup {c}
    /\ UNCHANGED <<connected, loop, data, todo, streams, filters>>

\* The ticker fires.  An empty cache is not announced.  (The blocks are listed
\* first, then the peers, by which nothing is decided.)
Tick ==
    /\ loop = "idle" /\ cached # {}
    /\ loop' = "send" /\ data' = Bytes(Summary(cached)) /\ todo' = connected
    /\ UNCHANGED <<cached, connected, streams, filters>>

Message(p, id) == [to |-> p, from |-> id, data |-> data]

\* SendCacheSummary to one peer: the summary is on its way.  The context only
\* bounds the opening of the stream.
SendOK(p, id, open) ==
    /\ \/ loop = "send" /\ open
       \/ loop = p
    /\ p \in todo /\ p \in connected
    /\ Cardinality(streams \cup {Message(p, id)}) <= MaxStreams
    /\ streams' = streams \cup {Message(p, id)}
    /\ todo' = todo \ {p} /\ loop' = "send"
    /\ UNCHANGED <<cached, connected, data, filters>>

\* The stream cannot be opened, or breaks: a write that hangs ends with the
\* connection.
SendFails(p) ==
    /\ loop = "send" \/ (loop = p /\ p \notin connected)
    /\ p \in todo
    /\ todo' = todo \ {p} /\ loop' = "send"
    /\ UNCHANGED <<cached, connected, data, streams, filters>>

\* The peer does not read.
SendHangs(p, open) ==
    /\ loop = "send" /\ p \in todo
    /\ open /\ p \in connected
    /\ loop' = p
    /\ UNCHANGED <<cached, connected, data, todo, streams, filters>>

BroadcastDone ==
    /\ loop = "send" /\ todo = {}
    /\ loop' = "idle" /\ data' = NoData
    /\ UNCHANGED <<cached, connected, todo, streams, filters>>

-----------------------------------------------------------------------------
(* The peers. *)

\* PeerBloomStore.Set puts the filter in the place of the one before.
OnReceive(p, from, bytes) == filters' = [filters EXCEPT ![p][from] = BloomFromBytes(bytes)]

\* The handler of the stream reads the length first and gives up if it is too
\* large: the filter of a cache that has outgrown it stays as it was.
Receive(m) ==
    /\ m \in streams
    /\ streams' = streams \ {m}
    /\ IF Fits(m.data) THEN OnReceive(m.to, m.from, m.data) ELSE UNCHANGED filters
    /\ UNCHANGED <<cached, connected, loop, data, todo>>

Lose(m) ==
    /\ m \in streams
    /\ streams' = streams \ {m}
    /\ UNCHANGED <<cached, connected, loop, data, todo, filters>>

=============================================================================
