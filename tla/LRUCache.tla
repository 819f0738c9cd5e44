------------------------------ MODULE LRUCache ------------------------------
(***************************************************************************)
(* The in-memory block cache (internal/cache/lru.go).                      *)
(*                                                                         *)
(* Every method of the cache runs under one mutex, c.mu, so at most one    *)
(* call is in progress.  Get, Evict and a Put of a block that is already   *)
(* cached touch nothing that another goroutine can change: each is one     *)
(* action.  A Put that has to make room asks the pin checker about one     *)
(* entry after another; the pins are guarded by the store's own lock, so   *)
(* Pin and Unpin run between any two of those questions, and between an    *)
(* answer and the removal it leads to.  That Put is a sequence of actions, *)
(* and pc says where the call that holds c.mu stands:                      *)
(*                                                                         *)
(*   "unlocked"  no call in progress                                       *)
(*   "room"      Put, at the test of its eviction loop                     *)
(*   "scan"      evictOldest, in the scan of the older half of the list    *)
(*   "fallback"  evictOldest, in the search for any unpinned entry         *)
(*   "remove"    evictOldest, pin check passed, about to unlink candidate  *)
(*                                                                         *)
(* A block is its CID and its length; its bytes do not matter here.  The   *)
(* length is not a function of the CID: a block read back from disk is not *)
(* verified, so a truncated file yields a shorter block of the same CID.   *)
(***************************************************************************)
EXTENDS Integers, SequencesExt

CONSTANTS
    CIDs,                \* the CIDs of blocks
    BlockSizes,          \* the lengths a block of each CID may have
    MaxBytes,            \* NewLRUCache's maxBytes
    PopularityThreshold, \* 3 in the code
    Pinnable,            \* the CIDs that are ever pinned
    MaxGets              \* bound on the number of Get calls

ASSUME SizesAssumption == BlockSizes \in [CIDs -> SUBSET Nat]
ASSUME LimitAssumption == MaxBytes \in Nat /\ MaxGets \in Nat
ASSUME ThresholdAssumption == PopularityThreshold \in Nat \ {0}
ASSUME PinnableAssumption == Pinnable \subseteq CIDs

Block == UNION {[cid : {c}, size : BlockSizes[c]] : c \in CIDs}

VARIABLES
    items,        \* the keys of the map c.items
    eviction,     \* the list's keys, most recently used first
    size, fetchCount, \* of every list element, by key; 0 for the other CIDs
    currentBytes, hits, misses,
    pins,         \* what the pin checker answers from
    pc, arg,      \* the Put in progress and its block
    candidate,    \* position in the list, 0 for nil
    checked, maxCheck

\* Auxiliary variables: what happened since the present evictOldest began.
VARIABLES
    steadyPins,   \* the CIDs pinned at every moment of it
    seenPins,     \* the CIDs pinned at some moment of it
    wasPopular    \* the CIDs that were popular when it began

cacheVars == <<items, eviction, size, fetchCount, currentBytes>>
counters == <<hits, misses>>
frame == <<arg, candidate, checked, maxCheck>>
auxVars == <<steadyPins, seenPins, wasPopular>>
vars == <<cacheVars, counters, pins, pc, frame, auxVars>>

NoBlock == [cid |-> "none", size |-> 0]

Init ==
    /\ items = {} /\ eviction = << >>
    /\ size = [c \in CIDs |-> 0] /\ fetchCount = [c \in CIDs |-> 0]
    /\ currentBytes = 0 /\ hits = 0 /\ misses = 0
    /\ pins \in SUBSET Pinnable          \* the store loaded them from disk
    /\ pc = "unlocked" /\ arg = NoBlock
    /\ candidate = 0 /\ checked = 0 /\ maxCheck = 0
    /\ steadyPins = {} /\ seenPins = {} /\ wasPopular = {}

Position(c) == CHOOSE i \in DOMAIN eviction : eviction[i] = c
MoveToFront(c) == <<c>> \o RemoveAt(eviction, Position(c))

-----------------------------------------------------------------------------
(* Get, Evict and the Put of a cached block. *)

Get(c) ==
    /\ pc = "unlocked"
    /\ hits + misses < MaxGets
    /\ \/ /\ c \in items
          /\ fetchCount' = [fetchCount EXCEPT ![c] = @ + 1]
          /\ eviction' = MoveToFront(c)
          /\ hits' = hits + 1
          /\ UNCHANGED misses
       \/ /\ c \notin items
          /\ misses' = misses + 1
          /\ UNCHANGED <<fetchCount, eviction, hits>>
    /\ UNCHANGED <<items, size, currentBytes, pins, pc, frame, auxVars>>

\* Mutant of PutCached: the bytes of the replaced block stay on the account.
PutCachedKeepsOldBytes(b) ==
    /\ pc = "unlocked"
    /\ b.cid \in items
    /\ currentBytes' = currentBytes + b.size
    /\ size' = [size EXCEPT ![b.cid] = b.size]
    /\ eviction' = MoveToFront(b.cid)
    /\ UNCHANGED <<items, fetchCount, counters, pins, pc, frame, auxVars>>

\* A cached block is replaced in place: its fetchCount stays, and the room
\* it needs is not checked.
PutCached(b) ==
    /\ pc = "unlocked"
    /\ b.cid \in items
    /\ currentBytes' = currentBytes - size[b.cid] + b.size
    /\ size' = [size EXCEPT ![b.cid] = b.size]
    /\ eviction' = MoveToFront(b.cid)
    /\ UNCHANGED <<items, fetchCount, counters, pins, pc, frame, auxVars>>

\* Mutant of RemoveElement: the element is unlinked, its key stays in the map.
RemoveElementKeepsKey(i) ==
    /\ eviction' = RemoveAt(eviction, i)
    /\ currentBytes' = currentBytes - size[eviction[i]]
    /\ size' = [size EXCEPT ![eviction[i]] = 0]
    /\ fetchCount' = [fetchCount EXCEPT ![eviction[i]] = 0]
    /\ UNCHANGED items

RemoveElement(i) ==
    /\ eviction' = RemoveAt(eviction, i)
    /\ items' = items \ {eviction[i]}
    /\ currentBytes' = currentBytes - size[eviction[i]]
    /\ size' = [size EXCEPT ![eviction[i]] = 0]
    /\ fetchCount' = [fetchCount EXCEPT ![eviction[i]] = 0]

Evict(c) ==
    /\ pc = "unlocked"
    /\ c \in items
    /\ RemoveElement(Position(c))
    /\ UNCHANGED <<counters, pins, pc, frame, auxVars>>

-----------------------------------------------------------------------------
(* The Put of a block that is not cached. *)

PutNew(b) ==
    /\ pc = "unlocked"
    /\ b.cid \notin items
    /\ pc' = "room"
    /\ arg' = b
    /\ UNCHANGED <<cacheVars, counters, pins, candidate, checked, maxCheck, auxVars>>

NoRoom == currentBytes + arg.size > MaxBytes /\ Len(eviction) > 0

Popular(c) == fetchCount[c] >= PopularityThreshold

\* Mutant of BeginEvictOldest: the scan starts at Front, not at Back.
BeginEvictOldestAtFront ==
    /\ pc = "room" /\ NoRoom
    /\ pc' = "scan"
    /\ candidate' = 1
    /\ checked' = 0
    /\ maxCheck' = IF Len(eviction) \div 2 < 1 THEN 1 ELSE Len(eviction) \div 2
    /\ steadyPins' = pins /\ seenPins' = pins
    /\ wasPopular' = {c \in items : Popular(c)}
    /\ UNCHANGED <<cacheVars, counters, pins, arg>>

\* The loop calls evictOldest, which starts its scan at the back.
BeginEvictOldest ==
    /\ pc = "room" /\ NoRoom
    /\ pc' = "scan"
    /\ candidate' = Len(eviction)
    /\ checked' = 0
    /\ maxCheck' = IF Len(eviction) \div 2 < 1 THEN 1 ELSE Len(eviction) \div 2
    /\ steadyPins' = pins /\ seenPins' = pins
    /\ wasPopular' = {c \in items : Popular(c)}
    /\ UNCHANGED <<cacheVars, counters, pins, arg>>

\* The loop is left: the block goes to the front of the list.
Insert ==
    /\ pc = "room" /\ ~NoRoom
    /\ eviction' = <<arg.cid>> \o eviction
    /\ items' = items \cup {arg.cid}
    /\ size' = [size EXCEPT ![arg.cid] = arg.size]
    /\ fetchCount' = [fetchCount EXCEPT ![arg.cid] = 0]
    /\ currentBytes' = currentBytes + arg.size
    /\ pc' = "unlocked" /\ arg' = NoBlock
    /\ UNCHANGED <<counters, pins, candidate, checked, maxCheck, auxVars>>

\* Mutant of ReturnToLoop: the position outlives the call that made it.
ReturnToLoopKeepsPosition ==
    /\ pc' = "room"
    /\ checked' = 0 /\ maxCheck' = 0
    /\ steadyPins' = {} /\ seenPins' = {} /\ wasPopular' = {}
    /\ UNCHANGED <<counters, pins, arg, candidate>>

\* evictOldest returns to Put's loop; the locals of the call die with it.
ReturnToLoop ==
    /\ pc' = "room"
    /\ candidate' = 0 /\ checked' = 0 /\ maxCheck' = 0
    /\ steadyPins' = {} /\ seenPins' = {} /\ wasPopular' = {}
    /\ UNCHANGED <<counters, pins, arg>>

\* Mutant of Scanning: the scan stops one entry short.
ScanningOneShort == candidate # 0 /\ checked + 1 < maxCheck

Scanning == candidate # 0 /\ checked < maxCheck

Advance == candidate' = candidate - 1 /\ checked' = checked + 1

ScanPinned ==
    /\ pc = "scan" /\ Scanning
    /\ eviction[candidate] \in pins
    /\ Advance
    /\ UNCHANGED <<cacheVars, counters, pins, pc, arg, maxCheck, auxVars>>

\* A popular entry gets a second chance at half its count.
ScanPopular ==
    /\ pc = "scan" /\ Scanning
    /\ eviction[candidate] \notin pins
    /\ Popular(eviction[candidate])
    /\ fetchCount' = [fetchCount EXCEPT ![eviction[candidate]] = @ \div 2]
    /\ Advance
    /\ UNCHANGED <<items, eviction, size, currentBytes, counters, pins, pc, arg, maxCheck, auxVars>>

ScanVictim ==
    /\ pc = "scan" /\ Scanning
    /\ eviction[candidate] \notin pins
    /\ ~Popular(eviction[candidate])
    /\ pc' = "remove"
    /\ UNCHANGED <<cacheVars, counters, pins, frame, auxVars>>

\* Mutant of ScanEnd: evictOldest returns when its scan has found no victim.
ScanEndGivesUp ==
    /\ pc = "scan" /\ ~Scanning
    /\ ReturnToLoop
    /\ UNCHANGED cacheVars

ScanEnd ==
    /\ pc = "scan" /\ ~Scanning
    /\ pc' = "fallback"
    /\ candidate' = Len(eviction)
    /\ UNCHANGED <<cacheVars, counters, pins, arg, checked, maxCheck, auxVars>>

FallbackPinned ==
    /\ pc = "fallback" /\ candidate # 0
    /\ eviction[candidate] \in pins
    /\ candidate' = candidate - 1
    /\ UNCHANGED <<cacheVars, counters, pins, pc, arg, checked, maxCheck, auxVars>>

\* Mutant of FallbackVictim: the last resort does not ask the pin checker.
FallbackVictimUnchecked ==
    /\ pc = "fallback" /\ candidate # 0
    /\ pc' = "remove"
    /\ UNCHANGED <<cacheVars, counters, pins, frame, auxVars>>

FallbackVictim ==
    /\ pc = "fallback" /\ candidate # 0
    /\ eviction[candidate] \notin pins
    /\ pc' = "remove"
    /\ UNCHANGED <<cacheVars, counters, pins, frame, auxVars>>

\* Every entry is pinned: evictOldest returns and has removed nothing.
FallbackEnd ==
    /\ pc = "fallback" /\ candidate = 0
    /\ ReturnToLoop
    /\ UNCHANGED cacheVars

RemoveVictim ==
    /\ pc = "remove"
    /\ RemoveElement(candidate)
    /\ ReturnToLoop

EvictOldestStep ==
    \/ ScanPinned \/ ScanPopular \/ ScanVictim \/ ScanEnd
    \/ FallbackPinned \/ FallbackVictim \/ FallbackEnd \/ RemoveVictim

PutStep == BeginEvictOldest \/ Insert \/ EvictOldestStep

-----------------------------------------------------------------------------
(* The pins change under the store's lock, which IsPinned takes too. *)

Pin(c) ==
    /\ pins' = pins \cup {c}
    /\ seenPins' = IF pc \in {"scan", "fallback", "remove"}
                   THEN seenPins \cup {c} ELSE seenPins
    /\ UNCHANGED <<cacheVars, counters, pc, frame, steadyPins, wasPopular>>

Unpin(c) ==
    /\ pins' = pins \ {c}
    /\ steadyPins' = steadyPins \ {c}
    /\ UNCHANGED <<cacheVars, counters, pc, frame, seenPins, wasPopular>>

Next ==
    \/ \E c \in CIDs : Get(c) \/ Evict(c)
    \/ \E b \in Block : PutCached(b) \/ PutNew(b)
    \/ PutStep
    \/ \E c \in Pinnable : Pin(c) \/ Unpin(c)

Spec == Init /\ [][Next]_vars

\* The goroutine inside Put keeps being scheduled.  Nothing makes callers
\* call, users pin, or the pins stop changing.
FairSpec == Spec /\ WF_vars(PutStep)

-----------------------------------------------------------------------------
(* Correctness. *)

TypeOK ==
    /\ items \in SUBSET CIDs
    /\ eviction \in Seq(CIDs)
    /\ size \in [CIDs -> Nat] /\ fetchCount \in [CIDs -> Nat]
    /\ currentBytes \in Int
    /\ hits \in Nat /\ misses \in Nat
    /\ pins \in SUBSET Pinnable
    /\ pc \in {"unlocked", "room", "scan", "fallback", "remove"}
    /\ arg \in Block \cup {NoBlock}
    /\ candidate \in 0 .. Len(eviction)
    /\ checked \in Nat /\ maxCheck \in Nat
    /\ steadyPins \in SUBSET CIDs /\ seenPins \in SUBSET CIDs
    /\ wasPopular \in SUBSET CIDs

\* The map and the list hold the same keys, each once, at every moment of
\* every call: Put, Evict and removeElement update the two separately.
ListMatchesMap ==
    /\ ToSet(eviction) = items
    /\ IsInjective(eviction)

\* currentBytes, which Put and removeElement keep by adding and subtracting,
\* is the total length of the blocks in the list, replacements included.
BytesAccounted ==
    currentBytes = SumFunction([c \in items |-> size[c]])

\* When a CID has only one length, the limit is kept: the cache is over it
\* only while it holds at most one block, one that is longer than the limit.
Budget ==
    currentBytes <= MaxBytes \/ Len(eviction) <= 1

\* A block that stays pinned for the whole of an evictOldest call is not
\* the one the call removes, whatever else is pinned and unpinned meanwhile.
SteadyPinsSurvive ==
    pc = "remove" => eviction[candidate] \notin steadyPins

\* The victim is the least recently used entry with no excuse: every entry
\* behind it in the list was popular when evictOldest began, or was pinned
\* at some moment of the call.
VictimIsOldest ==
    pc = "remove" =>
        \A i \in candidate + 1 .. Len(eviction) :
            eviction[i] \in wasPopular \cup seenPins

\* A popular entry is taken only when the whole scanned part of the list was
\* popular or pinned: otherwise the second chance of evictOldest protects it.
SecondChance ==
    pc = "remove" /\ eviction[candidate] \in wasPopular =>
        \A i \in Len(eviction) - maxCheck + 1 .. Len(eviction) :
            eviction[i] \in wasPopular \cup seenPins

\* A Put that has begun returns, and so gives the mutex back to the block
\* handlers and the fetches that wait for it, unless evictOldest finds every
\* entry pinned: then the loop of Put goes round for ever.
PutCompletesUnlessAllPinned ==
    (pc # "unlocked") ~> (pc = "unlocked" \/ items \subseteq seenPins)

=============================================================================
