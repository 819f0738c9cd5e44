--------------------------- MODULE LRUCacheProofs ---------------------------
(***************************************************************************)
(* Proofs about LRUCache, for every set of CIDs, every assignment of block *)
(* lengths, every byte limit and every popularity threshold.               *)
(*                                                                         *)
(* Inv is the inductive invariant.  The three facts about evictOldest that *)
(* matter (SteadyPinsSurvive, VictimIsOldest, SecondChance) speak of the   *)
(* moment before a removal only; ScanInv and FallbackInv carry what the    *)
(* two loops have established so far up to that moment.                    *)
(***************************************************************************)
EXTENDS LRUCache, FiniteSetTheorems, SequenceTheorems, WellFoundedInduction, TLAPS

InEvictOldest == pc \in {"scan", "fallback", "remove"}

\* The block of the Put in progress is a block that is not in the map, and
\* outside evictOldest there is no candidate.
FrameInv ==
    /\ pc # "unlocked" => arg \in Block /\ arg.cid \notin items
    /\ ~InEvictOldest => candidate = 0

\* How the pins of this moment relate to those of the whole call.
PinsInv ==
    /\ steadyPins \subseteq pins
    /\ InEvictOldest => pins \subseteq seenPins

\* What evictOldest knows of the entries from position i to the back.
PassedOver(i) == \A j \in i .. Len(eviction) : eviction[j] \in wasPopular \cup seenPins

\* The scan has passed over `checked' entries, and has not yet changed the
\* popularity of the others.
ScanInv ==
    pc = "scan" =>
        /\ checked = Len(eviction) - candidate
        /\ checked <= maxCheck /\ maxCheck <= Len(eviction)
        /\ PassedOver(candidate + 1)
        /\ \A j \in 1 .. Len(eviction) : Popular(eviction[j]) => eviction[j] \in wasPopular
        /\ \A j \in 1 .. candidate : eviction[j] \in wasPopular => Popular(eviction[j])

\* The fallback search comes after a scan that passed over its whole part.
FallbackInv ==
    pc = "fallback" =>
        /\ PassedOver(Len(eviction) - maxCheck + 1)
        /\ PassedOver(candidate + 1)

RemoveInv ==
    pc = "remove" =>
        /\ candidate # 0
        /\ SteadyPinsSurvive
        /\ VictimIsOldest
        /\ SecondChance

Inv ==
    /\ TypeOK /\ ListMatchesMap /\ FrameInv /\ PinsInv
    /\ ScanInv /\ FallbackInv /\ RemoveInv

\* Every CID has exactly one length: no truncated copies.
FixedSizes == \A c \in CIDs : \A m, n \in BlockSizes[c] : m = n

\* Under FixedSizes: the sizes in the list are the lengths of the blocks.
SizesInv == \A c \in items : size[c] \in BlockSizes[c]

-----------------------------------------------------------------------------
(* The list operations. *)

\* Unlinking the i-th element of a list without repetitions removes its key
\* and nothing else (list.Remove, as used by removeElement).
LEMMA RemoveAtProperties ==
    ASSUME NEW S, NEW s \in Seq(S), NEW i \in 1 .. Len(s), IsInjective(s)
    PROVE  /\ RemoveAt(s, i) \in Seq(S)
           /\ Len(RemoveAt(s, i)) = Len(s) - 1
           /\ ToSet(RemoveAt(s, i)) = ToSet(s) \ {s[i]}
           /\ IsInjective(RemoveAt(s, i))
<1> DEFINE r == RemoveAt(s, i)
<1>1. /\ r \in Seq(S)
      /\ Len(r) = Len(s) - 1
      /\ \A j \in 1 .. Len(r) : r[j] = IF j < i THEN s[j] ELSE s[j + 1]
  <2> DEFINE p == SubSeq(s, 1, i - 1)
             q == SubSeq(s, i + 1, Len(s))
  <2>1. Len(s) \in Nat /\ \A j \in 1 .. Len(s) : s[j] \in S
    OBVIOUS
  <2>2. /\ p \in Seq(S) /\ Len(p) = i - 1
        /\ \A j \in 1 .. i - 1 : p[j] = s[j]
    BY <2>1
  <2>3. /\ q \in Seq(S) /\ Len(q) = Len(s) - i
        /\ \A j \in 1 .. Len(s) - i : q[j] = s[j + i]
    BY <2>1
  <2>4. r = p \o q
    BY DEF RemoveAt
  <2> HIDE DEF p, q, r
  <2>5. /\ r \in Seq(S) /\ Len(r) = Len(p) + Len(q)
        /\ \A j \in 1 .. Len(p) + Len(q) :
               r[j] = IF j <= Len(p) THEN p[j] ELSE q[j - Len(p)]
    BY <2>2, <2>3, <2>4, ConcatProperties
  <2>6. ASSUME NEW j \in 1 .. Len(r)
        PROVE  r[j] = IF j < i THEN s[j] ELSE s[j + 1]
    <3>1. CASE j < i
      <4>1. j \in 1 .. i - 1 /\ j \in 1 .. Len(p) + Len(q) /\ j <= Len(p)
        BY <3>1, <2>1, <2>2, <2>3, <2>5
      <4> QED BY <4>1, <3>1, <2>2, <2>5
    <3>2. CASE ~(j < i)
      <4>1. /\ j - (i - 1) \in 1 .. Len(s) - i /\ j \in 1 .. Len(p) + Len(q)
            /\ ~(j <= Len(p)) /\ (j - (i - 1)) + i = j + 1
        BY <3>2, <2>1, <2>2, <2>3, <2>5
      <4>2. r[j] = q[j - (i - 1)]
        BY <4>1, <2>2, <2>5
      <4>3. q[j - (i - 1)] = s[j + 1]
        BY <4>1, <2>3
      <4> QED BY <4>2, <4>3, <3>2
    <3> QED BY <3>1, <3>2
  <2> QED BY <2>1, <2>2, <2>3, <2>5, <2>6
<1> HIDE DEF r
<1>2. DOMAIN r = 1 .. Len(r) /\ DOMAIN s = 1 .. Len(s)
  BY <1>1
<1>3. \A j, k \in 1 .. Len(s) : s[j] = s[k] => j = k
  BY <1>2 DEF IsInjective
<1>4. IsInjective(r)
  <2> SUFFICES ASSUME NEW j \in 1 .. Len(r), NEW k \in 1 .. Len(r), r[j] = r[k]
               PROVE  j = k
    BY <1>2 DEF IsInjective
  <2> DEFINE p(x) == IF x < i THEN x ELSE x + 1
  <2>1. p(j) \in 1 .. Len(s) /\ p(k) \in 1 .. Len(s) /\ s[p(j)] = s[p(k)]
    BY <1>1
  <2>2. p(j) = p(k)
    BY <2>1, <1>3
  <2> QED BY <2>2
<1>5. ToSet(r) \subseteq ToSet(s) \ {s[i]}
  <2> SUFFICES ASSUME NEW j \in 1 .. Len(r) PROVE r[j] \in ToSet(s) \ {s[i]}
    BY <1>2 DEF ToSet
  <2> QED BY <1>1, <1>2, <1>3 DEF ToSet
<1>6. ToSet(s) \ {s[i]} \subseteq ToSet(r)
  <2> SUFFICES ASSUME NEW j \in 1 .. Len(s), s[j] # s[i] PROVE s[j] \in ToSet(r)
    BY <1>2 DEF ToSet
  <2>1. CASE j < i
    BY <2>1, <1>1, <1>2 DEF ToSet
  <2>2. CASE j > i
    <3>1. j - 1 \in 1 .. Len(r) /\ r[j - 1] = s[j]
      BY <2>2, <1>1
    <3> QED BY <3>1, <1>2 DEF ToSet
  <2> QED BY <2>1, <2>2
<1> QED BY <1>1, <1>4, <1>5, <1>6 DEF r

\* Putting a new key at the front adds that key (list.PushFront).
LEMMA PushFrontProperties ==
    ASSUME NEW S, NEW s \in Seq(S), NEW c \in S, c \notin ToSet(s), IsInjective(s)
    PROVE  /\ <<c>> \o s \in Seq(S)
           /\ Len(<<c>> \o s) = Len(s) + 1
           /\ ToSet(<<c>> \o s) = ToSet(s) \cup {c}
           /\ IsInjective(<<c>> \o s)
<1> DEFINE r == <<c>> \o s
<1>1. /\ r \in Seq(S)
      /\ Len(r) = Len(s) + 1
      /\ \A j \in 1 .. Len(r) : r[j] = IF j = 1 THEN c ELSE s[j - 1]
  OBVIOUS
<1> HIDE DEF r
<1>2. DOMAIN r = 1 .. Len(r) /\ DOMAIN s = 1 .. Len(s)
  BY <1>1
<1>3. \A j, k \in 1 .. Len(s) : s[j] = s[k] => j = k
  BY <1>2 DEF IsInjective
<1>4. \A j \in 1 .. Len(s) : s[j] # c
  BY <1>2 DEF ToSet
<1>5. IsInjective(r)
  <2> SUFFICES ASSUME NEW j \in 1 .. Len(r), NEW k \in 1 .. Len(r), r[j] = r[k]
               PROVE  j = k
    BY <1>2 DEF IsInjective
  <2>1. CASE j = 1 /\ k # 1
    <3>1. k - 1 \in 1 .. Len(s) /\ r[k] = s[k - 1] /\ r[j] = c
      BY <2>1, <1>1
    <3> QED BY <3>1, <1>4
  <2>2. CASE j # 1 /\ k = 1
    <3>1. j - 1 \in 1 .. Len(s) /\ r[j] = s[j - 1] /\ r[k] = c
      BY <2>2, <1>1
    <3> QED BY <3>1, <1>4
  <2>3. CASE j # 1 /\ k # 1
    <3>1. /\ j - 1 \in 1 .. Len(s) /\ r[j] = s[j - 1]
          /\ k - 1 \in 1 .. Len(s) /\ r[k] = s[k - 1]
      BY <2>3, <1>1
    <3>2. j - 1 = k - 1
      BY <3>1, <1>3
    <3> QED BY <3>2
  <2> QED BY <2>1, <2>2, <2>3
<1>6. ToSet(r) \subseteq ToSet(s) \cup {c}
  BY <1>1, <1>2 DEF ToSet
<1>7. r[1] = c /\ \A j \in 1 .. Len(s) : j + 1 \in 1 .. Len(r) /\ r[j + 1] = s[j]
  BY <1>1
<1>8. ToSet(s) \cup {c} \subseteq ToSet(r)
  <2>1. c \in ToSet(r)
    BY <1>1, <1>2, <1>7 DEF ToSet
  <2>2. ASSUME NEW j \in 1 .. Len(s) PROVE s[j] \in ToSet(r)
    BY <1>2, <1>7 DEF ToSet
  <2> QED BY <2>1, <2>2, <1>2 DEF ToSet
<1> QED BY <1>1, <1>5, <1>6, <1>8 DEF r

\* A key of the map has a position in the list.
LEMMA PositionProperties ==
    ASSUME TypeOK, ListMatchesMap, NEW c \in items
    PROVE  Position(c) \in 1 .. Len(eviction) /\ eviction[Position(c)] = c
<1>1. \E i \in DOMAIN eviction : eviction[i] = c
  BY DEF ListMatchesMap, ToSet
<1> QED BY <1>1 DEF Position, TypeOK

\* Moving a key to the front changes the order only (list.MoveToFront).
LEMMA MoveToFrontProperties ==
    ASSUME TypeOK, ListMatchesMap, NEW c \in items
    PROVE  /\ MoveToFront(c) \in Seq(CIDs)
           /\ Len(MoveToFront(c)) = Len(eviction)
           /\ ToSet(MoveToFront(c)) = items
           /\ IsInjective(MoveToFront(c))
<1> DEFINE t == RemoveAt(eviction, Position(c))
<1>1. Position(c) \in 1 .. Len(eviction) /\ eviction[Position(c)] = c
  BY PositionProperties
<1>2. /\ t \in Seq(CIDs) /\ Len(t) = Len(eviction) - 1
      /\ ToSet(t) = items \ {c} /\ IsInjective(t)
  <2>1. eviction \in Seq(CIDs) /\ IsInjective(eviction) /\ ToSet(eviction) = items
    BY DEF TypeOK, ListMatchesMap
  <2> QED BY <1>1, <2>1, RemoveAtProperties
<1>3. c \in CIDs /\ c \notin ToSet(t)
  BY <1>2 DEF TypeOK
<1> HIDE DEF t
<1>4. /\ <<c>> \o t \in Seq(CIDs) /\ Len(<<c>> \o t) = Len(t) + 1
      /\ ToSet(<<c>> \o t) = ToSet(t) \cup {c} /\ IsInjective(<<c>> \o t)
  BY <1>2, <1>3, PushFrontProperties
<1>5. MoveToFront(c) = <<c>> \o t
  BY DEF MoveToFront, t
<1>6. Len(eviction) \in Nat
  BY DEF TypeOK
<1>7. Len(<<c>> \o t) = Len(eviction)
  BY <1>2, <1>4, <1>6
<1>8. ToSet(<<c>> \o t) = items
  BY <1>2, <1>4
<1> QED BY <1>4, <1>5, <1>7, <1>8

\* What a block is.
LEMMA BlockProperties ==
    ASSUME NEW b \in Block
    PROVE  b.cid \in CIDs /\ b.size \in BlockSizes[b.cid] /\ b.size \in Nat
BY SizesAssumption DEF Block

-----------------------------------------------------------------------------
(* The inductive invariant. *)

\* An empty cache, with any pins loaded from disk, satisfies it.
LEMMA InitInv == Init => Inv
<1> SUFFICES ASSUME Init PROVE Inv
  OBVIOUS
<1>1. TypeOK
  BY PinnableAssumption DEF Init, TypeOK
<1>2. ListMatchesMap
  BY DEF Init, ListMatchesMap, ToSet, IsInjective
<1>3. FrameInv /\ PinsInv
  BY DEF Init, FrameInv, PinsInv, InEvictOldest
<1>4. ScanInv /\ FallbackInv /\ RemoveInv
  BY DEF Init, ScanInv, FallbackInv, RemoveInv
<1> QED BY <1>1, <1>2, <1>3, <1>4 DEF Inv

\* Outside evictOldest nothing is claimed about the scan.
LEMMA OutsideEvictOldest ==
    ~InEvictOldest => ScanInv /\ FallbackInv /\ RemoveInv
BY DEF InEvictOldest, ScanInv, FallbackInv, RemoveInv

\* A hit only reorders the list; a miss touches the counters alone.
LEMMA GetInv == ASSUME Inv, NEW c \in CIDs, Get(c) PROVE Inv'
<1>1. CASE c \in items
  <2>1. /\ fetchCount' = [fetchCount EXCEPT ![c] = @ + 1]
        /\ eviction' = MoveToFront(c) /\ hits' = hits + 1 /\ misses' = misses
        /\ UNCHANGED <<items, size, currentBytes, pins, pc, frame, auxVars>>
        /\ pc = "unlocked"
    BY <1>1 DEF Get
  <2>2. /\ eviction' \in Seq(CIDs) /\ Len(eviction') = Len(eviction)
        /\ ToSet(eviction') = items /\ IsInjective(eviction')
    BY <1>1, <2>1, MoveToFrontProperties DEF Inv
  <2>3. fetchCount' \in [CIDs -> Nat]
    BY <2>1 DEF Inv, TypeOK
  <2>4. TypeOK'
    BY <2>1, <2>2, <2>3 DEF Inv, TypeOK, frame, auxVars
  <2>5. ListMatchesMap'
    BY <2>1, <2>2 DEF ListMatchesMap
  <2>6. FrameInv' /\ PinsInv' /\ (~InEvictOldest)'
    BY <2>1 DEF Inv, FrameInv, PinsInv, InEvictOldest, frame, auxVars
  <2> QED BY <2>4, <2>5, <2>6, OutsideEvictOldest, PTL DEF Inv
<1>2. CASE c \notin items
  <2>1. /\ misses' = misses + 1 /\ pc = "unlocked"
        /\ UNCHANGED <<size, fetchCount, eviction, hits, items, currentBytes, pins, pc, frame, auxVars>>
    BY <1>2 DEF Get
  <2>2. TypeOK' /\ ListMatchesMap' /\ FrameInv' /\ PinsInv' /\ (~InEvictOldest)'
    BY <2>1 DEF Inv, TypeOK, ListMatchesMap, FrameInv, PinsInv, InEvictOldest, frame, auxVars
  <2> QED BY <2>2, OutsideEvictOldest, PTL DEF Inv
<1> QED BY <1>1, <1>2

\* Replacing a cached block in place keeps the keys as they are.
LEMMA PutCachedInv == ASSUME Inv, NEW b \in Block, PutCached(b) PROVE Inv'
<1>1. b.cid \in CIDs /\ b.size \in Nat /\ b.cid \in items /\ pc = "unlocked"
  BY BlockProperties DEF PutCached
<1>2. /\ currentBytes' = currentBytes - size[b.cid] + b.size
      /\ size' = [size EXCEPT ![b.cid] = b.size]
      /\ eviction' = MoveToFront(b.cid)
      /\ UNCHANGED <<items, fetchCount, counters, pins, pc, frame, auxVars>>
  BY DEF PutCached
<1>3. /\ eviction' \in Seq(CIDs) /\ Len(eviction') = Len(eviction)
      /\ ToSet(eviction') = items /\ IsInjective(eviction')
  BY <1>1, <1>2, MoveToFrontProperties DEF Inv
<1>4. size' \in [CIDs -> Nat] /\ currentBytes' \in Int
  BY <1>1, <1>2 DEF Inv, TypeOK
<1>5. TypeOK'
  BY <1>2, <1>3, <1>4 DEF Inv, TypeOK, counters, frame, auxVars
<1>6. ListMatchesMap'
  BY <1>2, <1>3 DEF ListMatchesMap
<1>7. FrameInv' /\ PinsInv' /\ (~InEvictOldest)'
  BY <1>1, <1>2 DEF Inv, FrameInv, PinsInv, InEvictOldest, frame, auxVars
<1> QED BY <1>5, <1>6, <1>7, OutsideEvictOldest, PTL DEF Inv

\* removeElement keeps map and list in step.
LEMMA RemoveElementProperties ==
    ASSUME Inv, NEW i \in 1 .. Len(eviction), RemoveElement(i)
    PROVE  /\ eviction' \in Seq(CIDs) /\ Len(eviction') = Len(eviction) - 1
           /\ items' \in SUBSET CIDs /\ items' \subseteq items
           /\ size' \in [CIDs -> Nat] /\ fetchCount' \in [CIDs -> Nat]
           /\ currentBytes' \in Int /\ currentBytes' <= currentBytes
           /\ ListMatchesMap'
<1>1. eviction \in Seq(CIDs) /\ IsInjective(eviction) /\ ToSet(eviction) = items
  BY DEF Inv, TypeOK, ListMatchesMap
<1>2. eviction' = RemoveAt(eviction, i) /\ items' = items \ {eviction[i]}
  BY DEF RemoveElement
<1>3. /\ eviction' \in Seq(CIDs) /\ Len(eviction') = Len(eviction) - 1
      /\ ToSet(eviction') = items' /\ IsInjective(eviction')
  BY <1>1, <1>2, RemoveAtProperties
<1>4. eviction[i] \in CIDs
  BY <1>1
<1>5. size' \in [CIDs -> Nat] /\ fetchCount' \in [CIDs -> Nat]
  BY <1>4 DEF Inv, TypeOK, RemoveElement
<1>6. currentBytes' \in Int /\ currentBytes' <= currentBytes
  BY <1>4 DEF Inv, TypeOK, RemoveElement
<1>7. items' \in SUBSET CIDs /\ items' \subseteq items
  BY <1>2 DEF Inv, TypeOK
<1> QED BY <1>3, <1>5, <1>6, <1>7 DEF ListMatchesMap

\* Evict, which runs outside evictOldest, removes one key from both.
LEMMA EvictInv == ASSUME Inv, NEW c \in CIDs, Evict(c) PROVE Inv'
<1>1. /\ Position(c) \in 1 .. Len(eviction) /\ RemoveElement(Position(c))
      /\ pc = "unlocked" /\ UNCHANGED <<counters, pins, pc, frame, auxVars>>
  BY PositionProperties DEF Evict, Inv
<1>2. /\ eviction' \in Seq(CIDs) /\ Len(eviction') = Len(eviction) - 1
      /\ items' \in SUBSET CIDs
      /\ size' \in [CIDs -> Nat] /\ fetchCount' \in [CIDs -> Nat]
      /\ currentBytes' \in Int /\ ListMatchesMap'
  BY <1>1, RemoveElementProperties
<1>3. candidate' = 0 /\ 0 \in 0 .. Len(eviction')
  BY <1>1, <1>2 DEF Inv, FrameInv, InEvictOldest, frame
<1>4. TypeOK'
  BY <1>1, <1>2, <1>3 DEF Inv, TypeOK, counters, frame, auxVars
<1>5. FrameInv' /\ PinsInv' /\ (~InEvictOldest)'
  BY <1>1, <1>3 DEF Inv, FrameInv, PinsInv, InEvictOldest, frame, auxVars
<1> QED BY <1>2, <1>4, <1>5, OutsideEvictOldest, PTL DEF Inv

\* Put of a new block takes the mutex and remembers its argument.
LEMMA PutNewInv == ASSUME Inv, NEW b \in Block, PutNew(b) PROVE Inv'
<1>1. TypeOK'
  BY DEF PutNew, Inv, TypeOK, cacheVars, counters, auxVars
<1>2. ListMatchesMap'
  BY DEF PutNew, Inv, ListMatchesMap, cacheVars
<1>3. FrameInv' /\ PinsInv' /\ (~InEvictOldest)'
  BY DEF PutNew, Inv, FrameInv, PinsInv, InEvictOldest, cacheVars, auxVars
<1> QED BY <1>1, <1>2, <1>3, OutsideEvictOldest, PTL DEF Inv

\* The block Put inserts has not been cached meanwhile: c.mu is held.
LEMMA InsertInv == ASSUME Inv, Insert PROVE Inv'
<1>1. /\ arg \in Block /\ arg.cid \notin items /\ candidate = 0 /\ pc = "room"
      /\ arg.cid \in CIDs /\ arg.size \in Nat
  BY BlockProperties DEF Insert, Inv, FrameInv, InEvictOldest
<1>2. eviction \in Seq(CIDs) /\ IsInjective(eviction) /\ ToSet(eviction) = items
  BY DEF Inv, TypeOK, ListMatchesMap
<1>3. /\ eviction' \in Seq(CIDs) /\ Len(eviction') = Len(eviction) + 1
      /\ ToSet(eviction') = items \cup {arg.cid} /\ IsInjective(eviction')
  BY <1>1, <1>2, PushFrontProperties DEF Insert
<1>4. ListMatchesMap'
  BY <1>3 DEF ListMatchesMap, Insert
<1>5. /\ size' \in [CIDs -> Nat] /\ fetchCount' \in [CIDs -> Nat]
      /\ currentBytes' \in Int /\ items' \in SUBSET CIDs
  BY <1>1 DEF Insert, Inv, TypeOK
<1>6. candidate' = 0 /\ 0 \in 0 .. Len(eviction')
  BY <1>1, <1>3 DEF Insert
<1>7. TypeOK'
  BY <1>3, <1>5, <1>6 DEF Insert, Inv, TypeOK, counters, auxVars
<1>8. FrameInv' /\ PinsInv' /\ (~InEvictOldest)'
  BY <1>6 DEF Insert, Inv, FrameInv, PinsInv, InEvictOldest, auxVars
<1> QED BY <1>4, <1>7, <1>8, OutsideEvictOldest, PTL DEF Inv

\* At the back of the list there is nothing behind the candidate.
LEMMA BeginEvictOldestInv == ASSUME Inv, BeginEvictOldest PROVE Inv'
<1>1. /\ Len(eviction) \in Nat \ {0} /\ eviction \in Seq(CIDs)
      /\ eviction' = eviction /\ items' = items /\ fetchCount' = fetchCount
      /\ \A j \in 1 .. Len(eviction) : eviction[j] \in items
  <2>1. eviction \in Seq(CIDs) /\ Len(eviction) > 0
    BY DEF BeginEvictOldest, NoRoom, Inv, TypeOK
  <2>2. \A j \in 1 .. Len(eviction) : eviction[j] \in items
    BY <2>1 DEF Inv, ListMatchesMap, ToSet
  <2> QED BY <2>1, <2>2 DEF BeginEvictOldest, cacheVars
<1>2. maxCheck' \in Nat /\ 0 <= maxCheck' /\ maxCheck' <= Len(eviction)
  BY <1>1 DEF BeginEvictOldest
<1>3. TypeOK'
  BY <1>1, <1>2, PinnableAssumption DEF BeginEvictOldest, Inv, TypeOK, cacheVars, counters
<1>4. ListMatchesMap'
  BY DEF BeginEvictOldest, Inv, ListMatchesMap, cacheVars
<1>5. FrameInv' /\ PinsInv'
  BY DEF BeginEvictOldest, Inv, FrameInv, PinsInv, InEvictOldest, cacheVars
<1>6. ScanInv'
  <2>1. /\ pc' = "scan" /\ candidate' = Len(eviction) /\ checked' = 0
        /\ wasPopular' = {c \in items : Popular(c)}
    BY DEF BeginEvictOldest
  <2>2. PassedOver(candidate + 1)'
    BY <1>1, <2>1 DEF PassedOver
  <2>3. \A j \in 1 .. Len(eviction') :
            Popular(eviction[j])' <=> eviction'[j] \in wasPopular'
    BY <1>1, <2>1 DEF Popular
  <2> QED BY <1>1, <1>2, <2>1, <2>2, <2>3 DEF ScanInv
<1>7. FallbackInv' /\ RemoveInv'
  BY DEF BeginEvictOldest, FallbackInv, RemoveInv
<1> QED BY <1>3, <1>4, <1>5, <1>6, <1>7 DEF Inv

\* Passing over the candidate, because it is pinned or popular.
LEMMA ScanPinnedInv == ASSUME Inv, ScanPinned PROVE Inv'
<1>1. /\ Len(eviction) \in Nat /\ candidate \in 1 .. Len(eviction) /\ checked \in Nat
      /\ candidate' = candidate - 1 /\ checked' = checked + 1 /\ checked < maxCheck
      /\ UNCHANGED <<items, eviction, fetchCount, maxCheck, pc, pins, seenPins, wasPopular>>
      /\ pc = "scan" /\ eviction[candidate] \in seenPins
  BY DEF ScanPinned, Scanning, Advance, Inv, TypeOK, PinsInv, InEvictOldest, cacheVars, auxVars
<1>2. TypeOK' /\ ListMatchesMap'
  BY <1>1 DEF ScanPinned, Inv, TypeOK, ListMatchesMap, cacheVars, counters, auxVars
<1>3. FrameInv' /\ PinsInv'
  BY <1>1 DEF ScanPinned, Inv, FrameInv, PinsInv, InEvictOldest, cacheVars, auxVars
<1>4. ScanInv'
  <2>1. PassedOver(candidate + 1)'
    BY <1>1 DEF Inv, ScanInv, PassedOver
  <2> QED BY <1>1, <2>1 DEF Inv, TypeOK, ScanInv, Popular
<1>5. FallbackInv' /\ RemoveInv'
  BY <1>1 DEF FallbackInv, RemoveInv
<1> QED BY <1>2, <1>3, <1>4, <1>5 DEF Inv

\* The halved count of a popular candidate does not make it unpopular
\* in wasPopular, which remembers the counts at the start of the call.
LEMMA ScanPopularInv == ASSUME Inv, ScanPopular PROVE Inv'
<1> DEFINE v == eviction[candidate]
<1>1. /\ Len(eviction) \in Nat /\ candidate \in 1 .. Len(eviction) /\ checked \in Nat
      /\ candidate' = candidate - 1 /\ checked' = checked + 1 /\ checked < maxCheck
      /\ UNCHANGED <<items, eviction, maxCheck, pc, pins, seenPins, wasPopular>>
      /\ pc = "scan" /\ Popular(v)
      /\ fetchCount' = [fetchCount EXCEPT ![v] = @ \div 2]
  BY DEF ScanPopular, Scanning, Advance, Inv, TypeOK, auxVars
<1>2. /\ eviction \in Seq(CIDs) /\ fetchCount \in [CIDs -> Nat] /\ v \in CIDs
      /\ \A j, k \in 1 .. Len(eviction) : eviction[j] = eviction[k] => j = k
  BY <1>1 DEF Inv, TypeOK, ListMatchesMap, IsInjective
<1>3. v \in wasPopular
  BY <1>1 DEF Inv, ScanInv
<1>4. fetchCount' \in [CIDs -> Nat] /\ fetchCount'[v] <= fetchCount[v]
  BY <1>1, <1>2
<1>5. TypeOK' /\ ListMatchesMap'
  BY <1>1, <1>4 DEF ScanPopular, Inv, TypeOK, ListMatchesMap, counters, auxVars
<1>6. FrameInv' /\ PinsInv'
  BY <1>1 DEF ScanPopular, Inv, FrameInv, PinsInv, InEvictOldest, auxVars
<1>7. ScanInv'
  <2>1. PassedOver(candidate + 1)'
    BY <1>1, <1>3 DEF Inv, ScanInv, PassedOver
  <2>2. \A j \in 1 .. Len(eviction) :
            fetchCount'[eviction[j]] = IF j = candidate THEN fetchCount[v] \div 2
                                       ELSE fetchCount[eviction[j]]
    BY <1>1, <1>2
  <2>3. \A j \in 1 .. Len(eviction') : Popular(eviction[j])' => eviction'[j] \in wasPopular'
    BY <1>1, <1>2, <1>3, <2>2 DEF Inv, ScanInv, Popular
  <2>4. \A j \in 1 .. candidate' : eviction'[j] \in wasPopular' => Popular(eviction[j])'
    BY <1>1, <1>2, <2>2 DEF Inv, ScanInv, Popular
  <2>5. checked' = Len(eviction') - candidate' /\ checked' <= maxCheck' /\ maxCheck' <= Len(eviction')
    <3>1. checked = Len(eviction) - candidate /\ maxCheck <= Len(eviction) /\ maxCheck \in Nat
      BY <1>1 DEF Inv, TypeOK, ScanInv
    <3> QED BY <1>1, <3>1
  <2> QED BY <2>1, <2>3, <2>4, <2>5 DEF ScanInv
<1>8. FallbackInv' /\ RemoveInv'
  BY <1>1 DEF FallbackInv, RemoveInv
<1> QED BY <1>5, <1>6, <1>7, <1>8 DEF Inv

\* The victim of the scan is unpinned at this moment, hence not steady.
LEMMA ScanVictimInv == ASSUME Inv, ScanVictim PROVE Inv'
<1>1. /\ candidate \in 1 .. Len(eviction) /\ pc = "scan" /\ pc' = "remove"
      /\ eviction[candidate] \notin pins /\ ~Popular(eviction[candidate])
      /\ UNCHANGED <<items, eviction, fetchCount, candidate, maxCheck, pins, auxVars>>
  BY DEF ScanVictim, Scanning, Inv, TypeOK, cacheVars, frame
<1>2. TypeOK' /\ ListMatchesMap'
  BY <1>1 DEF ScanVictim, Inv, TypeOK, ListMatchesMap, cacheVars, counters, frame, auxVars
<1>3. FrameInv' /\ PinsInv'
  BY <1>1 DEF ScanVictim, Inv, FrameInv, PinsInv, InEvictOldest, frame, auxVars
<1>4. eviction[candidate] \notin wasPopular /\ eviction[candidate] \notin steadyPins
  BY <1>1 DEF Inv, ScanInv, PinsInv
<1>5. RemoveInv'
  <2>1. PassedOver(candidate + 1)
    BY <1>1 DEF Inv, ScanInv
  <2> QED BY <1>1, <1>4, <2>1
          DEF RemoveInv, SteadyPinsSurvive, VictimIsOldest, SecondChance, PassedOver, auxVars
<1>6. ScanInv' /\ FallbackInv'
  BY <1>1 DEF ScanInv, FallbackInv
<1> QED BY <1>2, <1>3, <1>5, <1>6 DEF Inv

\* The scan ended without a victim: all it passed was popular or pinned.
LEMMA ScanEndInv == ASSUME Inv, ScanEnd PROVE Inv'
<1>1. /\ Len(eviction) \in Nat /\ candidate \in 0 .. Len(eviction)
      /\ maxCheck \in Nat /\ checked \in Nat
      /\ candidate = 0 \/ ~(checked < maxCheck)
      /\ candidate' = Len(eviction) /\ pc = "scan" /\ pc' = "fallback"
      /\ UNCHANGED <<items, eviction, maxCheck, pins, auxVars>>
  BY DEF ScanEnd, Scanning, Inv, TypeOK, cacheVars
<1>2. TypeOK' /\ ListMatchesMap'
  BY <1>1 DEF ScanEnd, Inv, TypeOK, ListMatchesMap, cacheVars, counters, auxVars
<1>3. FrameInv' /\ PinsInv'
  BY <1>1 DEF ScanEnd, Inv, FrameInv, PinsInv, InEvictOldest, auxVars
<1>4. FallbackInv'
  <2>1. /\ checked = Len(eviction) - candidate /\ checked <= maxCheck
        /\ maxCheck <= Len(eviction) /\ PassedOver(candidate + 1)
    BY <1>1 DEF Inv, ScanInv
  <2>2. candidate = Len(eviction) - maxCheck
    BY <1>1, <2>1
  <2>3. PassedOver(Len(eviction) - maxCheck + 1)'
    BY <1>1, <2>1, <2>2 DEF PassedOver, auxVars
  <2>4. PassedOver(candidate + 1)'
    BY <1>1 DEF PassedOver
  <2> QED BY <2>3, <2>4 DEF FallbackInv
<1>5. ScanInv' /\ RemoveInv'
  BY <1>1 DEF ScanInv, RemoveInv
<1> QED BY <1>2, <1>3, <1>4, <1>5 DEF Inv

\* The fallback passes over pinned entries only.
LEMMA FallbackPinnedInv == ASSUME Inv, FallbackPinned PROVE Inv'
<1>1. /\ Len(eviction) \in Nat /\ candidate \in 1 .. Len(eviction)
      /\ candidate' = candidate - 1 /\ pc = "fallback"
      /\ UNCHANGED <<items, eviction, maxCheck, pc, pins, auxVars>>
      /\ eviction[candidate] \in seenPins
  BY DEF FallbackPinned, Inv, TypeOK, PinsInv, InEvictOldest, cacheVars
<1>2. TypeOK' /\ ListMatchesMap'
  BY <1>1 DEF FallbackPinned, Inv, TypeOK, ListMatchesMap, cacheVars, counters, auxVars
<1>3. FrameInv' /\ PinsInv'
  BY <1>1 DEF FallbackPinned, Inv, FrameInv, PinsInv, InEvictOldest, auxVars
<1>4. FallbackInv'
  <2>1. PassedOver(candidate + 1)'
    BY <1>1 DEF Inv, FallbackInv, PassedOver, auxVars
  <2>2. PassedOver(Len(eviction) - maxCheck + 1)'
    BY <1>1 DEF Inv, FallbackInv, PassedOver, auxVars
  <2> QED BY <2>1, <2>2 DEF FallbackInv
<1>5. ScanInv' /\ RemoveInv'
  BY <1>1 DEF ScanInv, RemoveInv
<1> QED BY <1>2, <1>3, <1>4, <1>5 DEF Inv

\* The victim of the fallback is the last entry that is not pinned.
LEMMA FallbackVictimInv == ASSUME Inv, FallbackVictim PROVE Inv'
<1>1. /\ candidate # 0 /\ pc = "fallback" /\ pc' = "remove"
      /\ eviction[candidate] \notin pins
      /\ UNCHANGED <<items, eviction, candidate, maxCheck, pins, auxVars>>
  BY DEF FallbackVictim, cacheVars, frame
<1>2. TypeOK' /\ ListMatchesMap'
  BY <1>1 DEF FallbackVictim, Inv, TypeOK, ListMatchesMap, cacheVars, counters, frame, auxVars
<1>3. FrameInv' /\ PinsInv'
  BY <1>1 DEF FallbackVictim, Inv, FrameInv, PinsInv, InEvictOldest, frame, auxVars
<1>4. RemoveInv'
  <2>1. PassedOver(candidate + 1) /\ PassedOver(Len(eviction) - maxCheck + 1)
    BY <1>1 DEF Inv, FallbackInv
  <2>2. eviction[candidate] \notin steadyPins
    BY <1>1 DEF Inv, PinsInv
  <2> QED BY <1>1, <2>1, <2>2
          DEF RemoveInv, SteadyPinsSurvive, VictimIsOldest, SecondChance, PassedOver, auxVars
<1>5. ScanInv' /\ FallbackInv'
  BY <1>1 DEF ScanInv, FallbackInv
<1> QED BY <1>2, <1>3, <1>4, <1>5 DEF Inv

\* An evictOldest that finds every entry pinned changes nothing.
LEMMA FallbackEndInv == ASSUME Inv, FallbackEnd PROVE Inv'
<1>1. TypeOK' /\ ListMatchesMap'
  BY DEF FallbackEnd, ReturnToLoop, Inv, TypeOK, ListMatchesMap, cacheVars, counters
<1>2. FrameInv' /\ PinsInv' /\ (~InEvictOldest)'
  BY DEF FallbackEnd, ReturnToLoop, Inv, FrameInv, PinsInv, InEvictOldest, cacheVars
<1> QED BY <1>1, <1>2, OutsideEvictOldest, PTL DEF Inv

\* The removal of the victim ends the call, and with it every claim.
LEMMA RemoveVictimInv == ASSUME Inv, RemoveVictim PROVE Inv'
<1>1. candidate \in 1 .. Len(eviction) /\ RemoveElement(candidate) /\ ReturnToLoop /\ pc = "remove"
  BY DEF RemoveVictim, Inv, RemoveInv, TypeOK
<1>2. /\ eviction' \in Seq(CIDs) /\ Len(eviction') = Len(eviction) - 1
      /\ items' \in SUBSET CIDs /\ items' \subseteq items
      /\ size' \in [CIDs -> Nat] /\ fetchCount' \in [CIDs -> Nat]
      /\ currentBytes' \in Int /\ ListMatchesMap'
  BY <1>1, RemoveElementProperties
<1>3. candidate' = 0 /\ 0 \in 0 .. Len(eviction')
  BY <1>1, <1>2 DEF ReturnToLoop
<1>4. TypeOK'
  BY <1>1, <1>2, <1>3 DEF ReturnToLoop, Inv, TypeOK, counters
<1>5. FrameInv' /\ PinsInv' /\ (~InEvictOldest)'
  BY <1>1, <1>2, <1>3 DEF ReturnToLoop, Inv, FrameInv, PinsInv, InEvictOldest
<1> QED BY <1>2, <1>4, <1>5, OutsideEvictOldest, PTL DEF Inv

\* Pin and Unpin run at any moment of a Put.
LEMMA PinInv == ASSUME Inv, NEW c \in Pinnable, Pin(c) PROVE Inv'
<1>1. /\ UNCHANGED <<items, eviction, fetchCount, pc, arg, candidate, checked, maxCheck>>
      /\ UNCHANGED <<steadyPins, wasPopular>>
      /\ pins \subseteq pins' /\ seenPins \subseteq seenPins'
  BY DEF Pin, cacheVars, frame
<1>2. TypeOK' /\ ListMatchesMap'
  BY PinnableAssumption DEF Pin, Inv, TypeOK, ListMatchesMap, cacheVars, counters, frame
<1>3. FrameInv' /\ PinsInv'
  BY DEF Pin, Inv, FrameInv, PinsInv, InEvictOldest, cacheVars, frame
<1>4. ScanInv'
  BY <1>1 DEF Inv, ScanInv, PassedOver, Popular
<1>5. FallbackInv'
  BY <1>1 DEF Inv, FallbackInv, PassedOver
<1>6. RemoveInv'
  BY <1>1 DEF Inv, RemoveInv, SteadyPinsSurvive, VictimIsOldest, SecondChance
<1> QED BY <1>2, <1>3, <1>4, <1>5, <1>6 DEF Inv

\* An unpinned CID is no longer steady, and was seen pinned before.
LEMMA UnpinInv == ASSUME Inv, NEW c \in Pinnable, Unpin(c) PROVE Inv'
<1>1. /\ UNCHANGED <<items, eviction, fetchCount, pc, arg, candidate, checked, maxCheck>>
      /\ UNCHANGED <<seenPins, wasPopular>>
      /\ pins' \subseteq pins /\ steadyPins' \subseteq steadyPins
  BY DEF Unpin, cacheVars, frame
<1>2. TypeOK' /\ ListMatchesMap'
  BY DEF Unpin, Inv, TypeOK, ListMatchesMap, cacheVars, counters, frame
<1>3. FrameInv' /\ PinsInv'
  BY DEF Unpin, Inv, FrameInv, PinsInv, InEvictOldest, cacheVars, frame
<1>4. ScanInv'
  BY <1>1 DEF Inv, ScanInv, PassedOver, Popular
<1>5. FallbackInv'
  BY <1>1 DEF Inv, FallbackInv, PassedOver
<1>6. RemoveInv'
  BY <1>1 DEF Inv, RemoveInv, SteadyPinsSurvive, VictimIsOldest, SecondChance
<1> QED BY <1>2, <1>3, <1>4, <1>5, <1>6 DEF Inv

\* A step that changes no variable keeps the invariant.
LEMMA StutterInv == ASSUME Inv, UNCHANGED vars PROVE Inv'
BY DEF Inv, TypeOK, ListMatchesMap, FrameInv, PinsInv, InEvictOldest, ScanInv,
       FallbackInv, RemoveInv, PassedOver, Popular, SteadyPinsSurvive,
       VictimIsOldest, SecondChance, vars, cacheVars, counters, frame, auxVars

\* Every step of the cache and of the pins keeps the invariant.
LEMMA NextInv == Inv /\ [Next]_vars => Inv'
<1> SUFFICES ASSUME Inv, [Next]_vars PROVE Inv'
  OBVIOUS
<1>1. CASE \E c \in CIDs : Get(c) \/ Evict(c)
  BY <1>1, GetInv, EvictInv
<1>2. CASE \E b \in Block : PutCached(b) \/ PutNew(b)
  BY <1>2, PutCachedInv, PutNewInv
<1>3. CASE PutStep
  BY <1>3, BeginEvictOldestInv, InsertInv, ScanPinnedInv, ScanPopularInv, ScanVictimInv,
     ScanEndInv, FallbackPinnedInv, FallbackVictimInv, FallbackEndInv, RemoveVictimInv
     DEF PutStep, EvictOldestStep
<1>4. CASE \E c \in Pinnable : Pin(c) \/ Unpin(c)
  BY <1>4, PinInv, UnpinInv
<1>5. CASE UNCHANGED vars
  BY <1>5, StutterInv
<1> QED BY <1>1, <1>2, <1>3, <1>4, <1>5 DEF Next

\* The inductive invariant holds in every reachable state.
THEOREM Invariance == Spec => []Inv
<1>1. Init => Inv
  BY InitInv
<1>2. Inv /\ [Next]_vars => Inv'
  BY NextInv
<1> QED BY <1>1, <1>2, PTL DEF Spec

\* Types, for every cache: in particular the candidate of a scan is always
\* an element of the list.
THEOREM TypeCorrect == Spec => []TypeOK
<1>1. Inv => TypeOK
  BY DEF Inv
<1> QED BY <1>1, Invariance, PTL

\* The map and the list of LRUCache never disagree.
THEOREM MapAndListAgree == Spec => []ListMatchesMap
<1>1. Inv => ListMatchesMap
  BY DEF Inv
<1> QED BY <1>1, Invariance, PTL

\* evictOldest never removes a block that stays pinned throughout the call,
\* under every interleaving with Pin and Unpin.
THEOREM PinsProtect == Spec => []SteadyPinsSurvive
<1>1. Inv => SteadyPinsSurvive
  BY DEF Inv, RemoveInv, SteadyPinsSurvive
<1> QED BY <1>1, Invariance, PTL

\* VictimIsOldest for every instance: evictOldest takes the oldest entry without
\* an excuse, through all interleavings with Pin and Unpin.
THEOREM VictimJustified == Spec => []VictimIsOldest
<1>1. Inv => VictimIsOldest
  BY DEF Inv, RemoveInv, VictimIsOldest
<1> QED BY <1>1, Invariance, PTL

\* SecondChance for every instance: evictOldest takes a popular entry only when
\* the scanned part of the list offered no other.
THEOREM PopularSpared == Spec => []SecondChance
<1>1. Inv => SecondChance
  BY DEF Inv, RemoveInv, SecondChance
<1> QED BY <1>1, Invariance, PTL

-----------------------------------------------------------------------------
(* The byte limit, when no CID has two lengths. *)

\* With one length per CID, no step exceeds the limit: a replacement
\* changes no byte count, and Insert runs only when there is room or no entry.
LEMMA BudgetStep ==
    ASSUME FixedSizes, Inv, SizesInv, Budget, [Next]_vars
    PROVE  SizesInv' /\ Budget'
<1>1. /\ Len(eviction) \in Nat /\ currentBytes \in Int /\ MaxBytes \in Nat
      /\ size \in [CIDs -> Nat] /\ items \subseteq CIDs /\ eviction \in Seq(CIDs)
  BY LimitAssumption DEF Inv, TypeOK
<1>2. ASSUME NEW c \in CIDs, Get(c) PROVE SizesInv' /\ Budget'
  <2>1. Len(eviction') = Len(eviction)
    BY <1>2, MoveToFrontProperties DEF Get, Inv
  <2> QED BY <1>2, <2>1 DEF Get, SizesInv, Budget
<1>3. ASSUME NEW c \in CIDs, Evict(c) PROVE SizesInv' /\ Budget'
  <2>1. Position(c) \in 1 .. Len(eviction) /\ RemoveElement(Position(c)) /\ eviction[Position(c)] = c
    BY <1>3, PositionProperties DEF Evict, Inv
  <2>2. /\ Len(eviction') = Len(eviction) - 1
        /\ currentBytes' \in Int /\ currentBytes' <= currentBytes
    BY <2>1, RemoveElementProperties
  <2>3. Budget'
    BY <1>1, <2>2 DEF Budget
  <2>4. SizesInv'
    BY <1>1, <2>1 DEF RemoveElement, SizesInv
  <2> QED BY <2>3, <2>4
<1>4. ASSUME NEW b \in Block, PutCached(b) PROVE SizesInv' /\ Budget'
  <2>1. b.cid \in CIDs /\ b.size \in BlockSizes[b.cid] /\ b.size \in Nat /\ b.cid \in items
    BY <1>4, BlockProperties DEF PutCached
  <2>2. size[b.cid] = b.size
    BY <2>1 DEF SizesInv, FixedSizes
  <2>3. Len(eviction') = Len(eviction)
    BY <1>4, <2>1, MoveToFrontProperties DEF PutCached, Inv
  <2>4. currentBytes' = currentBytes
    BY <1>1, <1>4, <2>1, <2>2 DEF PutCached
  <2>5. SizesInv'
    BY <1>1, <1>4, <2>1 DEF PutCached, SizesInv
  <2> QED BY <2>3, <2>4, <2>5 DEF Budget
<1>5. ASSUME NEW b \in Block, PutNew(b) PROVE SizesInv' /\ Budget'
  BY <1>5 DEF PutNew, SizesInv, Budget, cacheVars
<1>6. CASE Insert
  <2>1. /\ arg \in Block /\ arg.cid \in CIDs
        /\ arg.size \in BlockSizes[arg.cid] /\ arg.size \in Nat
    BY <1>6, BlockProperties DEF Insert, Inv, FrameInv
  <2>2. Len(eviction') = Len(eviction) + 1
    BY <1>1, <1>6, <2>1 DEF Insert
  <2>3. Budget'
    BY <1>1, <1>6, <2>1, <2>2 DEF Insert, NoRoom, Budget
  <2>4. SizesInv'
    BY <1>1, <1>6, <2>1 DEF Insert, SizesInv
  <2> QED BY <2>3, <2>4
<1>7. CASE RemoveVictim
  <2>1. candidate \in 1 .. Len(eviction) /\ RemoveElement(candidate)
    BY <1>7 DEF RemoveVictim, Inv, RemoveInv, TypeOK
  <2>2. /\ Len(eviction') = Len(eviction) - 1
        /\ currentBytes' \in Int /\ currentBytes' <= currentBytes
    BY <2>1, RemoveElementProperties
  <2>3. Budget'
    BY <1>1, <2>2 DEF Budget
  <2>4. SizesInv'
    BY <1>1, <2>1 DEF RemoveElement, SizesInv
  <2> QED BY <2>3, <2>4
<1>8. ASSUME UNCHANGED <<items, eviction, size, currentBytes>> PROVE SizesInv' /\ Budget'
  BY <1>8 DEF SizesInv, Budget
<1>9. ASSUME BeginEvictOldest \/ ScanPinned \/ ScanPopular \/ ScanVictim \/ ScanEnd
             \/ FallbackPinned \/ FallbackVictim \/ FallbackEnd
             \/ (\E c \in Pinnable : Pin(c) \/ Unpin(c)) \/ UNCHANGED vars
      PROVE  UNCHANGED <<items, eviction, size, currentBytes>>
  BY <1>9 DEF BeginEvictOldest, ScanPinned, ScanPopular, ScanVictim, ScanEnd, FallbackPinned,
              FallbackVictim, FallbackEnd, Pin, Unpin, vars, cacheVars
<1> QED BY <1>2, <1>3, <1>4, <1>5, <1>6, <1>7, <1>8, <1>9 DEF Next, PutStep, EvictOldestStep

\* When every CID has one length, the cache exceeds its byte limit only with
\* a single block in it, whatever the sizes, the limit, the pins and the
\* order of calls.
THEOREM BudgetKept == FixedSizes => (Spec => []Budget)
<1> SUFFICES ASSUME FixedSizes PROVE Spec => []Budget
  OBVIOUS
<1>1. Init => SizesInv /\ Budget
  BY DEF Init, SizesInv, Budget
<1>2. Inv /\ SizesInv /\ Budget /\ [Next]_vars => SizesInv' /\ Budget'
  BY BudgetStep
<1> QED BY <1>1, <1>2, Invariance, PTL DEF Spec

-----------------------------------------------------------------------------
(* Sums over finite sets. *)

\* The element that the fold takes out of a set first.
Chosen(s) == CHOOSE x \in s : TRUE

\* The subsets with at most n elements.
Upto(T, n) == {s \in SUBSET T : Cardinality(s) <= n}

\* g has the sum of f over every set of D, each from that of a smaller one: the
\* recursive function of the library's folds.
Sums(g, f, D) ==
    g = [s \in D |-> IF s = {} THEN 0 ELSE f[Chosen(s)] + g[s \ {Chosen(s)}]]

\* SumFunction by that function.
LEMMA SumUnfolded ==
    ASSUME NEW f, NEW T, DOMAIN f = T
    PROVE  SumFunction(f) = (CHOOSE g : Sums(g, f, SUBSET T))[T]
BY DEF SumFunction, SumFunctionOnSet, FoldFunctionOnSet, MapThenFoldSet, Sums, Chosen

\* A set of numbers that is not empty has a least element: induction for sets.
LEMMA LeastNumber ==
    ASSUME NEW S \in SUBSET Nat, S # {}
    PROVE  \E n \in S : \A m \in S : n <= m
<1> DEFINE R == OpToRel(<, Nat)
<1>1. IsWellFoundedOn(R, Nat)
  BY NatLessThanWellFounded
<1>2. \A m, n \in Nat : <<m, n>> \in R <=> m < n
  BY DEF OpToRel
<1> HIDE DEF R
<1>3. PICK n \in S : \A m \in S : ~(<<m, n>> \in R)
  BY <1>1, WFMin
<1>4. \A m, k \in Nat : ~(m < k) => k <= m
  OBVIOUS
<1> QED BY <1>2, <1>3, <1>4

\* The element taken out is one of the set.
LEMMA ChosenIsMember == ASSUME NEW s, s # {} PROVE Chosen(s) \in s
BY DEF Chosen

\* For a finite set the recursion has a solution, by induction over the size of
\* the subsets.
LEMMA SumsExist ==
    ASSUME NEW f, NEW T, IsFiniteSet(T)
    PROVE  \E g : Sums(g, f, SUBSET T)
<1> DEFINE Bad == {n \in Nat : ~ \E g : Sums(g, f, Upto(T, n))}
<1>0. ASSUME NEW s \in SUBSET T
      PROVE  /\ IsFiniteSet(s) /\ Cardinality(s) \in Nat /\ (Cardinality(s) = 0 <=> s = {})
             /\ \A x \in s : Cardinality(s \ {x}) = Cardinality(s) - 1 /\ s \ {x} \in SUBSET T
  BY FS_Subset, FS_CardinalityType, FS_EmptySet, FS_RemoveElement
<1>1. CASE Bad = {}
  <2>1. Cardinality(T) \in Nat
    BY FS_CardinalityType
  <2>2. PICK g : Sums(g, f, Upto(T, Cardinality(T)))
    BY <1>1, <2>1
  <2>3. Upto(T, Cardinality(T)) = SUBSET T
    BY FS_Subset DEF Upto
  <2> QED BY <2>2, <2>3
<1>2. CASE Bad # {}
  <2>1. PICK n \in Bad : \A m \in Bad : n <= m
    <3>1. Bad \in SUBSET Nat
      OBVIOUS
    <3> HIDE DEF Bad
    <3> QED BY <1>2, <3>1, LeastNumber
  <2>2. CASE n = 0
    <3> DEFINE g == [s \in Upto(T, 0) |-> 0]
    <3>1. \A s \in Upto(T, 0) : s = {}
      BY <1>0 DEF Upto
    <3>2. Sums(g, f, Upto(T, 0))
      BY <3>1 DEF Sums
    <3> QED BY <2>1, <2>2, <3>2
  <2>3. CASE n # 0
    <3>1. n \in Nat /\ n - 1 \in Nat /\ ~(n <= n - 1)
      BY <2>3
    <3>2. PICK h : Sums(h, f, Upto(T, n - 1))
      BY <2>1, <3>1
    <3> DEFINE g == [s \in Upto(T, n) |->
                        IF s = {} THEN 0 ELSE f[Chosen(s)] + h[s \ {Chosen(s)}]]
    <3>3. ASSUME NEW s \in Upto(T, n - 1) PROVE s \in Upto(T, n) /\ g[s] = h[s]
      <4>1. s \in Upto(T, n)
        BY <1>0, <3>1 DEF Upto
      <4> QED BY <3>2, <4>1 DEF Sums
    <3>4. ASSUME NEW s \in Upto(T, n), s # {}
          PROVE  h[s \ {Chosen(s)}] = g[s \ {Chosen(s)}]
      <4>1. s \ {Chosen(s)} \in Upto(T, n - 1)
        BY <1>0, <3>1, <3>4, ChosenIsMember DEF Upto
      <4> HIDE DEF g
      <4> QED BY <4>1, <3>3
    <3>5. Sums(g, f, Upto(T, n))
      BY <3>4 DEF Sums
    <3> HIDE DEF g
    <3> QED BY <2>1, <3>5
  <2> QED BY <2>2, <2>3
<1> QED BY <1>1, <1>2
\* The sums of two functions that agree on a finite set agree too.
LEMMA SumsAgree ==
    ASSUME NEW f, NEW h, NEW S, NEW T, NEW a, NEW b, NEW V, IsFiniteSet(V),
           V \subseteq S, V \subseteq T,
           Sums(a, f, SUBSET S), Sums(b, h, SUBSET T), \A x \in V : f[x] = h[x]
    PROVE  a[V] = b[V]
<1> DEFINE Bad == {n \in Nat : \E s \in SUBSET V : Cardinality(s) = n /\ a[s] # b[s]}
<1>0. ASSUME NEW s \in SUBSET V
      PROVE  /\ IsFiniteSet(s) /\ Cardinality(s) \in Nat
             /\ \A x \in s : Cardinality(s \ {x}) = Cardinality(s) - 1 /\ s \ {x} \in SUBSET V
  BY FS_Subset, FS_CardinalityType, FS_RemoveElement
<1>1. SUFFICES ASSUME a[V] # b[V] PROVE FALSE
  OBVIOUS
<1>2. Bad \in SUBSET Nat /\ Bad # {}
  BY <1>0, <1>1
<1>3. PICK n \in Bad : \A m \in Bad : n <= m
  <2> HIDE DEF Bad
  <2> QED BY <1>2, LeastNumber
<1>4. PICK s \in SUBSET V : Cardinality(s) = n /\ a[s] # b[s]
  OBVIOUS
<1>5. /\ a[s] = IF s = {} THEN 0 ELSE f[Chosen(s)] + a[s \ {Chosen(s)}]
      /\ b[s] = IF s = {} THEN 0 ELSE h[Chosen(s)] + b[s \ {Chosen(s)}]
  <2>1. s \in SUBSET S /\ s \in SUBSET T
    OBVIOUS
  <2> QED BY <2>1 DEF Sums
<1>6. s # {}
  BY <1>4, <1>5
<1>7. Chosen(s) \in s
  BY <1>6, ChosenIsMember
<1> DEFINE t == s \ {Chosen(s)}
<1>8. t \in SUBSET V /\ Cardinality(t) = n - 1 /\ n \in Nat /\ n - 1 \in Nat
  BY <1>0, <1>4, <1>7
<1>9. n - 1 \notin Bad
  BY <1>3, <1>8
<1>10. a[t] = b[t]
  BY <1>8, <1>9
<1> QED BY <1>4, <1>5, <1>6, <1>7, <1>10

\* A sum of numbers is a number, and any element may be taken out first.
LEMMA SumsRemove ==
    ASSUME NEW T, IsFiniteSet(T), NEW f, \A x \in T : f[x] \in Nat,
           NEW g, Sums(g, f, SUBSET T)
    PROVE  \A x \in T : g[T] = f[x] + g[T \ {x}] /\ g[T \ {x}] \in Nat
<1> DEFINE OK(s) == g[s] \in Nat /\ \A x \in s : g[s] = f[x] + g[s \ {x}]
           Bad == {n \in Nat : \E s \in SUBSET T : Cardinality(s) = n /\ ~OK(s)}
<1>0. ASSUME NEW s \in SUBSET T
      PROVE  /\ IsFiniteSet(s) /\ Cardinality(s) \in Nat
             /\ \A x \in s : Cardinality(s \ {x}) = Cardinality(s) - 1 /\ s \ {x} \in SUBSET T
  BY FS_Subset, FS_CardinalityType, FS_RemoveElement
<1>1. CASE Bad = {}
  <2>1. ASSUME NEW s \in SUBSET T PROVE OK(s)
    <3> HIDE DEF OK
    <3> QED BY <1>0, <1>1
  <2> QED BY <2>1
<1>2. CASE Bad # {}
  <2>0. Bad \in SUBSET Nat
    OBVIOUS
  <2>1. PICK n \in Bad : \A m \in Bad : n <= m
    <3> HIDE DEF Bad
    <3> QED BY <1>2, <2>0, LeastNumber
  <2>2. PICK s \in SUBSET T : Cardinality(s) = n /\ ~OK(s)
    OBVIOUS
  <2>3. ASSUME NEW t \in SUBSET T, Cardinality(t) = n - 1, n - 1 \in Nat PROVE OK(t)
    <3>1. n \in Nat /\ ~(n <= n - 1)
      OBVIOUS
    <3>2. n - 1 \notin Bad
      BY <2>1, <3>1
    <3> HIDE DEF OK
    <3> QED BY <2>3, <3>2
  <2>4. ASSUME NEW t \in SUBSET T
        PROVE  g[t] = IF t = {} THEN 0 ELSE f[Chosen(t)] + g[t \ {Chosen(t)}]
    BY DEF Sums
  <2>5. s # {}
    <3> SUFFICES ASSUME s = {} PROVE FALSE
      OBVIOUS
    <3>1. g[s] = 0
      BY <2>4
    <3>2. OK(s)
      BY <3>1
    <3> QED BY <2>2, <3>2
  <2> DEFINE y == Chosen(s)
             r == s \ {y}
  <2>6. y \in s /\ g[s] = f[y] + g[r]
    BY <2>4, <2>5, ChosenIsMember
  <2> HIDE DEF y
  <2>7. r \in SUBSET T /\ Cardinality(r) = n - 1 /\ n - 1 \in Nat
    <3>1. Cardinality(r) \in Nat
      BY <1>0, <2>6
    <3> QED BY <1>0, <2>2, <2>6, <3>1
  <2>8. OK(r) /\ f[y] \in Nat
    <3> HIDE DEF OK, r
    <3> QED BY <2>3, <2>6, <2>7
  <2>9. ASSUME NEW x \in s PROVE g[s] = f[x] + g[s \ {x}]
    <3>1. CASE x = y
      BY <2>6, <3>1
    <3>2. CASE x # y
      <4> DEFINE q == s \ {x}
                 w == s \ {x, y}
      <4>1. q \in SUBSET T /\ Cardinality(q) = n - 1 /\ y \in q /\ x \in r
        BY <1>0, <2>2, <2>6, <3>2
      <4>2. r \ {x} = w /\ q \ {y} = w
        OBVIOUS
      <4>3. g[r] = f[x] + g[w]
        BY <2>8, <4>1, <4>2
      <4>4. OK(q)
        <5> HIDE DEF OK, q
        <5> QED BY <2>3, <2>7, <4>1
      <4>5. g[q] = f[y] + g[w] /\ g[q] \in Nat
        BY <4>1, <4>2, <4>4
      <4>6. w \in SUBSET T /\ f[x] \in Nat
        OBVIOUS
      <4>7. g[w] \in Nat
        <5>1. Cardinality(q \ {y}) = Cardinality(q) - 1
          BY <1>0, <4>1
        <5>2. Cardinality(w) \in Nat
          BY <1>0, <4>6
        <5>3. n \in Nat /\ Cardinality(w) = (n - 1) - 1
          <6>1. n \in Nat
            OBVIOUS
          <6> HIDE DEF w, q, r, Bad
          <6> QED BY <4>1, <4>2, <5>1, <6>1
        <5>4. Cardinality(w) \notin Bad
          <6> HIDE DEF w, Bad
          <6>1. ~(n <= Cardinality(w))
            BY <5>2, <5>3
          <6> QED BY <2>1, <6>1
        <5>5. OK(w)
          <6> HIDE DEF OK, w
          <6> QED BY <4>6, <5>2, <5>4
        <5> QED BY <5>5
      <4> HIDE DEF q, w, r
      <4>8. g[s] = f[x] + g[q]
        BY <2>6, <2>8, <4>3, <4>5, <4>6, <4>7
      <4> QED BY <4>8 DEF q
    <3> QED BY <3>1, <3>2
  <2>10. g[s] \in Nat
    BY <2>6, <2>8
  <2> QED BY <2>2, <2>9, <2>10
<1> QED BY <1>1, <1>2

\* SumFunction of no numbers.
LEMMA SumOfNone == ASSUME NEW f, DOMAIN f = {} PROVE SumFunction(f) = 0
<1> DEFINE g == CHOOSE g : Sums(g, f, SUBSET {})
<1>1. Sums(g, f, SUBSET {})
  <2>1. \E h : Sums(h, f, SUBSET {})
    BY SumsExist, FS_EmptySet
  <2> QED BY <2>1
<1>2. SumFunction(f) = g[{}]
  BY SumUnfolded
<1> HIDE DEF g
<1> QED BY <1>1, <1>2 DEF Sums

\* One number of a sum, and the sum of the others.
LEMMA SumWithout ==
    ASSUME NEW T, IsFiniteSet(T), NEW f \in [T -> Nat], NEW x \in T
    PROVE  /\ SumFunction(f) = f[x] + SumFunction([c \in T \ {x} |-> f[c]])
           /\ SumFunction([c \in T \ {x} |-> f[c]]) \in Nat
<1> DEFINE R == T \ {x}
           h == [c \in R |-> f[c]]
           g == CHOOSE g : Sums(g, f, SUBSET T)
           k == CHOOSE k : Sums(k, h, SUBSET R)
<1>1. IsFiniteSet(R) /\ R \subseteq T /\ DOMAIN h = R /\ DOMAIN f = T
  BY FS_RemoveElement
<1>2. Sums(g, f, SUBSET T)
  <2>1. \E a : Sums(a, f, SUBSET T)
    BY SumsExist
  <2> QED BY <2>1
<1>3. Sums(k, h, SUBSET R)
  <2> HIDE DEF h, R
  <2>1. \E a : Sums(a, h, SUBSET R)
    BY <1>1, SumsExist
  <2> QED BY <2>1
<1>4. SumFunction(f) = g[T]
  BY <1>1, SumUnfolded
<1>5. SumFunction(h) = k[R]
  <2> HIDE DEF h, R
  <2> QED BY <1>1, SumUnfolded
<1>6. \A c \in R : f[c] = h[c]
  OBVIOUS
<1> HIDE DEF g, k, h
<1>7. g[T] = f[x] + g[R] /\ g[R] \in Nat
  <2>1. \A y \in T : f[y] \in Nat
    OBVIOUS
  <2>2. \A y \in T : g[T] = f[y] + g[T \ {y}] /\ g[T \ {y}] \in Nat
    BY <1>2, <2>1, SumsRemove
  <2> QED BY <2>2
<1> HIDE DEF R
<1>8. g[R] = k[R]
  BY <1>1, <1>2, <1>3, <1>6, SumsAgree
<1>9. SumFunction(f) = f[x] + SumFunction(h) /\ SumFunction(h) \in Nat
  BY <1>4, <1>5, <1>7, <1>8
<1> QED BY <1>9 DEF h, R

-----------------------------------------------------------------------------
(* The account of bytes. *)

FiniteItems == IsFiniteSet(items)

\* removeElement takes the bytes of the entry off the account.
LEMMA RemoveElementBytes ==
    ASSUME Inv, FiniteItems, BytesAccounted, NEW i \in 1 .. Len(eviction), RemoveElement(i)
    PROVE  FiniteItems' /\ BytesAccounted'
<1> DEFINE v == eviction[i]
           rest == [c \in items \ {v} |-> size[c]]
<1>1. v \in items /\ items \subseteq CIDs /\ size \in [CIDs -> Nat]
  BY DEF Inv, TypeOK, ListMatchesMap, ToSet
<1>2. /\ items' = items \ {v} /\ currentBytes' = currentBytes - size[v]
      /\ size' = [size EXCEPT ![v] = 0]
  BY DEF RemoveElement
<1> HIDE DEF v
<1>3. SumFunction([c \in items |-> size[c]]) = size[v] + SumFunction(rest) /\ SumFunction(rest) \in Nat
  <2> DEFINE f == [c \in items |-> size[c]]
  <2>1. f \in [items -> Nat] /\ f[v] = size[v] /\ rest = [c \in items \ {v} |-> f[c]]
    BY <1>1
  <2>2. v \in items /\ IsFiniteSet(items)
    BY <1>1 DEF FiniteItems
  <2> HIDE DEF f, rest
  <2>3. SumFunction(f) = size[v] + SumFunction(rest) /\ SumFunction(rest) \in Nat
    <3>1. /\ SumFunction(f) = f[v] + SumFunction([c \in items \ {v} |-> f[c]])
          /\ SumFunction([c \in items \ {v} |-> f[c]]) \in Nat
      BY <2>1, <2>2, SumWithout
    <3> QED BY <2>1, <3>1
  <2> QED BY <2>3 DEF f
<1>4. [c \in items' |-> size'[c]] = rest
  BY <1>1, <1>2
<1> HIDE DEF rest
<1>5. size[v] \in Nat
  BY <1>1
<1>6. currentBytes' = SumFunction(rest)
  BY <1>2, <1>3, <1>5 DEF BytesAccounted
<1>7. IsFiniteSet(items')
  BY <1>2, FS_RemoveElement DEF FiniteItems
<1> QED BY <1>4, <1>6, <1>7 DEF BytesAccounted, FiniteItems

\* The block of c is now n bytes long, whether it was in the cache or not.
LEMMA SetSizeBytes ==
    ASSUME Inv, FiniteItems, NEW c \in CIDs, NEW n \in Nat,
           items' = items \cup {c}, size' = [size EXCEPT ![c] = n]
    PROVE  /\ FiniteItems'
           /\ SumFunction([d \in items' |-> size'[d]]) = n + SumFunction([d \in items \ {c} |-> size[d]])
           /\ SumFunction([d \in items \ {c} |-> size[d]]) \in Nat
<1> DEFINE f == [d \in items' |-> size'[d]]
           rest == [d \in items \ {c} |-> size[d]]
<1>1. items \subseteq CIDs /\ size \in [CIDs -> Nat]
  BY DEF Inv, TypeOK
<1>2. IsFiniteSet(items')
  BY FS_AddElement DEF FiniteItems
<1>3. f \in [items' -> Nat] /\ f[c] = n /\ c \in items' /\ rest = [d \in items' \ {c} |-> f[d]]
  BY <1>1
<1> HIDE DEF f, rest
<1>4. SumFunction(f) = n + SumFunction(rest) /\ SumFunction(rest) \in Nat
  BY <1>2, <1>3, SumWithout
<1> QED BY <1>2, <1>4 DEF f, rest, FiniteItems

\* Every step that changes the list changes currentBytes by as much.
LEMMA BytesStep ==
    ASSUME Inv, FiniteItems, BytesAccounted, [Next]_vars
    PROVE  FiniteItems' /\ BytesAccounted'
<1>1. items \subseteq CIDs /\ size \in [CIDs -> Nat] /\ currentBytes \in Int
  BY DEF Inv, TypeOK
<1>2. ASSUME NEW c \in CIDs, Evict(c) PROVE FiniteItems' /\ BytesAccounted'
  <2>1. Position(c) \in 1 .. Len(eviction) /\ RemoveElement(Position(c))
    BY <1>2, PositionProperties DEF Evict, Inv
  <2> QED BY <2>1, RemoveElementBytes
<1>3. ASSUME NEW b \in Block, PutCached(b) PROVE FiniteItems' /\ BytesAccounted'
  <2> DEFINE f == [d \in items |-> size[d]]
             rest == [d \in items \ {b.cid} |-> size[d]]
  <2>1. b.cid \in CIDs /\ b.size \in Nat /\ b.cid \in items
    BY <1>3, BlockProperties DEF PutCached
  <2>2. /\ items' = items \cup {b.cid} /\ size' = [size EXCEPT ![b.cid] = b.size]
        /\ currentBytes' = currentBytes - size[b.cid] + b.size
    BY <1>3, <2>1 DEF PutCached
  <2>3. /\ FiniteItems'
        /\ SumFunction([d \in items' |-> size'[d]]) = b.size + SumFunction(rest)
    BY <2>1, <2>2, SetSizeBytes, Zenon
  <2>4. f \in [items -> Nat] /\ f[b.cid] = size[b.cid] /\ rest = [d \in items \ {b.cid} |-> f[d]]
    BY <1>1, <2>1
  <2> HIDE DEF f, rest
  <2>5. SumFunction(f) = size[b.cid] + SumFunction(rest) /\ SumFunction(rest) \in Nat
    <3>1. IsFiniteSet(items)
      BY DEF FiniteItems
    <3>2. /\ SumFunction(f) = f[b.cid] + SumFunction([d \in items \ {b.cid} |-> f[d]])
          /\ SumFunction([d \in items \ {b.cid} |-> f[d]]) \in Nat
      BY <2>1, <2>4, <3>1, SumWithout
    <3> QED BY <2>4, <3>2
  <2>6. currentBytes = SumFunction(f) /\ size[b.cid] \in Nat
    BY <1>1, <2>1 DEF BytesAccounted, f
  <2>7. currentBytes' = b.size + SumFunction(rest)
    BY <2>1, <2>2, <2>5, <2>6
  <2> QED BY <2>3, <2>7 DEF BytesAccounted
<1>4. CASE Insert
  <2> DEFINE f == [d \in items |-> size[d]]
  <2>1. arg.cid \in CIDs /\ arg.size \in Nat /\ arg.cid \notin items
    BY <1>4, BlockProperties DEF Insert, Inv, FrameInv
  <2>2. /\ items' = items \cup {arg.cid} /\ size' = [size EXCEPT ![arg.cid] = arg.size]
        /\ currentBytes' = currentBytes + arg.size
    BY <1>4 DEF Insert
  <2>3. items \ {arg.cid} = items
    BY <2>1
  <2>4. /\ FiniteItems'
        /\ SumFunction([d \in items' |-> size'[d]])
             = arg.size + SumFunction([d \in items \ {arg.cid} |-> size[d]])
    BY <2>1, <2>2, SetSizeBytes
  <2>5. currentBytes = SumFunction([d \in items \ {arg.cid} |-> size[d]])
    BY <2>3 DEF BytesAccounted
  <2>6. currentBytes' = arg.size + currentBytes
    BY <1>1, <2>1, <2>2
  <2> QED BY <2>4, <2>5, <2>6 DEF BytesAccounted
<1>5. CASE RemoveVictim
  <2>1. candidate \in 1 .. Len(eviction) /\ RemoveElement(candidate)
    BY <1>5 DEF RemoveVictim, Inv, RemoveInv, TypeOK
  <2> QED BY <2>1, RemoveElementBytes
<1>6. ASSUME UNCHANGED <<items, size, currentBytes>> PROVE FiniteItems' /\ BytesAccounted'
  BY <1>6 DEF FiniteItems, BytesAccounted
<1>7. ASSUME (\E c \in CIDs : Get(c)) \/ (\E b \in Block : PutNew(b))
             \/ BeginEvictOldest \/ ScanPinned \/ ScanPopular \/ ScanVictim \/ ScanEnd
             \/ FallbackPinned \/ FallbackVictim \/ FallbackEnd
             \/ (\E c \in Pinnable : Pin(c) \/ Unpin(c)) \/ UNCHANGED vars
      PROVE  UNCHANGED <<items, size, currentBytes>>
  BY <1>7 DEF Get, PutNew, BeginEvictOldest, ScanPinned, ScanPopular, ScanVictim, ScanEnd,
              FallbackPinned, FallbackVictim, FallbackEnd, Pin, Unpin, vars, cacheVars
<1> QED BY <1>2, <1>3, <1>4, <1>5, <1>6, <1>7 DEF Next, PutStep, EvictOldestStep

\* currentBytes, kept by additions and subtractions at five places, is at every
\* moment the total length of the cached blocks.
THEOREM BytesStayAccounted == Spec => []BytesAccounted
<1>1. Init => FiniteItems /\ BytesAccounted
  <2> SUFFICES ASSUME Init PROVE FiniteItems /\ BytesAccounted
    OBVIOUS
  <2>1. items = {} /\ currentBytes = 0
    BY DEF Init
  <2>2. DOMAIN [c \in items |-> size[c]] = {}
    BY <2>1
  <2>3. SumFunction([c \in items |-> size[c]]) = 0
    BY <2>2, SumOfNone
  <2> QED BY <2>1, <2>3, FS_EmptySet DEF FiniteItems, BytesAccounted
<1>2. Inv /\ FiniteItems /\ BytesAccounted /\ [Next]_vars => FiniteItems' /\ BytesAccounted'
  BY BytesStep
<1> QED BY <1>1, <1>2, Invariance, PTL DEF Spec

=============================================================================
