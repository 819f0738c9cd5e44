----------------------------- MODULE NodeProofs -----------------------------
(***************************************************************************)
(* The replication loop of a node spreads fragments such that they survive *)
(* the loss of peers, and a node keeps its identity: for all sets of keys, *)
(* blocks and peers, and any numbers of fragments.                         *)
(*                                                                         *)
(* SurvivesPeerLoss is about what the loop has counted as spread.  RepInv  *)
(* says where the fragments of the block under way have arrived, and that  *)
(* those of the cycles before are still there.  The rest is counting: the  *)
(* fragments that are lost with some peers fit into a table with a row for *)
(* each of these peers and as many columns as a share has fragments.       *)
(*                                                                         *)
(* IdentityKept is about one step, the one in which Start returns.  What   *)
(* makes it true is decided earlier, possibly some crashes earlier:        *)
(* peer.key holds the last identity as long as it was never taken for      *)
(* unreadable (KeyKept); only a start that has lost that identity for good *)
(* gets as far as truncating the file (KeyReplaced); and a start does not  *)
(* go on before the file holds the key it is going to use (KeyDurable).    *)
(***************************************************************************)
EXTENDS Node, Replication, FiniteSetTheorems, FunctionTheorems, TLAPS

-----------------------------------------------------------------------------
(* Shares: how many fragments fall to a set of peers. *)

\* The order of the peers lists none twice.
Distinct(peers) == \A i, j \in 1 .. Len(peers) : peers[i] = peers[j] => i = j

\* The peer to which push number i goes.
Turn(peers, i) == peers[(i % Len(peers)) + 1]

\* Division with remainder.
LEMMA DivMod ==
    ASSUME NEW i \in Nat, NEW n \in Nat \ {0}
    PROVE  /\ i \div n \in Nat /\ i % n \in 0 .. n - 1
           /\ i = n * (i \div n) + (i % n)
OBVIOUS

\* The numbers below n are n.
LEMMA FirstNumbers ==
    ASSUME NEW n \in Nat
    PROVE  IsFiniteSet(0 .. n - 1) /\ Cardinality(0 .. n - 1) = n
<1>1. 0 \in Int /\ n - 1 \in Int
  OBVIOUS
<1>2. /\ IsFiniteSet(0 .. n - 1)
      /\ Cardinality(0 .. n - 1) = IF 0 > n - 1 THEN 0 ELSE (n - 1) - 0 + 1
  BY <1>1, FS_Interval
<1> QED BY <1>2

\* The quotients of the numbers below total are below their number, rounded up.
LEMMA QuotientBound ==
    ASSUME NEW total \in Nat, NEW n \in Nat \ {0}, NEW i \in 0 .. total - 1
    PROVE  /\ (total + n - 1) \div n \in Nat
           /\ i \div n \in 0 .. ((total + n - 1) \div n) - 1
<1> DEFINE q == i \div n
           r == i % n
           s == (total + n - 1) \div n
           t == (total + n - 1) % n
<1>1. q \in Nat /\ r \in 0 .. n - 1 /\ i = n * q + r
  <2>1. i \in Nat
    OBVIOUS
  <2> QED BY <2>1, DivMod
<1>2. s \in Nat /\ t \in 0 .. n - 1 /\ total + n - 1 = n * s + t
  <2>1. total + n - 1 \in Nat
    OBVIOUS
  <2> QED BY <2>1, DivMod
<1> HIDE DEF q, r, s, t
<1>3. n * q <= total - 1 /\ total <= n * s
  BY <1>1, <1>2
<1>4. q < s
  <2> SUFFICES ASSUME s <= q PROVE FALSE
    BY <1>1, <1>2
  <2>1. n * s <= n * q
    BY <1>1, <1>2
  <2>2. n * s \in Nat /\ n * q \in Nat
    BY <1>1, <1>2
  <2> QED BY <1>3, <2>1, <2>2
<1> QED BY <1>1, <1>2, <1>4 DEF q, s

\* Round-robin gives a set of peers no more fragments than its shares.
LEMMA LostFragments ==
    ASSUME NEW total \in Nat, NEW peers \in Seq(Peers), peers # << >>, Distinct(peers),
           NEW gone \in SUBSET ToSet(peers)
    PROVE  LET share == (total + Len(peers) - 1) \div Len(peers)
               lost  == {i \in 0 .. total - 1 : Turn(peers, i) \in gone}
           IN  Cardinality(gone) * share \in Nat /\ Cardinality(lost) <= Cardinality(gone) * share
<1> DEFINE n == Len(peers)
           share == (total + n - 1) \div n
           lost == {i \in 0 .. total - 1 : Turn(peers, i) \in gone}
           places == gone \X (0 .. share - 1)
           f == [i \in lost |-> <<Turn(peers, i), i \div n>>]
<1>1. n \in Nat \ {0} /\ peers \in [1 .. n -> Peers]
  OBVIOUS
<1>2. share \in Nat
  <2>1. total + n - 1 \in Nat
    BY <1>1
  <2> QED BY <1>1, <2>1, DivMod
<1>3. IsFiniteSet(gone) /\ Cardinality(gone) \in Nat
  <2>1. ToSet(peers) \subseteq Peers
    BY <1>1 DEF ToSet
  <2> QED BY <2>1, ReplicationAssumption, FS_Subset, FS_CardinalityType
<1>4. IsFiniteSet(0 .. share - 1) /\ Cardinality(0 .. share - 1) = share
  <2> HIDE DEF share
  <2>1. share - 1 \in Int /\ (IF 0 > share - 1 THEN 0 ELSE share - 1 - 0 + 1) = share
    BY <1>2
  <2> QED BY <2>1, FS_Interval
<1>5. IsFiniteSet(places) /\ Cardinality(places) = Cardinality(gone) * share
  BY <1>3, <1>4, FS_Product
<1>6. \A i \in lost : i \in Nat /\ i \div n \in 0 .. share - 1
  <2> HIDE DEF share
  <2> SUFFICES ASSUME NEW i \in lost PROVE i \in Nat /\ i \div n \in 0 .. share - 1
    OBVIOUS
  <2>1. i \in 0 .. total - 1
    OBVIOUS
  <2> QED BY <1>1, <2>1, QuotientBound DEF share
<1>7. f \in [lost -> places]
  BY <1>6
<1>8. ASSUME NEW i \in lost, NEW j \in lost, f[i] = f[j]
      PROVE  i = j
  <2>1. Turn(peers, i) = Turn(peers, j) /\ i \div n = j \div n
    BY <1>8
  <2>2. i \in Nat /\ j \in Nat
    BY <1>6
  <2>3. /\ i % n \in 0 .. n - 1 /\ i = n * (i \div n) + (i % n)
        /\ j % n \in 0 .. n - 1 /\ j = n * (j \div n) + (j % n)
    BY <1>1, <2>2, DivMod
  <2>4. i % n = j % n
    <3>1. (i % n) + 1 \in 1 .. n /\ (j % n) + 1 \in 1 .. n
      BY <1>1, <2>3
    <3>2. (i % n) + 1 = (j % n) + 1
      BY <2>1, <3>1 DEF Distinct, Turn
    <3> QED BY <2>3, <3>2
  <2> QED BY <2>1, <2>3, <2>4
<1>9. f \in Injection(lost, places)
  BY <1>7, <1>8 DEF Injection, IsInjective
<1> HIDE DEF f, lost, places
<1>10. Cardinality(lost) <= Cardinality(places)
  BY <1>5, <1>9, FS_Injection
<1> QED BY <1>2, <1>3, <1>5, <1>10 DEF lost, share

-----------------------------------------------------------------------------
(* The inductive invariant of the replication loop. *)

LoopType ==
    [stage : {"idle", "block", "push", "hung"}, todo : SUBSET Blocks, peers : Seq(Peers),
     cid : Blocks \cup {"none"}, next : Nat, clean : BOOLEAN]

\* The first n fragments of b are where the round-robin over peers puts them.
Arrived(b, peers, n, disks) ==
    \A i \in 0 .. n - 1 : Fragment(b, i) \in disks[Turn(peers, i)]

LoopInv ==
    /\ cycle \in LoopType
    /\ cycle.stage # "idle" => cycle.peers # << >> /\ Distinct(cycle.peers)
    /\ cycle.stage \in {"push", "hung"} => cycle.cid \in Blocks

\* As long as no push of a block failed, the fragments so far have arrived.
CycleInv ==
    cycle.stage \in {"push", "hung"} /\ enableErasure /\ cycle.clean =>
        Arrived(cycle.cid, cycle.peers, cycle.next, held)

\* The fragments of the latest cycle without a failure are still there.
SpreadInv ==
    /\ spread \in [Blocks -> Seq(Peers)]
    /\ \A b \in Blocks : spread[b] # << >> =>
           Distinct(spread[b]) /\ Arrived(b, spread[b], Total, held)

SpreadTypes ==
    /\ enableErasure \in BOOLEAN /\ connected \subseteq Peers
    /\ held \in [Peers -> SUBSET (Blocks \X Nat)]

RepInv == SpreadTypes /\ LoopInv /\ CycleInv /\ SpreadInv

\* Everybody has a turn that is a peer.
LEMMA TurnIsPeer ==
    ASSUME NEW peers \in Seq(Peers), peers # << >>, NEW i \in Nat
    PROVE  Turn(peers, i) \in Peers
<1>1. Len(peers) \in Nat \ {0} /\ peers \in [1 .. Len(peers) -> Peers]
  OBVIOUS
<1>2. i % Len(peers) \in 0 .. Len(peers) - 1
  BY <1>1, DivMod
<1>3. (i % Len(peers)) + 1 \in 1 .. Len(peers)
  BY <1>1, <1>2
<1> QED BY <1>1, <1>3 DEF Turn

\* What has arrived stays: no disk loses anything.
LEMMA ArrivedStays ==
    ASSUME NEW b, NEW peers \in Seq(Peers), peers # << >>, NEW n \in Nat,
           \A p \in Peers : held[p] \subseteq held'[p], Arrived(b, peers, n, held)
    PROVE  Arrived(b, peers, n, held')
<1> SUFFICES ASSUME NEW i \in 0 .. n - 1 PROVE Fragment(b, i) \in held'[Turn(peers, i)]
  BY DEF Arrived
<1>1. Turn(peers, i) \in Peers
  BY TurnIsPeer
<1> QED BY <1>1 DEF Arrived

\* Steps outside the pushes of a block.
LEMMA QuietInv ==
    ASSUME RepInv, LoopInv', cycle'.stage \notin {"push", "hung"} \/ cycle'.next = 0,
           connected' \subseteq Peers, UNCHANGED <<enableErasure, held, spread>>
    PROVE  RepInv'
<1>1. SpreadTypes' /\ SpreadInv'
  BY DEF RepInv, SpreadTypes, SpreadInv
<1>2. CASE cycle'.stage \in {"push", "hung"} /\ cycle'.next = 0
  <2>1. 0 .. cycle'.next - 1 = {}
    BY <1>2
  <2> QED BY <1>1, <2>1 DEF RepInv, CycleInv, Arrived
<1>3. CASE cycle'.stage \notin {"push", "hung"}
  BY <1>1, <1>3 DEF RepInv, CycleInv
<1> QED BY <1>2, <1>3

\* A tick lists the peers that are connected, each once.
LEMMA TickInv ==
    ASSUME RepInv, ReplicationTick
    PROVE  RepInv'
<1>1. PICK order \in SetToSeqs(connected) :
          cycle' = [Idle EXCEPT !.stage = "block", !.todo = PopularBlocks, !.peers = order]
  BY DEF ReplicationTick
<1>2. connected \subseteq Peers /\ connected # {} /\ IsFiniteSet(connected)
      /\ Cardinality(connected) \in Nat \ {0}
  BY ReplicationAssumption, FS_Subset, FS_CardinalityType, FS_EmptySet
  DEF ReplicationTick, RepInv, SpreadTypes
<1>3. /\ order \in [1 .. Cardinality(connected) -> connected]
      /\ \A i, j \in 1 .. Cardinality(connected) : i # j => order[i] # order[j]
  BY DEF SetToSeqs
<1>4. order \in Seq(Peers) /\ order # << >> /\ Len(order) = Cardinality(connected)
  BY <1>2, <1>3
<1>5. Distinct(order)
  BY <1>3, <1>4 DEF Distinct
<1>6. cycle' = [stage |-> "block", todo |-> PopularBlocks, peers |-> order, cid |-> "none",
               next |-> 0, clean |-> TRUE]
  BY <1>1 DEF Idle
<1>7. PopularBlocks \subseteq Blocks
  BY DEF PopularBlocks
<1>8. LoopInv'
  BY <1>4, <1>5, <1>6, <1>7 DEF LoopInv, LoopType
<1> QED BY <1>2, <1>6, <1>8, QuietInv DEF ReplicationTick

\* The next popular block, or none.
LEMMA NextBlockInv ==
    ASSUME RepInv, NEW b \in Blocks, NextBlock(b)
    PROVE  RepInv'
<1>1. cycle \in LoopType /\ cycle.peers # << >> /\ Distinct(cycle.peers)
  BY DEF RepInv, LoopInv, NextBlock
<1>2. connected' \subseteq Peers
  BY DEF NextBlock, RepInv, SpreadTypes
<1>3. CASE cycle' = [cycle EXCEPT !.stage = "push", !.todo = @ \ {b}, !.cid = b, !.next = 0,
                                  !.clean = TRUE]
  <2>1. cycle' \in LoopType /\ cycle'.peers = cycle.peers /\ cycle'.cid = b /\ cycle'.next = 0
    BY <1>1, <1>3 DEF LoopType
  <2>2. LoopInv'
    BY <1>1, <2>1 DEF LoopInv
  <2> QED BY <1>2, <2>1, <2>2, QuietInv DEF NextBlock
<1>4. CASE cycle' = [cycle EXCEPT !.todo = @ \ {b}]
  <2>1. cycle' \in LoopType /\ cycle'.peers = cycle.peers /\ cycle'.stage = "block"
    BY <1>1, <1>4 DEF LoopType, NextBlock
  <2>2. LoopInv'
    BY <1>1, <2>1 DEF LoopInv
  <2> QED BY <1>2, <2>1, <2>2, QuietInv DEF NextBlock
<1> QED BY <1>3, <1>4 DEF NextBlock

\* The end of a cycle.
LEMMA EndCycleInv ==
    ASSUME RepInv, EndCycle
    PROVE  RepInv'
<1>1. LoopInv' /\ cycle'.stage = "idle"
  BY DEF EndCycle, Idle, LoopInv, LoopType
<1> QED BY <1>1, QuietInv DEF EndCycle, RepInv, SpreadTypes

\* The loop after a push.
LEMMA PushEndsType ==
    ASSUME cycle \in LoopType, NEW clean \in BOOLEAN,
           cycle' = [cycle EXCEPT !.stage = "push", !.next = @ + 1, !.clean = clean]
    PROVE  /\ cycle' \in LoopType /\ cycle'.stage = "push" /\ cycle'.next = cycle.next + 1
           /\ cycle'.clean = clean /\ cycle'.cid = cycle.cid /\ cycle'.peers = cycle.peers
<1> DEFINE n == cycle.next + 1
<1>1. n \in Nat
  BY DEF LoopType
<1>2. cycle' = [cycle EXCEPT !.stage = "push", !.next = n, !.clean = clean]
  OBVIOUS
<1> HIDE DEF n
<1>3. /\ cycle' \in LoopType /\ cycle'.stage = "push" /\ cycle'.next = n
      /\ cycle'.clean = clean /\ cycle'.cid = cycle.cid /\ cycle'.peers = cycle.peers
  BY <1>1, <1>2 DEF LoopType
<1> QED BY <1>3 DEF n

\* A push that arrives.
LEMMA PushStoredInv ==
    ASSUME RepInv, PushStored
    PROVE  RepInv'
<1>1. /\ cycle \in LoopType /\ cycle.peers # << >> /\ Distinct(cycle.peers) /\ cycle.cid \in Blocks
      /\ cycle.stage \in {"push", "hung"}
  BY DEF RepInv, LoopInv, PushStored, Pushing
<1>2. cycle' = [cycle EXCEPT !.stage = "push", !.next = @ + 1, !.clean = @ /\ TRUE]
  BY DEF PushStored, NextPush
<1>3. /\ cycle' \in LoopType /\ cycle'.stage = "push" /\ cycle'.next = cycle.next + 1
      /\ cycle'.clean = cycle.clean /\ cycle'.cid = cycle.cid /\ cycle'.peers = cycle.peers
  <2>1. cycle.clean \in BOOLEAN /\ (cycle.clean /\ TRUE) = cycle.clean
    BY <1>1, Zenon DEF LoopType
  <2>2. cycle' = [cycle EXCEPT !.stage = "push", !.next = @ + 1, !.clean = cycle.clean]
    BY <1>2, <2>1
  <2> QED BY <1>1, <2>1, <2>2, PushEndsType
<1>4. LoopInv'
  BY <1>1, <1>3 DEF LoopInv
<1>5. Receiver \in Peers /\ Receiver = Turn(cycle.peers, cycle.next) /\ cycle.next \in Nat
  BY <1>1, TurnIsPeer DEF Receiver, Turn, LoopType
<1>6. held' = [held EXCEPT ![Receiver] = @ \cup {Item}] /\ Item \in Blocks \X Nat
  <2>1. Total \in Nat
    BY ReplicationAssumption DEF Total
  <2> QED BY <1>1, <1>5, <2>1 DEF PushStored, Item, Fragment, Whole
<1>7. SpreadTypes' /\ \A p \in Peers : held[p] \subseteq held'[p]
  BY <1>5, <1>6 DEF RepInv, SpreadTypes, PushStored
<1>8. SpreadInv'
  <2>1. Total \in Nat /\ spread' = spread
    BY ReplicationAssumption DEF Total, PushStored
  <2> QED BY <1>7, <2>1, ArrivedStays DEF RepInv, SpreadInv
<1>9. CycleInv'
  <2> SUFFICES ASSUME enableErasure, cycle.clean
               PROVE  Arrived(cycle.cid, cycle.peers, cycle.next + 1, held')
    BY <1>3 DEF CycleInv, PushStored
  <2>1. Arrived(cycle.cid, cycle.peers, cycle.next, held)
    BY <1>1 DEF RepInv, CycleInv
  <2>2. cycle.peers \in Seq(Peers)
    BY <1>1 DEF LoopType
  <2>3. Arrived(cycle.cid, cycle.peers, cycle.next, held')
    BY <1>1, <1>5, <1>7, <2>1, <2>2, ArrivedStays
  <2>4. Fragment(cycle.cid, cycle.next) \in held'[Turn(cycle.peers, cycle.next)]
    BY <1>5, <1>6 DEF Item, RepInv, SpreadTypes
  <2>5. \A i \in 0 .. (cycle.next + 1) - 1 : i = cycle.next \/ i \in 0 .. cycle.next - 1
    BY <1>5
  <2> QED BY <2>3, <2>4, <2>5 DEF Arrived
<1> QED BY <1>4, <1>7, <1>8, <1>9 DEF RepInv

\* A push that does not arrive: the block is not clean any more.
LEMMA PushNotStoredInv ==
    ASSUME RepInv, PushNotStored
    PROVE  RepInv'
<1>1. /\ cycle \in LoopType /\ cycle.peers # << >> /\ Distinct(cycle.peers) /\ cycle.cid \in Blocks
      /\ cycle.stage \in {"push", "hung"}
  BY DEF RepInv, LoopInv, PushNotStored, Pushing
<1>2. cycle' = [cycle EXCEPT !.stage = "push", !.next = @ + 1, !.clean = FALSE]
  <2>1. (cycle.clean /\ FALSE) = FALSE
    OBVIOUS
  <2> QED BY <2>1 DEF PushNotStored, NextPush
<1>3. /\ cycle' \in LoopType /\ cycle'.clean = FALSE /\ cycle'.cid = cycle.cid
      /\ cycle'.peers = cycle.peers
  BY <1>1, <1>2, PushEndsType
<1>4. LoopInv' /\ CycleInv'
  BY <1>1, <1>3 DEF LoopInv, CycleInv
<1>5. SpreadTypes' /\ SpreadInv'
  BY DEF RepInv, SpreadTypes, SpreadInv, PushNotStored
<1> QED BY <1>4, <1>5 DEF RepInv

\* A push that hangs.
LEMMA PushHangsInv ==
    ASSUME RepInv, PushHangs
    PROVE  RepInv'
<1>1. cycle \in LoopType /\ cycle.stage = "push" /\ cycle' = [cycle EXCEPT !.stage = "hung"]
  BY DEF RepInv, LoopInv, PushHangs
<1>2. /\ cycle' \in LoopType /\ cycle'.clean = cycle.clean /\ cycle'.cid = cycle.cid
      /\ cycle'.peers = cycle.peers /\ cycle'.next = cycle.next
  BY <1>1 DEF LoopType
<1>3. LoopInv' /\ CycleInv'
  BY <1>1, <1>2 DEF RepInv, LoopInv, CycleInv, PushHangs
<1>4. SpreadTypes' /\ SpreadInv'
  BY DEF RepInv, SpreadTypes, SpreadInv, PushHangs
<1> QED BY <1>3, <1>4 DEF RepInv

\* All pushes of a block have ended.
LEMMA EndBlockInv ==
    ASSUME RepInv, EndBlock
    PROVE  RepInv'
<1>1. /\ cycle \in LoopType /\ cycle.peers # << >> /\ Distinct(cycle.peers) /\ cycle.cid \in Blocks
      /\ cycle.stage = "push" /\ cycle.next = Pushes
  BY DEF RepInv, LoopInv, EndBlock
<1>2. /\ cycle' \in LoopType /\ cycle'.peers = cycle.peers /\ cycle'.stage = "block"
  BY <1>1 DEF LoopType, EndBlock
<1>3. LoopInv' /\ CycleInv'
  BY <1>1, <1>2 DEF LoopInv, CycleInv
<1>4. SpreadTypes'
  BY DEF RepInv, SpreadTypes, EndBlock
<1>5. SpreadInv'
  <2>1. CASE enableErasure /\ cycle.clean
    <3>1. spread' = [spread EXCEPT ![cycle.cid] = cycle.peers] /\ held' = held
      BY <2>1 DEF EndBlock
    <3>2. Arrived(cycle.cid, cycle.peers, Total, held)
      BY <1>1, <2>1 DEF RepInv, CycleInv, Pushes
    <3>3. cycle.peers \in Seq(Peers)
      BY <1>1 DEF LoopType
    <3> QED BY <1>1, <3>1, <3>2, <3>3 DEF RepInv, SpreadInv
  <2>2. CASE ~(enableErasure /\ cycle.clean)
    BY <2>2 DEF RepInv, SpreadInv, EndBlock
  <2> QED BY <2>1, <2>2
<1> QED BY <1>3, <1>4, <1>5 DEF RepInv

\* Fetches and connections do not touch the loop.
LEMMA OthersInv ==
    ASSUME RepInv,
           \/ \E b \in Blocks : Fetch(b)
           \/ \E p \in Peers : ComeOrGo(p)
           \/ UNCHANGED replicationVars
    PROVE  RepInv'
<1>1. UNCHANGED <<enableErasure, cycle, held, spread>> /\ connected' \subseteq Peers
  BY DEF RepInv, SpreadTypes, Fetch, ComeOrGo, replicationVars
<1> QED BY <1>1 DEF RepInv, SpreadTypes, LoopInv, CycleInv, SpreadInv, Pushes

\* Whatever the loop has counted as spread is on the disks of the peers.
THEOREM ReplicationInvariance == ReplicationSpec => []RepInv
<1>1. ReplicationInit => RepInv
  <2> SUFFICES ASSUME ReplicationInit PROVE RepInv
    OBVIOUS
  <2>1. SpreadTypes
    BY DEF ReplicationInit, SpreadTypes
  <2>2. LoopInv /\ cycle.stage = "idle"
    BY DEF ReplicationInit, Idle, LoopInv, LoopType
  <2>3. SpreadInv
    BY DEF ReplicationInit, SpreadInv
  <2> QED BY <2>1, <2>2, <2>3 DEF RepInv, CycleInv
<1>2. RepInv /\ [ReplicationNext]_replicationVars => RepInv'
  BY TickInv, NextBlockInv, EndCycleInv, PushStoredInv, PushNotStoredInv, PushHangsInv,
     EndBlockInv, OthersInv DEF ReplicationNext, LoopStep
<1> QED BY <1>1, <1>2, PTL DEF ReplicationSpec

\* Fragments survive the loss of peers: for any number of peers, data and
\* parity fragments and after any later cycles, a block whose fragments have all
\* arrived can be decoded without any peers whose shares are within the parity.
THEOREM FragmentsSurvive == ReplicationSpec => []SurvivesPeerLoss
<1>1. RepInv => SurvivesPeerLoss
  <2> SUFFICES ASSUME RepInv, NEW b \in Blocks, spread[b] # << >>,
                      NEW gone \in SUBSET ToSet(spread[b]),
                      Cardinality(gone) * ((Total + Len(spread[b]) - 1) \div Len(spread[b]))
                          <= ParityShards
               PROVE  Decodable(b, UNION {held[p] : p \in ToSet(spread[b]) \ gone})
    BY DEF SurvivesPeerLoss
  <2> DEFINE peers == spread[b]
             all == 0 .. Total - 1
             lost == {i \in all : Turn(peers, i) \in gone}
             left == {i \in all : Fragment(b, i) \in UNION {held[p] : p \in ToSet(peers) \ gone}}
  <2>1. /\ peers \in Seq(Peers) /\ peers # << >> /\ Distinct(peers)
        /\ Arrived(b, peers, Total, held)
    BY DEF RepInv, SpreadInv
  <2>2. /\ Total \in Nat /\ Total = DataShards + ParityShards
        /\ DataShards \in Nat /\ ParityShards \in Nat
    BY ReplicationAssumption DEF Total
  <2>3. Cardinality(lost) <= ParityShards
    <3> DEFINE shares == Cardinality(gone) * ((Total + Len(peers) - 1) \div Len(peers))
    <3>1. shares \in Nat /\ Cardinality(lost) <= shares /\ shares <= ParityShards
      BY <2>1, <2>2, LostFragments
    <3>2. IsFiniteSet(all)
      BY <2>2, FirstNumbers
    <3>3. Cardinality(lost) \in Nat
      BY <3>2, FS_Subset, FS_CardinalityType
    <3> HIDE DEF shares, lost
    <3> QED BY <2>2, <3>1, <3>3
  <2>4. all \ lost \subseteq left
    <3> SUFFICES ASSUME NEW i \in all, i \notin lost PROVE i \in left
      OBVIOUS
    <3>1. Fragment(b, i) \in held[Turn(peers, i)]
      BY <2>1 DEF Arrived
    <3>2. Turn(peers, i) \in ToSet(peers)
      <4>1. Len(peers) \in Nat \ {0} /\ i \in Nat /\ DOMAIN peers = 1 .. Len(peers)
        BY <2>1, <2>2
      <4>2. i % Len(peers) \in 0 .. Len(peers) - 1
        BY <4>1, DivMod
      <4>3. (i % Len(peers)) + 1 \in 1 .. Len(peers)
        <5> HIDE DEF peers
        <5> QED BY <4>1, <4>2
      <4> QED BY <4>1, <4>3 DEF Turn, ToSet
    <3> QED BY <3>1, <3>2
  <2>5. /\ IsFiniteSet(all) /\ Cardinality(all) = Total
        /\ IsFiniteSet(left) /\ IsFiniteSet(lost) /\ all \cap lost = lost
    <3>1. IsFiniteSet(all) /\ Cardinality(all) = Total
      BY <2>2, FirstNumbers
    <3> QED BY <3>1, FS_Subset
  <2> HIDE DEF all, lost, left
  <2>6. Cardinality(all \ lost) = Total - Cardinality(lost)
    BY <2>5, FS_Difference
  <2>7. Cardinality(all \ lost) <= Cardinality(left)
    BY <2>4, <2>5, FS_Subset
  <2>8. Cardinality(left) \in Nat /\ Cardinality(lost) \in Nat
    BY <2>5, FS_CardinalityType
  <2>9. Cardinality(left) >= DataShards
    BY <2>2, <2>3, <2>6, <2>7, <2>8
  <2> QED BY <2>9 DEF Decodable, left, all
<1> QED BY <1>1, ReplicationInvariance, PTL

-----------------------------------------------------------------------------
(* The life of the node. *)

\* The file holds the identity of the last life that came up.
KeyKept == was # NoKey /\ ~misread => key = was

\* A key is only generated by a node without an identity to keep.
KeyReplaced == life \in {"keygen", "keyfill"} => (was = NoKey \/ misread) /\ id \in IDs

\* Every later step of Start, and the node that is up, use the key on disk.
KeyDurable == life \in {"host", "services", "up"} => id = key /\ id \in IDs

KeyTypes ==
    /\ misread \in BOOLEAN
    /\ key \in IDs \cup {NoKey} /\ was \in IDs \cup {NoKey}

\* The inductive invariant.
KeyInv == KeyTypes /\ KeyKept /\ KeyReplaced /\ KeyDurable

-----------------------------------------------------------------------------
\* Steps that only read the identity.
LEMMA KeyUntouched ==
    ASSUME KeyInv, UNCHANGED <<key, id, was, misread>>,
           life' = life \/ life' \notin {"keygen", "keyfill", "host", "services", "up"}
    PROVE  KeyInv'
  BY DEF KeyInv, KeyTypes, KeyKept, KeyReplaced, KeyDurable

\* Each step of Start keeps the invariant: what makes a crash or an error
\* after any of them harmless.
LEMMA StartingKeepsKey ==
    ASSUME KeyInv, Starting
    PROVE  KeyInv'
<1>1. CASE LoadKey
  BY <1>1 DEF LoadKey, KeyInv, KeyTypes, KeyKept, KeyReplaced, KeyDurable
<1>2. CASE \E k \in IDs : GenerateKey(k)
  <2>1. PICK k \in IDs : GenerateKey(k)
    BY <1>2
  <2>2. /\ life' = "keygen" /\ id' = k /\ misread' = (misread \/ key # NoKey)
        /\ key' = key /\ was' = was
    BY <2>1 DEF GenerateKey
  <2>3. misread' \in BOOLEAN /\ (misread' <=> misread \/ key # NoKey)
    BY <2>2
  <2>4. KeyTypes' /\ KeyDurable'
    BY <2>2, <2>3 DEF KeyInv, KeyTypes, KeyDurable
  <2>5. KeyKept' /\ KeyReplaced'
    BY <2>2, <2>3 DEF KeyInv, KeyKept, KeyReplaced
  <2> QED BY <2>4, <2>5 DEF KeyInv
<1>3. CASE OpenKeyFile
  BY <1>3 DEF OpenKeyFile, KeyInv, KeyTypes, KeyKept, KeyReplaced, KeyDurable
<1>4. CASE WriteKey
  BY <1>4 DEF WriteKey, KeyInv, KeyTypes, KeyKept, KeyReplaced, KeyDurable
<1>5. CASE StartFails
  BY <1>5, KeyUntouched DEF StartFails
<1>6. CASE OpenHost
  BY <1>6 DEF OpenHost, KeyInv, KeyTypes, KeyKept, KeyReplaced, KeyDurable
<1>7. CASE StartLoops
  BY <1>7 DEF StartLoops, KeyInv, KeyTypes, KeyKept, KeyReplaced, KeyDurable
<1> QED BY <1>1, <1>2, <1>3, <1>4, <1>5, <1>6, <1>7 DEF Starting

\* The process ends anywhere in Start: of the identity, what is left is the file.
LEMMA ExitKeepsKey ==
    ASSUME KeyInv, Exit
    PROVE  KeyInv'
  BY DEF Exit, KeyInv, KeyTypes, KeyKept, KeyReplaced, KeyDurable

\* Stop does not touch the identity.
LEMMA StoppingKeepsKey ==
    ASSUME KeyInv, StopDiscovery \/ Stopping
    PROVE  KeyInv'
  BY KeyUntouched DEF StopDiscovery, Stopping, Cancel, CloseHost

\* Nor do the loops, the connections and the summaries of a running node.
LEMMA RunningKeepsKey ==
    ASSUME KeyInv,
           \/ Broadcasting \/ LoopExits
           \/ PushStarts \/ PushEnds \/ PusherExits
           \/ \E p \in Peers :
                  \/ Connect(p)
                  \/ Quietly(SendOK(p, id, ~ctxDone)) \/ Quietly(SendFails(p))
                  \/ Quietly(SendHangs(p, ~ctxDone))
           \/ life = "up" /\ \E c \in CIDs : Quietly(CacheChanges(c))
           \/ \E m \in streams : Quietly(Receive(m)) \/ Quietly(Lose(m))
    PROVE  KeyInv'
<1>1. UNCHANGED <<life, key, id, was, misread>>
  BY DEF Broadcasting, LoopExits, PushStarts, PushEnds, PusherExits,
         Connect, Quietly, nodeVars
<1> QED BY <1>1, KeyUntouched

-----------------------------------------------------------------------------
\* The file and the identity agree in every reachable state of the node, of
\* loadOrGenerateKey and of every crash or error in the middle of it.
THEOREM KeyInvariance == Spec => []KeyInv
<1>1. NodeInit => KeyInv
  BY DEF NodeInit, KeyInv, KeyTypes, KeyKept, KeyReplaced, KeyDurable
<1>2. KeyInv /\ [Next]_vars => KeyInv'
  <2> SUFFICES ASSUME KeyInv, [Next]_vars PROVE KeyInv'
    OBVIOUS
  <2>1. CASE UNCHANGED vars
    BY <2>1, KeyUntouched DEF vars, nodeVars
  <2>2. CASE Starting
    BY <2>2, StartingKeepsKey
  <2>3. CASE StopDiscovery \/ Stopping
    BY <2>3, StoppingKeepsKey
  <2>4. CASE Exit
    BY <2>4, ExitKeepsKey
  <2> QED
    BY <2>1, <2>2, <2>3, <2>4, RunningKeepsKey DEF Next
<1> QED BY <1>1, <1>2, PTL DEF Spec

\* Only the end of Start makes a node come up.
LEMMA OnlyStartLoops ==
    ASSUME Next, life' = "up", life # "up"
    PROVE  StartLoops
<1>1. ~(StopDiscovery \/ Stopping \/ Exit)
  BY DEF StopDiscovery, Stopping, Cancel, CloseHost, Exit
<1>2. Starting => StartLoops
  BY DEF Starting, LoadKey, GenerateKey, OpenKeyFile, WriteKey,
         StartFails, OpenHost
<1>3. UNCHANGED life \/ Starting
  BY <1>1 DEF Next, Broadcasting, LoopExits, PushStarts, PushEnds,
              PusherExits, Connect, Quietly, nodeVars
<1> QED BY <1>2, <1>3

\* A node that was up comes up again as the same peer, whatever crashes, failed
\* starts and failed writes of peer.key lie between, unless a whole key file
\* was taken for unreadable.
THEOREM NodeKeepsIdentity == Spec => IdentityKept
<1>1. KeyInv /\ [Next]_vars =>
        [life' = "up" /\ life # "up" /\ was # NoKey /\ ~misread => id' = was]_vars
  <2> SUFFICES ASSUME KeyInv, Next, life' = "up", life # "up", was # NoKey, ~misread
               PROVE  id' = was
    OBVIOUS
  <2>1. StartLoops
    BY OnlyStartLoops
  <2> QED BY <2>1 DEF StartLoops, KeyInv, KeyKept, KeyDurable
<1> QED BY <1>1, KeyInvariance, PTL DEF Spec, IdentityKept

=============================================================================
