--------------------------- MODULE PublishProofs ---------------------------
(***************************************************************************)
(* Proofs about ContentStore, and about Publish on top of it, for every    *)
(* set of files and of CIDs, every chunk size, every number of requests    *)
(* that run at once and every number of crashes and failed writes.         *)
(*                                                                         *)
(* The properties of the store speak of what a caller can see between two  *)
(* calls.  StoreInv extends them to the moments inside a call: to a file   *)
(* that is being filled, to a pin that is in memory and not yet on the     *)
(* disk, and to the time between a crash and the next start, when all that *)
(* is left is pins.json.                                                   *)
(*                                                                         *)
(* Once a block was stored it stays "safe": whole, or excused because it   *)
(* was deleted, or because a later write of the same block was cut short   *)
(* or is still going on.  PublishInv says what is safe at which moment: of *)
(* a request, the blocks before the next one; of a manifest that is on the *)
(* disk or about to be, all of its blocks; and what is or may yet be       *)
(* announced.                                                              *)
(***************************************************************************)
EXTENDS Publish, FiniteSetTheorems, WellFoundedInduction, TLAPS

\* The write in progress writes what its call was asked to, in a process that
\* lives, and a pin is changed in memory before it is written.
WritingInv ==
    /\ writing # Idle => running
    /\ writing.op = "put" => writing.name \in Content
    /\ writing.op = "pin" => writing.name \in pins
    /\ writing.op = "unpin" => writing.name \in CIDs \ pins

\* A torn file is being written or was left by a write that was cut short.
TornInv ==
    \A f \in Files : disk[f] = "torn" =>
        f \in interrupted \/ (writing.stage = "fill" /\ Target = f)

\* The pins that count as made are in memory while the process runs, and in
\* pins.json whenever a start would be able to read it.
AckedInv ==
    /\ running => acked \ forgotten \subseteq pins
    /\ disk[PinFile] = "whole" => acked \ forgotten \subseteq savedPins
    /\ disk[PinFile] = "absent" => acked = {}

RevokedInv ==
    /\ revoked \cap pins = {}
    /\ disk[PinFile] = "whole" => revoked \cap savedPins = {}

StoreInv == TypeOK /\ WritingInv /\ TornInv /\ AckedInv /\ RevokedInv

-----------------------------------------------------------------------------
(* The write in progress. *)

\* os.WriteFile is given the name of a file of the store, and writes pins.json
\* for Pin and Unpin only.
LEMMA TargetIsFile ==
    ASSUME StoreInv
    PROVE  /\ Target \in Files
           /\ Target = PinFile <=> writing.op # "put"
           /\ writing = Idle <=> writing.stage = "none"
           /\ writing # Idle => /\ writing.op \in {"put", "pin", "unpin"}
                                /\ writing.stage \in {"open", "fill"}
                                /\ writing.name \in Content \cup CIDs
  BY FilesAssumption DEF StoreInv, TypeOK, WritingInv, Target, Files, Idle

-----------------------------------------------------------------------------
(* Every step preserves the invariant. *)

\* NewStore in an empty directory.
LEMMA InitStoreInv == Init => StoreInv
  BY FaultsAssumption
  DEF Init, StoreInv, TypeOK, WritingInv, TornInv, AckedInv, RevokedInv, Idle, Files

\* Put, PutManifest and PutFragment.
LEMMA PutStoreInv ==
    ASSUME StoreInv, NEW f \in Content, Put(f)
    PROVE  StoreInv'
<1>1. TypeOK'
  BY DEF StoreInv, TypeOK, Put, aux
<1>2. TornInv' /\ AckedInv' /\ RevokedInv'
  BY DEF StoreInv, TornInv, AckedInv, RevokedInv, Put, Unlocked, Idle, aux
<1>3. WritingInv'
  BY DEF StoreInv, WritingInv, Put, Unlocked, aux
<1> QED BY <1>1, <1>2, <1>3 DEF StoreInv

LEMMA PinStoreInv ==
    ASSUME StoreInv, NEW c \in CIDs, Pin(c)
    PROVE  StoreInv'
<1>1. TypeOK'
  BY DEF StoreInv, TypeOK, Pin
<1>2. TornInv' /\ AckedInv' /\ RevokedInv'
  BY DEF StoreInv, TornInv, AckedInv, RevokedInv, Pin, Unlocked, Idle
<1>3. WritingInv'
  BY DEF StoreInv, WritingInv, Pin, Unlocked
<1> QED BY <1>1, <1>2, <1>3 DEF StoreInv

LEMMA UnpinStoreInv ==
    ASSUME StoreInv, NEW c \in CIDs, Unpin(c)
    PROVE  StoreInv'
<1>1. TypeOK'
  BY DEF StoreInv, TypeOK, Unpin
<1>2. TornInv' /\ AckedInv' /\ RevokedInv'
  BY DEF StoreInv, TornInv, AckedInv, RevokedInv, Unpin, Unlocked, Idle
<1>3. WritingInv'
  BY DEF StoreInv, WritingInv, Unpin, Unlocked
<1> QED BY <1>1, <1>2, <1>3 DEF StoreInv

\* Delete removes blocks only, so never pins.json.
LEMMA DeleteStoreInv ==
    ASSUME StoreInv, NEW f \in Blocks, Delete(f)
    PROVE  StoreInv'
<1>1. f # PinFile /\ f \in Files
  BY FilesAssumption DEF Content, Files
<1>2. TypeOK'
  BY <1>1 DEF StoreInv, TypeOK, Delete
<1>3. /\ disk'[f] = "absent" /\ disk'[PinFile] = disk[PinFile]
      /\ \A g \in Files \ {f} : disk'[g] = disk[g]
  BY <1>1 DEF StoreInv, TypeOK, Delete, Files
<1>4. TornInv'
  BY <1>3 DEF StoreInv, TornInv, Delete, Unlocked, Target
<1>5. WritingInv' /\ AckedInv' /\ RevokedInv'
  BY <1>3 DEF StoreInv, WritingInv, AckedInv, RevokedInv, Delete
<1> QED BY <1>2, <1>4, <1>5 DEF StoreInv

\* os.WriteFile truncates its file: what tears pins.json.
LEMMA OpenTruncateStoreInv ==
    ASSUME StoreInv, OpenTruncate
    PROVE  StoreInv'
<1>1. Target \in Files /\ writing # Idle
  BY TargetIsFile DEF OpenTruncate, Idle
<1>2. writing \in [op : {"put", "pin", "unpin"},
                   name : Content \cup CIDs, stage : {"open", "fill"}]
  BY <1>1 DEF StoreInv, TypeOK
<1>3. /\ disk'[Target] = "torn"
      /\ \A g \in Files \ {Target} : disk'[g] = disk[g]
      /\ disk' \in [Files -> {"absent", "torn", "whole"}]
  BY <1>1 DEF StoreInv, TypeOK, OpenTruncate
<1>4. /\ writing'.op = writing.op /\ writing'.name = writing.name
      /\ writing'.stage = "fill" /\ writing' # Idle
      /\ writing' \in [op : {"put", "pin", "unpin"},
                       name : Content \cup CIDs, stage : {"open", "fill"}]
  BY <1>2 DEF OpenTruncate, Idle
<1>5. Target' = Target
  BY <1>4 DEF Target
<1>6. TypeOK'
  BY <1>3, <1>4 DEF StoreInv, TypeOK, OpenTruncate, aux
<1>7. WritingInv'
  BY <1>1, <1>4 DEF StoreInv, WritingInv, OpenTruncate
<1>8. TornInv'
  BY <1>3, <1>4, <1>5 DEF StoreInv, TornInv, OpenTruncate, aux
<1>9. disk'[PinFile] = "torn" \/ disk'[PinFile] = disk[PinFile]
  BY <1>3 DEF Files
<1>10. AckedInv' /\ RevokedInv'
  BY <1>9 DEF StoreInv, AckedInv, RevokedInv, OpenTruncate, aux
<1> QED BY <1>6, <1>7, <1>8, <1>10 DEF StoreInv

\* A write that completes: its file is whole, and pins.json holds the pins.
LEMMA WriteEndStoreInv ==
    ASSUME StoreInv, WriteEnd
    PROVE  StoreInv'
<1>1. /\ Target \in Files /\ writing # Idle
      /\ Target = PinFile <=> writing.op # "put"
      /\ writing.op \in {"put", "pin", "unpin"}
  BY TargetIsFile DEF WriteEnd, Idle
<1>2. /\ disk'[Target] = "whole"
      /\ \A g \in Files \ {Target} : disk'[g] = disk[g]
      /\ disk' \in [Files -> {"absent", "torn", "whole"}]
  BY <1>1 DEF StoreInv, TypeOK, WriteEnd
<1>3. writing.op \in {"pin", "unpin"} => writing.name \in CIDs
  BY DEF StoreInv, TypeOK, WritingInv
<1>4. TypeOK'
  BY <1>2, <1>3 DEF StoreInv, TypeOK, WriteEnd
<1>5. WritingInv' /\ TornInv'
  BY <1>2 DEF StoreInv, WritingInv, TornInv, WriteEnd, Idle
<1>6. AckedInv' /\ RevokedInv'
  <2>1. CASE writing.op = "put"
    <3>1. disk'[PinFile] = disk[PinFile]
      BY <2>1, <1>1, <1>2 DEF Files
    <3> QED BY <2>1, <3>1, <1>1 DEF StoreInv, AckedInv, RevokedInv, WriteEnd
  <2>2. CASE writing.op = "pin"
    BY <2>2, <1>1, <1>2 DEF StoreInv, AckedInv, RevokedInv, WritingInv, WriteEnd
  <2>3. CASE writing.op = "unpin"
    BY <2>3, <1>1, <1>2 DEF StoreInv, AckedInv, RevokedInv, WritingInv, WriteEnd
  <2> QED BY <2>1, <2>2, <2>3, <1>1
<1> QED BY <1>4, <1>5, <1>6 DEF StoreInv

\* A write that fails leaves its file torn if it got past the open.
LEMMA WriteFailsStoreInv ==
    ASSUME StoreInv, WriteFails
    PROVE  StoreInv'
<1>1. Target \in Files
  BY TargetIsFile
<1>2. TypeOK'
  BY <1>1, FaultsAssumption DEF StoreInv, TypeOK, WriteFails
<1>3. WritingInv' /\ TornInv'
  BY DEF StoreInv, WritingInv, TornInv, WriteFails, Idle
<1>4. AckedInv' /\ RevokedInv'
  BY DEF StoreInv, AckedInv, RevokedInv, WriteFails
<1> QED BY <1>2, <1>3, <1>4 DEF StoreInv

\* The process dies, in the middle of a write or not.
LEMMA CrashStoreInv ==
    ASSUME StoreInv, Crash
    PROVE  StoreInv'
<1>1. Target \in Files
  BY TargetIsFile
<1>2. TypeOK'
  <2>1. faults' \in 0 .. MaxFaults
    BY FaultsAssumption DEF StoreInv, TypeOK, Crash
  <2>2. running' \in BOOLEAN /\ pins' \in SUBSET CIDs
    BY DEF Crash
  <2>3. interrupted' \in SUBSET Files
    BY <1>1 DEF StoreInv, TypeOK, Crash
  <2> QED BY <2>1, <2>2, <2>3 DEF StoreInv, TypeOK, Crash
<1>3. WritingInv' /\ TornInv'
  BY DEF StoreInv, WritingInv, TornInv, Crash, Idle
<1>4. AckedInv' /\ RevokedInv'
  BY DEF StoreInv, AckedInv, RevokedInv, Crash
<1> QED BY <1>2, <1>3, <1>4 DEF StoreInv

\* The pins that NewStore reads are in force; those it cannot read are forgotten.
LEMMA RestartStoreInv ==
    ASSUME StoreInv, Restart
    PROVE  StoreInv'
<1>1. writing = Idle /\ PinFile \in Files
  BY DEF StoreInv, WritingInv, Restart, Files
<1>2. TypeOK'
  BY DEF StoreInv, TypeOK, Restart, LoadPins
<1>3. WritingInv' /\ TornInv'
  BY <1>1 DEF StoreInv, WritingInv, TornInv, Restart, LoadPins, Idle, Target
<1>4. AckedInv' /\ RevokedInv'
  <2>1. CASE disk[PinFile] = "whole" /\ pins' = savedPins /\ forgotten' = forgotten \ savedPins
    BY <2>1 DEF StoreInv, AckedInv, RevokedInv, Restart
  <2>2. CASE pins' = {} /\ forgotten' = forgotten \cup acked
    BY <2>2 DEF StoreInv, AckedInv, RevokedInv, Restart
  <2> QED BY <2>1, <2>2 DEF Restart, LoadPins
<1> QED BY <1>2, <1>3, <1>4 DEF StoreInv

\* Any step of the store.
LEMMA NextStoreInv ==
    ASSUME StoreInv, [Next]_vars
    PROVE  StoreInv'
<1>1. CASE UNCHANGED vars
  BY <1>1 DEF vars, aux, StoreInv, TypeOK, WritingInv, TornInv, AckedInv, RevokedInv, Target
<1>2. CASE Next
  BY <1>2, PutStoreInv, PinStoreInv, UnpinStoreInv, DeleteStoreInv, OpenTruncateStoreInv,
     WriteEndStoreInv, WriteFailsStoreInv, CrashStoreInv, RestartStoreInv
  DEF Next
<1> QED BY <1>1, <1>2

\* Between two calls the invariant is what the three properties say.
LEMMA StoreInvImplies ==
    StoreInv => TypeOK /\ TornOnlyIfInterrupted /\ AckedPinsInForce /\ RevokedPinsStayOff
  BY DEF StoreInv, TornInv, AckedInv, RevokedInv, TornOnlyIfInterrupted,
         AckedPinsInForce, RevokedPinsStayOff, Unlocked, Idle

-----------------------------------------------------------------------------
(* The theorems. *)

\* StoreInv is an invariant of the store.
THEOREM StoreInvariance == Spec => []StoreInv
  BY InitStoreInv, NextStoreInv, PTL DEF Spec

\* The variables of the store keep their types.
THEOREM StoreTypeCorrect == Spec => []TypeOK
  BY StoreInvariance, StoreInvImplies, PTL

\* With no call in progress only the files whose latest write was cut short
\* are torn, however often the process dies and whichever write it dies in.
THEOREM StoreTornOnlyIfInterrupted == Spec => []TornOnlyIfInterrupted
  BY StoreInvariance, StoreInvImplies, PTL

\* No pin that Pin reported as made is lost, but by a start that could not read
\* or parse pins.json.
THEOREM StoreKeepsPins == Spec => []AckedPinsInForce
  BY StoreInvariance, StoreInvImplies, PTL

\* No unpin that Unpin reported as made is undone.
THEOREM StoreKeepsUnpins == Spec => []RevokedPinsStayOff
  BY StoreInvariance, StoreInvImplies, PTL

-----------------------------------------------------------------------------
(* Publishing. *)

Writes(f) == writing.op = "put" /\ writing.name = f

Safe(c) ==
    \/ disk[c] = "whole" \/ c \in interrupted \/ c \in deleted
    \/ Writes(c) /\ writing.stage = "fill"

SafeFiles == {c \in Content : Safe(c)}

\* The manifest is in the store, or is being put there.
Present(m) == disk[m] # "absent" \/ Writes(m)

\* The file that a request stores next.
Item(q) == IF AtManifest(q) THEN ManifestOf(q.blocks) ELSE q.blocks[q.next]

RequestType ==
    [pc : {"new", "store", "putting", "ok", "error", "lost"},
     data : Sources \cup {<< >>}, blocks : Seq(Blocks), next : Nat]

PublishTypes ==
    /\ adaptive \in BOOLEAN
    /\ request \in [Requests -> RequestType]
    /\ deleted \in SUBSET Blocks

\* What the record of a request says of the file and of its progress.
RequestInv ==
    \A r \in Requests :
        /\ request[r].next \in 1 .. Len(request[r].blocks) + 1
        /\ request[r].pc \in {"store", "putting", "ok"} =>
               /\ ManifestOf(request[r].blocks) \in Manifests
               /\ request[r].data \in Sources
               /\ \E size \in Int : size > 0 /\ request[r].blocks = Chunk(request[r].data, size)

\* Store.mu: a request that is inside Put is the one that writes.
LockInv ==
    /\ \A r \in Requests : request[r].pc = "putting" => Writes(Item(request[r]))
    /\ \A r, s \in Requests : request[r].pc = "putting" /\ request[s].pc = "putting" => r = s

StoredSoFar ==
    \A r \in Requests : request[r].pc \in {"store", "putting"} =>
        \A i \in 1 .. request[r].next - 1 : request[r].blocks[i] \in SafeFiles

ManifestsInv ==
    \A m \in Manifests : Present(m) =>
        m[2] \in Seq(Blocks) /\ \A i \in 1 .. Len(m[2]) : m[2][i] \in SafeFiles

AnnouncingInv ==
    /\ announcing \in [Requests -> Seq(SafeFiles)]
    /\ announced \subseteq SafeFiles

PublishInv ==
    /\ StoreInv /\ PublishTypes /\ RequestInv /\ LockInv
    /\ StoredSoFar /\ ManifestsInv /\ AnnouncingInv

-----------------------------------------------------------------------------
(* The larger and the smaller of two numbers. *)

\* Max({a, b}) and Min({a, b}) of FiniteSetsExt are what Go's comparisons pick.
LEMMA MaxOfTwo ==
    ASSUME NEW a \in Int, NEW b \in Int
    PROVE  Max({a, b}) = IF a >= b THEN a ELSE b
<1>1. \E x \in {a, b} : \A y \in {a, b} : x >= y
  OBVIOUS
<1> QED BY <1>1 DEF Max

LEMMA MinOfTwo ==
    ASSUME NEW a \in Int, NEW b \in Int
    PROVE  Min({a, b}) = IF a <= b THEN a ELSE b
<1>1. \E x \in {a, b} : \A y \in {a, b} : x <= y
  OBVIOUS
<1> QED BY <1>1 DEF Min

-----------------------------------------------------------------------------
(* The blocks of a file make up the file. *)

\* A set of numbers that is not empty has a least element: induction for sets.
LEMMA LeastNumber ==
    ASSUME NEW S \in SUBSET Nat, S # {}
    PROVE  \E n \in S : \A m \in S : n <= m
<1> DEFINE R == OpToRel(<, Nat)
<1>1. IsWellFoundedOn(R, Nat)
  BY NatLessThanWellFounded
<1>2. \A m, n \in Nat : <<m, n>> \in R <=> m < n
  BY DEF OpToRel
<1> HIDE DEF R
<1>3. PICK n \in S : \A m \in S : ~(<<m, n>> \in R)
  BY <1>1, WFMin
<1>4. \A m, k \in Nat : ~(m < k) => k <= m
  OBVIOUS
<1> QED BY <1>2, <1>3, <1>4

\* A prefix, and what follows it, are a longer prefix.
LEMMA PrefixExtends ==
    ASSUME NEW S, NEW s \in Seq(S), NEW m \in 0 .. Len(s), NEW n \in m .. Len(s)
    PROVE  SubSeq(s, 1, m) \o SubSeq(s, m + 1, n) = SubSeq(s, 1, n)
  OBVIOUS

\* NumChunks blocks are enough for all bytes, and one less is not.
LEMMA NumChunksFits ==
    ASSUME NEW len \in Nat, NEW size \in Int, size > 0
    PROVE  /\ NumChunks(len, size) \in Nat
           /\ len <= NumChunks(len, size) * size
           /\ \A i \in 1 .. NumChunks(len, size) : (i - 1) * size < len
<1> DEFINE n == NumChunks(len, size)
<1>1. size \in Nat \ {0} /\ len + size - 1 \in Nat
  OBVIOUS
<1>2. n \in Nat /\ n * size <= len + size - 1 /\ len + size - 1 < n * size + size
  BY <1>1 DEF NumChunks
<1> HIDE DEF n
<1>3. ASSUME NEW i \in 1 .. n PROVE (i - 1) * size < len
  <2>1. i - 1 \in Nat /\ n - 1 \in Nat /\ i - 1 <= n - 1
    BY <1>2
  <2>2. \A j, k \in Nat : j <= k => j * size <= k * size
    BY <1>1
  <2>3. (i - 1) * size <= (n - 1) * size
    BY <2>1, <2>2
  <2>4. (n - 1) * size = n * size - size /\ n * size \in Int
    BY <1>1, <1>2
  <2>5. (n - 1) * size < len
    BY <2>4, <1>1, <1>2
  <2>6. (i - 1) * size \in Int /\ (n - 1) * size \in Int
    BY <1>1, <1>2, <2>1
  <2> QED BY <2>3, <2>5, <2>6
<1>4. n * size \in Int
  BY <1>1, <1>2
<1>5. len <= n * size
  BY <1>1, <1>2, <1>4
<1> QED BY <1>2, <1>3, <1>5 DEF n

\* Chunk loses, repeats and reorders no byte.
LEMMA ChunksMakeUpFile ==
    ASSUME NEW B, NEW data \in Seq(B), NEW size \in Int, size > 0
    PROVE  FlattenSeq(Chunk(data, size)) = data
<1> DEFINE n == NumChunks(Len(data), size)
           c == Chunk(data, size)
           End(i) == Min({i * size, Len(data)})
           joined == [i \in 1 .. n |-> SubSeq(data, 1, End(i))]
           Joins(g) == g = [i \in 1 .. n |-> IF i = 1 THEN c[i] ELSE g[i - 1] \o c[i]]
<1>0. Len(data) \in Nat
  OBVIOUS
<1>1. /\ n \in Nat /\ Len(data) \in Nat /\ Len(data) <= n * size
      /\ \A i \in 1 .. n : (i - 1) * size < Len(data)
  BY <1>0, NumChunksFits, Zenon
<1> HIDE DEF n
<1>2. c = [i \in 1 .. n |-> SubSeq(data, (i - 1) * size + 1, End(i))]
  BY DEF Chunk, n
<1>3. \A i \in 1 .. n : i * size \in Nat /\ (i - 1) * size \in Nat /\ i * size = (i - 1) * size + size
  BY <1>1
<1>4. \A i \in 1 .. n : End(i) = IF i * size <= Len(data) THEN i * size ELSE Len(data)
  BY <1>1, <1>3, MinOfTwo
<1> HIDE DEF c, End
<1>5. \A i \in 1 .. n : (i - 1) * size \in 0 .. Len(data) /\ End(i) \in (i - 1) * size .. Len(data)
  BY <1>1, <1>3, <1>4
<1>6. Len(c) = n
  BY <1>1, <1>2
<1>7. CASE n = 0
  <2>1. Len(data) = 0
    BY <1>1, <1>7
  <2>2. data = << >> /\ c = << >>
    BY <2>1, <1>2, <1>7
  <2> QED BY <2>2, <1>6, <1>7 DEF FlattenSeq, c
<1>8. CASE n > 0
  <2>1. ASSUME NEW i \in 1 .. n
        PROVE  joined[i] = IF i = 1 THEN c[i] ELSE joined[i - 1] \o c[i]
    <3>1. CASE i = 1
      <4>1. (i - 1) * size + 1 = 1
        BY <3>1
      <4> QED BY <3>1, <4>1, <1>2
    <3>2. CASE i # 1
      <4>1. i - 1 \in 1 .. n
        BY <3>2, <1>1
      <4>2. (i - 1) * size < Len(data) /\ (i - 1) * size \in Nat
        BY <1>1, <1>3
      <4>3. End(i - 1) = (i - 1) * size
        BY <4>1, <4>2, <1>1, <1>4
      <4>4. joined[i - 1] = SubSeq(data, 1, (i - 1) * size)
        BY <4>1, <4>3
      <4>5. SubSeq(data, 1, (i - 1) * size) \o SubSeq(data, (i - 1) * size + 1, End(i))
              = SubSeq(data, 1, End(i))
        BY <1>5, PrefixExtends
      <4> QED BY <3>2, <4>4, <4>5, <1>2
    <3> QED BY <3>1, <3>2
  <2>2. Joins(joined)
    BY <2>1
  <2>3. ASSUME NEW g, Joins(g), NEW i \in 1 .. n
        PROVE  g[i] = joined[i]
    <3> DEFINE Bad == {k \in 1 .. n : g[k] # joined[k]}
    <3>1. CASE Bad = {}
      BY <3>1
    <3>2. CASE Bad # {}
      <4>0. Bad \in SUBSET Nat
        BY <1>1
      <4>1. PICK k \in Bad : \A m \in Bad : k <= m
        <5> HIDE DEF Bad
        <5> QED BY <3>2, <4>0, LeastNumber
      <4>2. k \in 1 .. n /\ g[k] # joined[k]
        OBVIOUS
      <4>3. k # 1
        BY <4>2, <2>1, <2>3
      <4>4. k - 1 \in 1 .. n /\ ~(k <= k - 1)
        BY <4>2, <4>3, <1>1
      <4>5. g[k - 1] = joined[k - 1]
        BY <4>1, <4>4
      <4> HIDE DEF joined
      <4>6. g[k] = g[k - 1] \o c[k] /\ joined[k] = joined[k - 1] \o c[k]
        BY <4>2, <4>3, <2>1, <2>3
      <4> QED BY <4>2, <4>5, <4>6
    <3> QED BY <3>1, <3>2
  <2> HIDE DEF joined
  <2> DEFINE flatten == CHOOSE g : Joins(g)
  <2>4. Joins(flatten)
    BY <2>2
  <2>5. FlattenSeq(c) = flatten[n]
    BY <1>6, <1>8 DEF FlattenSeq
  <2> HIDE DEF flatten
  <2>6. flatten[n] = joined[n]
    <3>1. n \in 1 .. n
      BY <1>1, <1>8
    <3> HIDE DEF Joins
    <3> QED BY <2>3, <2>4, <3>1, Zenon
  <2>7. joined[n] = data
    <3>1. End(n) = Len(data)
      BY <1>1, <1>3, <1>4, <1>8
    <3> QED BY <3>1, <1>1, <1>8 DEF joined
  <2> QED BY <2>5, <2>6, <2>7 DEF c
<1> QED BY <1>1, <1>7, <1>8

-----------------------------------------------------------------------------
(* The store as the publications see it. *)

\* What a step of the node does to the store.  f is the file whose write begins.
Begins(f) == Put(f) /\ UNCHANGED deleted

Goes ==
    \/ UNCHANGED <<vars, deleted>>
    \/ \E c \in CIDs : (Pin(c) \/ Unpin(c)) /\ UNCHANGED deleted
    \/ OpenTruncate /\ UNCHANGED deleted
    \/ WriteEnd /\ Stored(Target)
    \/ WriteFails /\ UNCHANGED deleted
    \/ \E c \in Blocks : Delete(c) /\ deleted' = deleted \cup {c}
    \/ Crash /\ UNCHANGED deleted
    \/ Restart /\ UNCHANGED deleted

\* Whatever the node does, a block that was stored once remains safe.
LEMMA SafeStays ==
    ASSUME StoreInv, Goes \/ \E f \in Content : Begins(f)
    PROVE  SafeFiles \subseteq SafeFiles'
<1> SUFFICES ASSUME NEW c \in Content, Safe(c) PROVE Safe(c)'
  BY DEF SafeFiles
<1>0. c \in Files /\ c # PinFile /\ disk \in [Files -> {"absent", "torn", "whole"}]
  BY FilesAssumption DEF Files, StoreInv, TypeOK
<1>1. CASE UNCHANGED <<vars, deleted>>
  BY <1>1 DEF Safe, Writes, vars, aux
<1>2. CASE \E f \in Content : Begins(f)
  BY <1>2 DEF Safe, Writes, Begins, Put, Unlocked, Idle, aux
<1>3. CASE \E d \in CIDs : (Pin(d) \/ Unpin(d)) /\ UNCHANGED deleted
  BY <1>3 DEF Safe, Writes, Pin, Unpin, Unlocked, Idle
<1>4. CASE OpenTruncate /\ UNCHANGED deleted
  <2>1. Target \in Files /\ (Target = PinFile <=> writing.op # "put") /\ writing # Idle
    BY <1>4, TargetIsFile DEF OpenTruncate, Idle
  <2>2. writing \in [op : {"put", "pin", "unpin"},
                     name : Content \cup CIDs, stage : {"open", "fill"}]
    BY <2>1 DEF StoreInv, TypeOK
  <2>3. writing' = [writing EXCEPT !.stage = "fill"]
    BY <1>4 DEF OpenTruncate
  <2>4. writing'.op = writing.op /\ writing'.name = writing.name /\ writing'.stage = "fill"
    BY <2>2, <2>3
  <2>5. CASE c = Target
    BY <2>1, <2>4, <2>5, <1>0 DEF Safe, Writes, Target
  <2>6. CASE c # Target
    <3>1. disk'[c] = disk[c]
      BY <1>4, <2>6, <1>0 DEF OpenTruncate
    <3>2. ~Writes(c)
      BY <2>6 DEF Writes, Target
    <3> QED BY <1>4, <3>1, <3>2 DEF Safe, OpenTruncate, aux
  <2> QED BY <2>5, <2>6
<1>5. CASE WriteEnd /\ Stored(Target)
  <2>1. CASE c = Target
    BY <1>5, <2>1, <1>0 DEF Safe, WriteEnd
  <2>2. CASE c # Target
    <3>1. disk'[c] = disk[c]
      BY <1>5, <2>2, <1>0 DEF WriteEnd
    <3>2. ~Writes(c)
      BY <2>2 DEF Writes, Target
    <3> QED BY <1>5, <2>2, <3>1, <3>2 DEF Safe, WriteEnd, Stored
  <2> QED BY <2>1, <2>2
<1>6. CASE WriteFails /\ UNCHANGED deleted
  BY <1>6 DEF Safe, Writes, WriteFails, Target
<1>7. CASE \E d \in Blocks : Delete(d) /\ deleted' = deleted \cup {d}
  <2>1. PICK d \in Blocks : Delete(d) /\ deleted' = deleted \cup {d}
    BY <1>7
  <2>2. c # d => disk'[c] = disk[c]
    BY <2>1, <1>0 DEF Delete
  <2> QED BY <2>1, <2>2 DEF Safe, Writes, Delete, Unlocked, Idle
<1>8. CASE Crash /\ UNCHANGED deleted
  BY <1>8 DEF Safe, Writes, Crash, Target
<1>9. CASE Restart /\ UNCHANGED deleted
  BY <1>9 DEF Safe, Writes, Restart
<1> QED BY <1>1, <1>2, <1>3, <1>4, <1>5, <1>6, <1>7, <1>8, <1>9 DEF Goes

\* Only a write that begins can bring a file into the store.
LEMMA NothingAppears ==
    ASSUME StoreInv, Goes, NEW m \in Content, Present(m)'
    PROVE  Present(m)
<1>0. m \in Files /\ m # PinFile /\ disk \in [Files -> {"absent", "torn", "whole"}]
  BY FilesAssumption DEF Files, StoreInv, TypeOK
<1>1. CASE UNCHANGED <<vars, deleted>>
  BY <1>1 DEF Present, Writes, vars, aux
<1>3. CASE \E d \in CIDs : (Pin(d) \/ Unpin(d)) /\ UNCHANGED deleted
  BY <1>3 DEF Present, Writes, Pin, Unpin
<1>4. CASE OpenTruncate /\ UNCHANGED deleted
  <2>1. Target = PinFile <=> writing.op # "put"
    BY TargetIsFile
  <2>2. writing # Idle
    BY <1>4 DEF OpenTruncate, Idle
  <2>3. writing \in [op : {"put", "pin", "unpin"},
                     name : Content \cup CIDs, stage : {"open", "fill"}]
    BY <2>2 DEF StoreInv, TypeOK
  <2>4. writing' = [writing EXCEPT !.stage = "fill"]
    BY <1>4 DEF OpenTruncate
  <2>5. writing'.op = writing.op /\ writing'.name = writing.name
    BY <2>3, <2>4
  <2>6. m # Target => disk'[m] = disk[m]
    BY <1>4, <1>0 DEF OpenTruncate
  <2> QED BY <2>1, <2>5, <2>6, <1>0 DEF Present, Writes, Target
<1>5. CASE WriteEnd /\ Stored(Target)
  <2>1. Target = PinFile <=> writing.op # "put"
    BY TargetIsFile
  <2>2. m # Target => disk'[m] = disk[m]
    BY <1>5, <1>0 DEF WriteEnd
  <2> QED BY <1>5, <2>1, <2>2, <1>0 DEF Present, Writes, Target, WriteEnd, Idle
<1>6. CASE WriteFails /\ UNCHANGED deleted
  BY <1>6 DEF Present, Writes, WriteFails, Idle
<1>7. CASE \E d \in Blocks : Delete(d) /\ deleted' = deleted \cup {d}
  BY <1>7, <1>0 DEF Present, Writes, Delete
<1>8. CASE Crash /\ UNCHANGED deleted
  BY <1>8 DEF Present, Writes, Crash, Idle
<1>9. CASE Restart /\ UNCHANGED deleted
  BY <1>9 DEF Present, Writes, Restart
<1> QED BY <1>1, <1>3, <1>4, <1>5, <1>6, <1>7, <1>8, <1>9 DEF Goes

\* Manifests stay readable, whatever happens to the store but a new write.
LEMMA ManifestsStay ==
    ASSUME StoreInv, ManifestsInv, Goes
    PROVE  ManifestsInv'
<1> SUFFICES ASSUME NEW m \in Manifests, Present(m)'
             PROVE  m[2] \in Seq(Blocks) /\ \A i \in 1 .. Len(m[2]) : m[2][i] \in SafeFiles'
  BY DEF ManifestsInv
<1>1. m \in Content
  BY DEF Content
<1>2. Present(m)
  BY <1>1, NothingAppears
<1>3. m[2] \in Seq(Blocks) /\ \A i \in 1 .. Len(m[2]) : m[2][i] \in SafeFiles
  BY <1>2 DEF ManifestsInv
<1> QED BY <1>3, SafeStays

-----------------------------------------------------------------------------
(* Every step preserves the invariant. *)

\* The node starts with an empty store and no request.
LEMMA InitPublishInv ==
    ASSUME PublishInit
    PROVE  PublishInv
<1>1. StoreInv
  BY InitStoreInv DEF PublishInit
<1>2. << >> \in Seq(Blocks) /\ << >> \in Seq(SafeFiles) /\ Len(<< >>) = 0
  OBVIOUS
<1>3. NewRequest \in RequestType
  BY <1>2 DEF NewRequest, RequestType
<1>4. PublishTypes
  BY <1>2, <1>3 DEF PublishInit, PublishTypes
<1>5. \A r \in Requests : request[r].pc = "new" /\ request[r].next = 1 /\ request[r].blocks = << >>
  BY DEF PublishInit, NewRequest
<1>6. RequestInv /\ LockInv /\ StoredSoFar
  BY <1>2, <1>5 DEF RequestInv, LockInv, StoredSoFar
<1>7. \A m \in Manifests : ~Present(m)
  BY DEF PublishInit, Init, Present, Writes, Idle, Files, Content
<1>8. ManifestsInv
  BY <1>7 DEF ManifestsInv
<1>9. AnnouncingInv
  BY <1>2 DEF PublishInit, AnnouncingInv
<1> QED BY <1>1, <1>4, <1>6, <1>8, <1>9 DEF PublishInv

\* The file of the next write of a request is a file of the store.
LEMMA ItemIsFile ==
    ASSUME PublishInv, NEW r \in Requests, request[r].pc \in {"store", "putting"}
    PROVE  /\ Item(request[r]) \in Content
           /\ AtManifest(request[r]) => Item(request[r]) = ManifestOf(request[r].blocks)
           /\ ~AtManifest(request[r]) => Item(request[r]) \in Blocks
<1>1. /\ request[r].blocks \in Seq(Blocks) /\ request[r].next \in Nat
      /\ request[r].next \in 1 .. Len(request[r].blocks) + 1
      /\ ManifestOf(request[r].blocks) \in Manifests
  BY DEF PublishInv, PublishTypes, RequestType, RequestInv
<1>2. CASE AtManifest(request[r])
  BY <1>1, <1>2 DEF Item, Content
<1>3. CASE ~AtManifest(request[r])
  <2>1. request[r].next \in 1 .. Len(request[r].blocks)
    BY <1>1, <1>3 DEF AtManifest
  <2>2. request[r].blocks[request[r].next] \in Blocks
    BY <1>1, <2>1
  <2> QED BY <2>2, <1>3 DEF Item, Content
<1> QED BY <1>2, <1>3

\* AdaptiveChunkSize answers a number.
LEMMA ChunkSizeType ==
    ASSUME PublishTypes, NEW data \in Sources, NEW rtts
    PROVE  ChunkSize(data, rtts) \in Int
<1> DEFINE lo == IF MinChunkSize <= 0 THEN 64 * 1024 ELSE MinChunkSize
           hi == IF MaxChunkSize <= 0 THEN 1024 * 1024 ELSE MaxChunkSize
           targetChunks == IF BestRTT(rtts) > 50 THEN 4 ELSE IF BestRTT(rtts) < 5 THEN 16 ELSE 8
           share == Max({Len(data) \div targetChunks, lo})
<1>1. Len(data) \in Nat /\ lo \in Int /\ hi \in Int /\ targetChunks \in {4, 8, 16}
  BY ConfigAssumption
<1> HIDE DEF lo, hi, targetChunks
<1>2. Len(data) \div targetChunks \in Int
  BY <1>1
<1>3. share \in Int
  BY <1>1, <1>2, MaxOfTwo
<1> HIDE DEF share
<1>4. Min({share, hi}) \in Int
  BY <1>1, <1>3, MinOfTwo
<1>5. AdaptiveChunkSize(Len(data), BestRTT(rtts), MinChunkSize, MaxChunkSize) =
          IF Len(data) <= lo THEN Len(data) ELSE Min({share, hi})
  BY DEF AdaptiveChunkSize, lo, hi, targetChunks, share
<1>6. FixedChunkSize \in Int
  BY ConfigAssumption DEF FixedChunkSize
<1> QED BY <1>1, <1>4, <1>5, <1>6 DEF ChunkSize

\* A request is received and its file is cut: nothing is stored yet.
LEMMA ReceivePublishInv ==
    ASSUME PublishInv, NEW r \in Requests, NEW data \in Sources, NEW rtts \in RTTLists,
           Receive(r, data, rtts)
    PROVE  PublishInv'
<1> DEFINE size == ChunkSize(data, rtts)
           q == request'[r]
<1>1. StoreInv' /\ ManifestsInv' /\ AnnouncingInv'
  <2>1. UNCHANGED <<vars, announcing, announced, deleted>>
    BY DEF Receive
  <2>2. StoreInv'
    BY <2>1, NextStoreInv DEF PublishInv
  <2>3. SafeFiles' = SafeFiles
    BY <2>1 DEF SafeFiles, Safe, Writes, vars, aux
  <2>4. \A m \in Manifests : Present(m)' <=> Present(m)
    BY <2>1 DEF Present, Writes, vars
  <2> QED BY <2>1, <2>2, <2>3, <2>4 DEF PublishInv, ManifestsInv, AnnouncingInv
<1>2. request' = [request EXCEPT ![r] =
          IF size <= 0 THEN [NewRequest EXCEPT !.pc = "error"]
          ELSE [pc |-> "store", data |-> data, next |-> 1, blocks |-> Chunk(data, size)]]
  BY DEF Receive
<1>3. size \in Int
  BY ChunkSizeType DEF PublishInv
<1>4. size \in {AdaptiveChunkSize(Len(data), BestRTT(rtts), MinChunkSize, MaxChunkSize),
                FixedChunkSize}
  BY DEF ChunkSize
<1> HIDE DEF size
<1>5. size > 0 => /\ Chunk(data, size) \in Seq(Blocks)
                  /\ ManifestOf(Chunk(data, size)) \in Manifests
  BY <1>4, ChunksAssumption
<1>6. request \in [Requests -> RequestType]
  BY DEF PublishInv, PublishTypes
<1>7. /\ q \in RequestType /\ q.next = 1
      /\ q.pc = "error" \/ /\ q.pc = "store" /\ q.data = data /\ size > 0
                           /\ q.blocks = Chunk(data, size)
                           /\ ManifestOf(q.blocks) \in Manifests
  <2>1. CASE size <= 0
    <3>1. q = [pc |-> "error", data |-> << >>, blocks |-> << >>, next |-> 1]
      BY <2>1, <1>2, <1>6 DEF NewRequest
    <3> QED BY <3>1 DEF RequestType
  <2>2. CASE size > 0
    <3>1. q = [pc |-> "store", data |-> data, next |-> 1, blocks |-> Chunk(data, size)]
      BY <2>2, <1>2, <1>3, <1>6
    <3> QED BY <2>2, <3>1, <1>5 DEF RequestType
  <2> QED BY <2>1, <2>2, <1>3
<1>8. \A s \in Requests \ {r} : request'[s] = request[s]
  BY <1>2, <1>6
<1>9. request' \in [Requests -> RequestType]
  BY <1>2, <1>6, <1>7, <1>8
<1> HIDE DEF q
<1>10. PublishTypes'
  BY <1>9 DEF PublishInv, PublishTypes, Receive
<1>11. RequestInv'
  <2>1. q.next \in 1 .. Len(q.blocks) + 1
    BY <1>7 DEF RequestType
  <2> QED BY <2>1, <1>3, <1>7, <1>8 DEF q, PublishInv, RequestInv
<1>12. LockInv'
  BY <1>7, <1>8 DEF q, PublishInv, LockInv, Item, Writes, AtManifest, Receive, vars
<1>13. StoredSoFar'
  <2>1. SafeFiles' = SafeFiles
    BY DEF SafeFiles, Safe, Writes, vars, aux, Receive
  <2>2. 1 .. q.next - 1 = {}
    BY <1>7
  <2> QED BY <2>1, <2>2, <1>8 DEF q, PublishInv, StoredSoFar
<1> QED BY <1>1, <1>10, <1>11, <1>12, <1>13 DEF PublishInv

\* While nobody holds Store.mu no request is inside Put.
LEMMA NobodyPuts ==
    ASSUME PublishInv, writing = Idle, NEW r \in Requests
    PROVE  request[r].pc # "putting"
  BY DEF PublishInv, LockInv, Writes, Idle

\* The next write of a request begins.  The manifest comes when all blocks are safe.
LEMMA StoreNextPublishInv ==
    ASSUME PublishInv, NEW r \in Requests, StoreNext(r)
    PROVE  PublishInv'
<1> DEFINE f == Item(request[r])
<1>1. /\ Begins(f) /\ request[r].pc = "store"
      /\ request' = [request EXCEPT ![r].pc = "putting"]
      /\ UNCHANGED <<adaptive, announcing, announced, deleted>>
  BY DEF StoreNext, Begins, Item
<1>2. /\ f \in Content
      /\ AtManifest(request[r]) => f = ManifestOf(request[r].blocks)
      /\ ~AtManifest(request[r]) => f \in Blocks
  BY <1>1, ItemIsFile
<1> HIDE DEF f
<1>3. StoreInv'
  BY <1>1, <1>2, PutStoreInv DEF Begins, PublishInv
<1>4. SafeFiles \subseteq SafeFiles'
  BY <1>1, <1>2, SafeStays DEF PublishInv
<1>5. request \in [Requests -> RequestType]
  BY DEF PublishInv, PublishTypes
<1>6. /\ \A s \in Requests \ {r} : request'[s] = request[s]
      /\ request'[r] = [request[r] EXCEPT !.pc = "putting"]
      /\ request' \in [Requests -> RequestType]
  BY <1>1, <1>5 DEF RequestType
<1>7. /\ request'[r].pc = "putting" /\ request'[r].next = request[r].next
      /\ request'[r].blocks = request[r].blocks /\ request'[r].data = request[r].data
  BY <1>5, <1>6 DEF RequestType
<1>8. PublishTypes'
  BY <1>1, <1>6 DEF PublishInv, PublishTypes
<1>9. RequestInv'
  BY <1>1, <1>6, <1>7 DEF PublishInv, RequestInv
<1>10. LockInv'
  <2>1. \A s \in Requests : request[s].pc # "putting"
    BY <1>1, NobodyPuts DEF Begins, Put, Unlocked
  <2>2. Item(request[r])' = f
    BY <1>7 DEF Item, AtManifest, f
  <2>3. Writes(Item(request[r]))'
    BY <1>1, <2>2 DEF Begins, Put, Writes
  <2> QED BY <2>1, <2>3, <1>6 DEF LockInv
<1>11. StoredSoFar'
  BY <1>1, <1>4, <1>6, <1>7 DEF PublishInv, StoredSoFar
<1>12. ManifestsInv'
  <2> SUFFICES ASSUME NEW m \in Manifests, Present(m)'
               PROVE  m[2] \in Seq(Blocks) /\ \A i \in 1 .. Len(m[2]) : m[2][i] \in SafeFiles'
    BY DEF ManifestsInv
  <2>1. CASE m = f
    <3>1. m = ManifestOf(request[r].blocks) /\ AtManifest(request[r])
      BY <1>2, <2>1, FilesAssumption
    <3>2. m[2] = request[r].blocks
      BY <3>1 DEF ManifestOf
    <3>3. /\ request[r].blocks \in Seq(Blocks) /\ request[r].next \in Nat
          /\ request[r].next > Len(request[r].blocks)
      BY <1>5, <3>1 DEF RequestType, AtManifest
    <3>4. \A i \in 1 .. Len(request[r].blocks) : request[r].blocks[i] \in SafeFiles
      BY <1>1, <3>3 DEF PublishInv, StoredSoFar
    <3> QED BY <3>2, <3>3, <3>4, <1>4
  <2>2. CASE m # f
    <3>1. Present(m)
      BY <1>1, <2>2 DEF Begins, Put, Present, Writes
    <3> QED BY <3>1, <1>4 DEF PublishInv, ManifestsInv
  <2> QED BY <2>1, <2>2
<1>13. AnnouncingInv'
  <2>1. Seq(SafeFiles) \subseteq Seq(SafeFiles')
    BY <1>4
  <2> QED BY <1>1, <1>4, <2>1 DEF PublishInv, AnnouncingInv
<1> QED BY <1>3, <1>8, <1>9, <1>10, <1>11, <1>12, <1>13 DEF PublishInv

\* Put returns nil: the block is safe, or the manifest, and the request goes on.
LEMMA PutReturnsPublishInv ==
    ASSUME PublishInv, NEW r \in Requests, PutReturns(r)
    PROVE  PublishInv'
<1> DEFINE q == request[r]
           f == Item(q)
<1>1. /\ q.pc = "putting" /\ WriteEnd /\ Stored(Target)
      /\ UNCHANGED <<adaptive, announced>>
      /\ AtManifest(q) =>
             /\ request' = [request EXCEPT ![r].pc = "ok"]
             /\ announcing' = [announcing EXCEPT ![r] = <<ManifestOf(q.blocks)>> \o q.blocks]
      /\ ~AtManifest(q) =>
             /\ request' = [request EXCEPT ![r].pc = "store", ![r].next = q.next + 1]
             /\ UNCHANGED announcing
  BY DEF PutReturns
<1>2. /\ f \in Content
      /\ AtManifest(q) => f = ManifestOf(q.blocks)
      /\ ~AtManifest(q) => f \in Blocks
  BY <1>1, ItemIsFile
<1>3. Target = f /\ StoreInv /\ Goes /\ writing.op = "put"
  BY <1>1 DEF PublishInv, LockInv, Writes, Target, Goes
<1>4. f \in SafeFiles'
  <2>1. f \in Files /\ disk \in [Files -> {"absent", "torn", "whole"}]
    BY <1>2, <1>3 DEF Files, StoreInv, TypeOK
  <2>2. disk'[f] = "whole"
    BY <2>1, <1>1, <1>3 DEF WriteEnd
  <2>3. ASSUME NEW c \in Content, disk'[c] = "whole" PROVE c \in SafeFiles'
    BY <2>3 DEF SafeFiles, Safe
  <2> HIDE DEF f
  <2> QED BY <2>2, <2>3, <1>2
<1>5. q \in RequestType /\ request \in [Requests -> RequestType]
  BY DEF PublishInv, PublishTypes
<1>5a. /\ q.next \in 1 .. Len(q.blocks) + 1 /\ q.blocks \in Seq(Blocks)
       /\ \A i \in 1 .. q.next - 1 : q.blocks[i] \in SafeFiles
       /\ ~AtManifest(q) => f = q.blocks[q.next] /\ q.next <= Len(q.blocks)
       /\ AtManifest(q) => q.next = Len(q.blocks) + 1
  BY <1>1, <1>5 DEF PublishInv, RequestInv, StoredSoFar, RequestType, Item, AtManifest
<1> HIDE DEF f
<1>6. StoreInv'
  BY <1>1, <1>3, WriteEndStoreInv
<1>7. SafeFiles \subseteq SafeFiles' /\ ManifestsInv'
  BY <1>3, SafeStays, ManifestsStay DEF PublishInv
<1>8. Seq(SafeFiles) \subseteq Seq(SafeFiles')
  BY <1>7
<1>9. deleted' \in SUBSET Blocks
  BY <1>1 DEF Stored, PublishInv, PublishTypes
<1>10. \A s \in Requests \ {r} : request'[s] = request[s] /\ request[s].pc # "putting"
  <2>1. \A s \in Requests \ {r} : request[s].pc # "putting"
    BY <1>1 DEF PublishInv, LockInv
  <2> QED BY <2>1, <1>1, <1>5
<1>11. /\ request' \in [Requests -> RequestType]
       /\ request'[r].blocks = q.blocks /\ request'[r].data = q.data
       /\ AtManifest(q) => request'[r].pc = "ok" /\ request'[r].next = q.next
       /\ ~AtManifest(q) => request'[r].pc = "store" /\ request'[r].next = q.next + 1
  <2>1. CASE AtManifest(q)
    BY <2>1, <1>1, <1>5 DEF RequestType
  <2>2. CASE ~AtManifest(q)
    <3>1. q.next + 1 \in Nat
      BY <1>5 DEF RequestType
    <3>2. request' = [request EXCEPT ![r] = [q EXCEPT !.pc = "store", !.next = q.next + 1]]
      BY <2>2, <1>1, <1>5 DEF RequestType
    <3>3. [q EXCEPT !.pc = "store", !.next = q.next + 1] \in RequestType
      BY <3>1, <1>5 DEF RequestType
    <3> QED BY <2>2, <3>2, <3>3, <1>5 DEF RequestType
  <2> QED BY <2>1, <2>2
<1>12. PublishTypes'
  BY <1>1, <1>9, <1>11 DEF PublishInv, PublishTypes
<1>13. RequestInv'
  <2>1. request'[r].next \in 1 .. Len(request'[r].blocks) + 1
    BY <1>5a, <1>11
  <2> QED BY <2>1, <1>1, <1>10, <1>11 DEF PublishInv, RequestInv
<1>14. LockInv'
  BY <1>10, <1>11 DEF LockInv
<1>15. StoredSoFar'
  <2>1. ASSUME ~AtManifest(q), NEW i \in 1 .. q.next PROVE q.blocks[i] \in SafeFiles'
    <3>1. i \in 1 .. q.next - 1 \/ i = q.next
      BY <1>5a
    <3> QED BY <2>1, <3>1, <1>4, <1>5a, <1>7
  <2>3. ASSUME NEW s \in Requests, request'[s].pc \in {"store", "putting"},
               NEW i \in 1 .. request'[s].next - 1
        PROVE  request'[s].blocks[i] \in SafeFiles'
    <3>1. CASE s = r
      <4>1. ~AtManifest(q)
        BY <2>3, <3>1, <1>11
      <4>2. request'[s].next = q.next + 1 /\ request'[s].blocks = q.blocks
        BY <3>1, <4>1, <1>11
      <4>3. i \in 1 .. q.next
        BY <4>2, <1>5a
      <4> QED BY <2>1, <4>1, <4>2, <4>3
    <3>2. CASE s # r
      BY <2>3, <3>2, <1>7, <1>10 DEF PublishInv, StoredSoFar
    <3> QED BY <3>1, <3>2
  <2> QED BY <2>3 DEF StoredSoFar
<1>16. AnnouncingInv'
  <2>1. CASE AtManifest(q)
    <3>1. ASSUME NEW i \in 1 .. Len(q.blocks) PROVE q.blocks[i] \in SafeFiles'
      BY <2>1, <1>5a, <1>7
    <3>2. q.blocks \in Seq(SafeFiles')
      BY <3>1, <1>5a
    <3>3. <<ManifestOf(q.blocks)>> \in Seq(SafeFiles')
      BY <2>1, <1>2, <1>4
    <3>4. <<ManifestOf(q.blocks)>> \o q.blocks \in Seq(SafeFiles')
      BY <3>2, <3>3
    <3> QED BY <2>1, <3>4, <1>1, <1>7, <1>8 DEF PublishInv, AnnouncingInv
  <2>2. CASE ~AtManifest(q)
    BY <2>2, <1>1, <1>7, <1>8 DEF PublishInv, AnnouncingInv
  <2> QED BY <2>1, <2>2
<1> QED BY <1>6, <1>7, <1>12, <1>13, <1>14, <1>15, <1>16 DEF PublishInv

\* Put fails: the request is answered with the error.
LEMMA PutErrorsPublishInv ==
    ASSUME PublishInv, NEW r \in Requests, PutErrors(r)
    PROVE  PublishInv'
<1>1. /\ request[r].pc = "putting" /\ WriteFails
      /\ request' = [request EXCEPT ![r].pc = "error"]
      /\ UNCHANGED <<adaptive, announcing, announced, deleted>>
  BY DEF PutErrors
<1>2. StoreInv' /\ SafeFiles \subseteq SafeFiles' /\ ManifestsInv'
  BY <1>1, WriteFailsStoreInv, SafeStays, ManifestsStay DEF PublishInv, Goes
<1>3. Seq(SafeFiles) \subseteq Seq(SafeFiles')
  BY <1>2
<1>4. request \in [Requests -> RequestType]
  BY DEF PublishInv, PublishTypes
<1>5. /\ \A s \in Requests \ {r} : request'[s] = request[s] /\ request[s].pc # "putting"
      /\ request'[r].pc = "error" /\ request'[r].next = request[r].next
      /\ request'[r].blocks = request[r].blocks
      /\ request' \in [Requests -> RequestType]
  <2>1. \A s \in Requests \ {r} : request[s].pc # "putting"
    BY <1>1 DEF PublishInv, LockInv
  <2> QED BY <2>1, <1>1, <1>4 DEF RequestType
<1>6. PublishTypes' /\ AnnouncingInv'
  BY <1>1, <1>2, <1>3, <1>5 DEF PublishInv, PublishTypes, AnnouncingInv
<1>7. RequestInv' /\ LockInv'
  BY <1>5 DEF PublishInv, RequestInv, LockInv
<1>8. StoredSoFar'
  BY <1>2, <1>5 DEF PublishInv, StoredSoFar
<1> QED BY <1>2, <1>6, <1>7, <1>8 DEF PublishInv

\* ProvideBlocks tells the DHT of the next CID, or skips it.
LEMMA AnnouncePublishInv ==
    ASSUME PublishInv, NEW r \in Requests, Announce(r)
    PROVE  PublishInv'
<1>1. UNCHANGED <<vars, adaptive, request, deleted>>
  BY DEF Announce
<1>2. StoreInv'
  BY <1>1, NextStoreInv DEF PublishInv
<1>3. SafeFiles' = SafeFiles /\ ManifestsInv'
  <2>1. SafeFiles' = SafeFiles
    BY <1>1 DEF SafeFiles, Safe, Writes, vars, aux
  <2>2. ManifestsInv'
    BY <1>1, ManifestsStay DEF Goes, PublishInv
  <2> QED BY <2>1, <2>2
<1>4. PublishTypes' /\ RequestInv' /\ StoredSoFar'
  BY <1>1, <1>3 DEF PublishInv, PublishTypes, RequestInv, StoredSoFar
<1>5. LockInv'
  BY <1>1 DEF PublishInv, LockInv, Writes, Item, AtManifest, vars
<1>6. announcing[r] \in Seq(SafeFiles) /\ announcing[r] # << >>
  BY DEF PublishInv, AnnouncingInv, Announce
<1>7. Head(announcing[r]) \in SafeFiles /\ Tail(announcing[r]) \in Seq(SafeFiles)
  BY <1>6
<1>8. AnnouncingInv'
  BY <1>3, <1>7 DEF PublishInv, AnnouncingInv, Announce
<1> QED BY <1>2, <1>3, <1>4, <1>5, <1>8 DEF PublishInv

\* A step of the store in which no request takes part.
LEMMA OthersPublishInv ==
    ASSUME PublishInv, StoreInv', Goes, UNCHANGED <<adaptive, request, announcing, announced>>,
           deleted' \in SUBSET Blocks,
           \A r \in Requests : request[r].pc = "putting" =>
               writing'.op = writing.op /\ writing'.name = writing.name
    PROVE  PublishInv'
<1>1. SafeFiles \subseteq SafeFiles' /\ ManifestsInv'
  BY SafeStays, ManifestsStay DEF PublishInv
<1>2. Seq(SafeFiles) \subseteq Seq(SafeFiles')
  BY <1>1
<1>3. PublishTypes' /\ RequestInv'
  BY DEF PublishInv, PublishTypes, RequestInv
<1>4. StoredSoFar' /\ AnnouncingInv'
  BY <1>1, <1>2 DEF PublishInv, StoredSoFar, AnnouncingInv
<1>5. LockInv'
  BY DEF PublishInv, LockInv, Writes, Item, AtManifest
<1> QED BY <1>1, <1>3, <1>4, <1>5 DEF PublishInv

\* The first step of any write, and every step of a write by somebody else.
LEMMA OtherWritePublishInv ==
    ASSUME PublishInv, OtherWrite
    PROVE  PublishInv'
<1>1. Goes /\ UNCHANGED <<adaptive, request, announcing, announced>>
  BY DEF OtherWrite, Goes
<1>2. StoreInv'
  BY OpenTruncateStoreInv, WriteEndStoreInv, WriteFailsStoreInv DEF OtherWrite, PublishInv
<1>3. deleted' \in SUBSET Blocks
  BY DEF OtherWrite, Stored, PublishInv, PublishTypes
<1>4. ASSUME NEW r \in Requests, request[r].pc = "putting"
      PROVE  writing'.op = writing.op /\ writing'.name = writing.name
  <2>1. OpenTruncate
    BY <1>4 DEF OtherWrite, Putting
  <2>2. writing # Idle
    BY <2>1 DEF OpenTruncate, Idle
  <2>3. writing \in [op : {"put", "pin", "unpin"},
                     name : Content \cup CIDs, stage : {"open", "fill"}]
    BY <2>2 DEF PublishInv, StoreInv, TypeOK
  <2>4. writing' = [writing EXCEPT !.stage = "fill"]
    BY <2>1 DEF OpenTruncate
  <2> QED BY <2>3, <2>4
<1> QED BY <1>1, <1>2, <1>3, <1>4, OthersPublishInv

\* handlePin takes Store.mu, so no request is inside Put.
LEMMA HandlePinPublishInv ==
    ASSUME PublishInv, NEW c \in CIDs, HandlePin(c)
    PROVE  PublishInv'
<1>1. (Pin(c) \/ Unpin(c)) /\ UNCHANGED <<adaptive, request, announcing, announced, deleted>>
  BY DEF HandlePin, publishVars
<1>2. StoreInv' /\ Goes
  BY <1>1, PinStoreInv, UnpinStoreInv DEF PublishInv, Goes
<1>3. \A r \in Requests : request[r].pc # "putting"
  BY <1>1, NobodyPuts DEF Pin, Unpin, Unlocked
<1>4. deleted' \in SUBSET Blocks
  BY <1>1 DEF PublishInv, PublishTypes
<1> QED BY <1>1, <1>2, <1>3, <1>4, OthersPublishInv

\* A block is deleted, which excuses it from then on.
LEMMA DeleteBlockPublishInv ==
    ASSUME PublishInv, NEW c \in Blocks, DeleteBlock(c)
    PROVE  PublishInv'
<1>1. /\ Delete(c) /\ deleted' = deleted \cup {c}
      /\ UNCHANGED <<adaptive, request, announcing, announced>>
  BY DEF DeleteBlock
<1>2. StoreInv' /\ Goes
  BY <1>1, DeleteStoreInv DEF PublishInv, Goes
<1>3. \A r \in Requests : request[r].pc # "putting"
  BY <1>1, NobodyPuts DEF Delete, Unlocked
<1>4. deleted' \in SUBSET Blocks
  BY <1>1 DEF PublishInv, PublishTypes
<1> QED BY <1>1, <1>2, <1>3, <1>4, OthersPublishInv

\* NewStore, after a crash.
LEMMA ProcessRestartsPublishInv ==
    ASSUME PublishInv, ProcessRestarts
    PROVE  PublishInv'
<1>1. Restart /\ UNCHANGED <<adaptive, request, announcing, announced, deleted>>
  BY DEF ProcessRestarts, publishVars
<1>2. StoreInv' /\ Goes
  BY <1>1, RestartStoreInv DEF PublishInv, Goes
<1>3. deleted' \in SUBSET Blocks /\ writing' = writing
  BY <1>1 DEF PublishInv, PublishTypes, Restart
<1> QED BY <1>1, <1>2, <1>3, OthersPublishInv

\* A peer's block or a fragment begins to be stored; it is no manifest.
LEMMA OtherPutPublishInv ==
    ASSUME PublishInv, OtherPut
    PROVE  PublishInv'
<1>1. PICK f \in Blocks \cup Fragments : Put(f)
  BY DEF OtherPut
<1>2. UNCHANGED <<adaptive, request, announcing, announced, deleted>>
  BY DEF OtherPut, publishVars
<1>3. f \in Content /\ f \notin Manifests
  BY FilesAssumption DEF Content
<1>4. StoreInv' /\ SafeFiles \subseteq SafeFiles'
  BY <1>1, <1>2, <1>3, PutStoreInv, SafeStays DEF PublishInv, Begins
<1>5. Seq(SafeFiles) \subseteq Seq(SafeFiles')
  BY <1>4
<1>6. PublishTypes' /\ RequestInv' /\ StoredSoFar' /\ AnnouncingInv'
  BY <1>2, <1>4, <1>5 DEF PublishInv, PublishTypes, RequestInv, StoredSoFar, AnnouncingInv
<1>7. \A r \in Requests : request[r].pc # "putting"
  BY <1>1, NobodyPuts DEF Put, Unlocked
<1>8. LockInv'
  BY <1>2, <1>7 DEF LockInv
<1>9. \A m \in Manifests : Present(m)' => Present(m)
  BY <1>1, <1>3 DEF Present, Writes, Put
<1>10. ManifestsInv'
  BY <1>4, <1>9 DEF PublishInv, ManifestsInv
<1> QED BY <1>4, <1>6, <1>8, <1>10 DEF PublishInv

\* The process dies, and with it every request and every announcement.
LEMMA ProcessDiesPublishInv ==
    ASSUME PublishInv, ProcessDies
    PROVE  PublishInv'
<1>1. /\ Crash /\ UNCHANGED <<adaptive, announced, deleted>>
      /\ announcing' = [r \in Requests |-> << >>]
  BY DEF ProcessDies
<1>2. StoreInv' /\ SafeFiles \subseteq SafeFiles' /\ ManifestsInv'
  BY <1>1, CrashStoreInv, SafeStays, ManifestsStay DEF PublishInv, Goes
<1>3. request \in [Requests -> RequestType]
  BY DEF PublishInv, PublishTypes
<1>4. ASSUME NEW r \in Requests
      PROVE  /\ request'[r] \in RequestType /\ request'[r].pc \notin {"store", "putting"}
             /\ request'[r].blocks = request[r].blocks /\ request'[r].data = request[r].data
             /\ request'[r].next = request[r].next
             /\ request'[r].pc = "ok" => request[r].pc = "ok"
  <2>1. CASE request[r].pc \in {"store", "putting"}
    <3>1. request'[r] = [request[r] EXCEPT !.pc = "lost"]
      BY <2>1 DEF ProcessDies
    <3> QED BY <3>1, <1>3 DEF RequestType
  <2>2. CASE request[r].pc \notin {"store", "putting"}
    <3>1. request'[r] = request[r]
      BY <2>2 DEF ProcessDies
    <3> QED BY <2>2, <3>1, <1>3
  <2> QED BY <2>1, <2>2
<1>5. request' \in [Requests -> RequestType]
  <2>1. request' = [r \in Requests |-> request'[r]]
    BY DEF ProcessDies
  <2> QED BY <2>1, <1>4
<1>6. PublishTypes'
  BY <1>1, <1>5 DEF PublishInv, PublishTypes
<1>7. RequestInv' /\ LockInv' /\ StoredSoFar'
  BY <1>4 DEF PublishInv, RequestInv, LockInv, StoredSoFar
<1>8. AnnouncingInv'
  <2>1. << >> \in Seq(SafeFiles')
    OBVIOUS
  <2> QED BY <2>1, <1>1, <1>2 DEF PublishInv, AnnouncingInv
<1> QED BY <1>2, <1>6, <1>7, <1>8 DEF PublishInv

\* Any step of the node.
LEMMA NextPublishInv ==
    ASSUME PublishInv, [PublishNext]_allVars
    PROVE  PublishInv'
<1>1. CASE UNCHANGED allVars
  <2>1. UNCHANGED <<vars, adaptive, request, announcing, announced, deleted>>
    BY <1>1 DEF allVars, publishVars
  <2>2. StoreInv' /\ Goes /\ deleted' \in SUBSET Blocks /\ writing' = writing
    BY <2>1, NextStoreInv DEF PublishInv, PublishTypes, Goes, vars
  <2> QED BY <2>1, <2>2, OthersPublishInv
<1>2. CASE PublishNext
  BY <1>2, ReceivePublishInv, StoreNextPublishInv, PutReturnsPublishInv, PutErrorsPublishInv,
     AnnouncePublishInv, DeleteBlockPublishInv, HandlePinPublishInv, OtherWritePublishInv,
     OtherPutPublishInv, ProcessDiesPublishInv, ProcessRestartsPublishInv
  DEF PublishNext
<1> QED BY <1>1, <1>2

-----------------------------------------------------------------------------
(* The node uses the store as the store allows. *)

\* Every step of the node is a step of the store or leaves it alone.
LEMMA PublishStepsStore ==
    ASSUME PublishInv, [PublishNext]_allVars
    PROVE  [Next]_vars
<1>1. CASE UNCHANGED allVars
  BY <1>1 DEF allVars
<1>2. ASSUME NEW r \in Requests, StoreNext(r) PROVE Next
  <2>1. Put(Item(request[r])) /\ request[r].pc = "store"
    BY <1>2 DEF StoreNext, Item
  <2>2. Item(request[r]) \in Content
    BY <2>1, ItemIsFile
  <2> QED BY <2>1, <2>2 DEF Next
<1>3. ASSUME NEW r \in Requests,
             (\E data \in Sources, rtts \in RTTLists : Receive(r, data, rtts)) \/ Announce(r)
      PROVE  UNCHANGED vars
  BY <1>3 DEF Receive, Announce
<1>4. ASSUME NEW r \in Requests, PutReturns(r) \/ PutErrors(r) PROVE Next
  BY <1>4 DEF PutReturns, PutErrors, Next
<1>5. ASSUME \/ \E c \in Blocks : DeleteBlock(c)
             \/ \E c \in CIDs : HandlePin(c)
             \/ OtherWrite \/ OtherPut \/ ProcessDies \/ ProcessRestarts
      PROVE  Next
  BY <1>5 DEF DeleteBlock, HandlePin, OtherWrite, OtherPut, ProcessDies, ProcessRestarts,
              Next, Content
<1>6. CASE PublishNext
  BY <1>2, <1>3, <1>4, <1>5, <1>6 DEF PublishNext
<1> QED BY <1>1, <1>6

\* PublishInv is an invariant of the node.
THEOREM PublishInvariance == PublishSpec => []PublishInv
  BY InitPublishInv, NextPublishInv, PTL DEF PublishSpec

\* The node that publishes implements the specification of its store: requests,
\* pins, pushes and the benchmark's deletions call it as Store.mu requires, and
\* with files that it knows.
THEOREM PublishImplementsStore == PublishSpec => Spec
<1>1. PublishInit => Init
  BY DEF PublishInit
<1> QED BY <1>1, PublishStepsStore, PublishInvariance, PTL DEF PublishSpec, Spec

\* What the DHT was told can be served, whatever fails: AnnouncedIsStored.
THEOREM AnnouncedStaysStored == PublishSpec => []AnnouncedIsStored
<1>1. PublishInv => AnnouncedIsStored
  <2> SUFFICES ASSUME PublishInv, Unlocked, NEW c \in announced
               PROVE  Answer(c) = "whole" \/ c \in interrupted \cup deleted
    BY DEF AnnouncedIsStored
  <2>1. c \in SafeFiles
    BY DEF PublishInv, AnnouncingInv
  <2> QED BY <2>1 DEF SafeFiles, Safe, Writes, Unlocked, Idle, Answer
<1> QED BY <1>1, PublishInvariance, PTL

\* Whoever reads a manifest can read its blocks, and the blocks of a file whose
\* publication was reported make up that file: PublishedFilesAreWhole.
THEOREM PublishedFilesStayWhole == PublishSpec => []PublishedFilesAreWhole
<1>1. ASSUME PublishInv, NEW r \in Requests, request[r].pc = "ok"
      PROVE  FlattenSeq(request[r].blocks) = request[r].data
  <2>1. PICK size \in Int : size > 0 /\ request[r].blocks = Chunk(request[r].data, size)
    BY <1>1 DEF PublishInv, RequestInv
  <2>2. request[r].data \in Seq(ToSet(request[r].data))
    BY <1>1, ConfigAssumption DEF PublishInv, RequestInv
  <2> QED BY <2>1, <2>2, ChunksMakeUpFile
<1>2. ASSUME PublishInv, Unlocked, NEW m \in Manifests, Answer(m) = "whole", NEW c \in ToSet(m[2])
      PROVE  Answer(c) = "whole" \/ c \in interrupted \cup deleted
  <2>1. disk[m] # "absent"
    BY <1>2 DEF Answer
  <2>2. m[2] \in Seq(Blocks) /\ \A i \in 1 .. Len(m[2]) : m[2][i] \in SafeFiles
    BY <1>2, <2>1 DEF PublishInv, ManifestsInv, Present
  <2>3. c \in SafeFiles
    BY <2>2 DEF ToSet
  <2> QED BY <2>3, <1>2 DEF SafeFiles, Safe, Writes, Unlocked, Idle, Answer
<1>3. PublishInv => PublishedFilesAreWhole
  BY <1>1, <1>2 DEF PublishedFilesAreWhole
<1> QED BY <1>3, PublishInvariance, PTL

\* At most one request is inside Put at any time, and the types are kept.
THEOREM PublishTypeCorrect == PublishSpec => []PublishTypeOK
<1> SUFFICES ASSUME PublishInv PROVE PublishTypeOK
  BY PublishInvariance, PTL
<1>1. Cardinality(Putting) <= 1
  <2>1. CASE Putting = {}
    BY <2>1, FS_EmptySet
  <2>2. CASE Putting # {}
    <3>1. PICK r \in Requests : request[r].pc = "putting"
      BY <2>2 DEF Putting
    <3>2. Putting = {r}
      BY <3>1 DEF Putting, PublishInv, LockInv
    <3> QED BY <3>2, FS_Singleton
  <2> QED BY <2>1, <2>2
<1>2. ASSUME NEW r \in Requests
      PROVE  /\ request[r].pc \in {"new", "store", "putting", "ok", "error", "lost"}
             /\ ToSet(request[r].blocks) \subseteq Blocks
             /\ request[r].next \in 1 .. Len(request[r].blocks) + 1
             /\ ToSet(announcing[r]) \subseteq Content
  <2>1. request[r] \in RequestType /\ announcing[r] \in Seq(SafeFiles)
    BY DEF PublishInv, PublishTypes, AnnouncingInv
  <2>2. announcing[r] \in Seq(Content)
    BY <2>1 DEF SafeFiles
  <2> QED BY <2>1, <2>2 DEF PublishInv, RequestInv, RequestType, ToSet
<1>3. TypeOK /\ adaptive \in BOOLEAN /\ deleted \in SUBSET Blocks /\ announced \in SUBSET Content
  BY DEF PublishInv, StoreInv, PublishTypes, AnnouncingInv, SafeFiles
<1> QED BY <1>1, <1>2, <1>3 DEF PublishTypeOK

-----------------------------------------------------------------------------
(* The size of the chunks. *)

\* The number of chunks that the RTT asks for.
TargetChunks(rtt) == IF rtt > 50 THEN 4 ELSE IF rtt < 5 THEN 16 ELSE 8

\* The two limits of AdaptiveChunkSize cut the share of a chunk.
LEMMA AdaptiveChunkSizeValue ==
    ASSUME NEW size \in Nat, NEW rtt \in Nat, NEW lo \in Nat \ {0}, NEW hi \in Nat \ {0}
    PROVE  LET q == size \div TargetChunks(rtt)
               share == IF q >= lo THEN q ELSE lo
           IN  AdaptiveChunkSize(size, rtt, lo, hi) =
                   IF size <= lo THEN size ELSE IF share <= hi THEN share ELSE hi
<1> DEFINE q == size \div TargetChunks(rtt)
           share == IF q >= lo THEN q ELSE lo
<1>1. ~(lo <= 0) /\ ~(hi <= 0)
  OBVIOUS
<1>2. AdaptiveChunkSize(size, rtt, lo, hi) = IF size <= lo THEN size ELSE Min({Max({q, lo}), hi})
  BY <1>1 DEF AdaptiveChunkSize, TargetChunks
<1>3. q \in Int
  BY DEF TargetChunks
<1> HIDE DEF q
<1>4. Max({q, lo}) = share
  BY <1>3, MaxOfTwo
<1>5. Min({share, hi}) = IF share <= hi THEN share ELSE hi
  BY <1>3, MinOfTwo
<1> QED BY <1>2, <1>4, <1>5 DEF q

\* Whatever the file, the RTT and the limits: the chunks are within the limits,
\* a file that needs no maximum is cut into 17 at most, and a faster path gets
\* no larger ones.
THEOREM AdaptiveChunkSizeBounds ==
    ASSUME NEW size \in Nat \ {0}, NEW rtt \in Nat, NEW lo \in Nat \ {0}, NEW hi \in Nat, lo <= hi
    PROVE  LET chunk == AdaptiveChunkSize(size, rtt, lo, hi)
           IN  /\ chunk \in 1 .. hi
               /\ lo >= 15 /\ chunk < hi => NumChunks(size, chunk) <= 17
               /\ \A faster \in Nat :
                      faster < rtt => AdaptiveChunkSize(size, faster, lo, hi) <= chunk
<1> DEFINE chunk == AdaptiveChunkSize(size, rtt, lo, hi)
           Q(x) == size \div TargetChunks(x)
           Share(x) == IF Q(x) >= lo THEN Q(x) ELSE lo
           Cut(x) == IF size <= lo THEN size ELSE IF Share(x) <= hi THEN Share(x) ELSE hi
<1>1. \A x \in Nat : AdaptiveChunkSize(size, x, lo, hi) = Cut(x)
  BY AdaptiveChunkSizeValue
<1>2. ASSUME NEW x \in Nat
      PROVE  Q(x) \in Nat /\ size <= 16 * Q(x) + 15
  BY DEF TargetChunks
<1>3. ASSUME NEW x \in Nat, NEW y \in Nat, y < x PROVE Q(y) <= Q(x)
  BY <1>3 DEF TargetChunks
<1> HIDE DEF Q
<1>4. chunk = Cut(rtt)
  BY <1>1
<1>5. chunk \in 1 .. hi
  BY <1>2, <1>4
<1>6. ASSUME NEW faster \in Nat, faster < rtt
      PROVE  AdaptiveChunkSize(size, faster, lo, hi) <= chunk
  <2>1. Q(faster) <= Q(rtt) /\ Q(faster) \in Nat /\ Q(rtt) \in Nat
    BY <1>2, <1>3, <1>6
  <2>2. Cut(faster) <= Cut(rtt)
    BY <2>1
  <2> QED BY <1>1, <2>2
<1>7. ASSUME lo >= 15, chunk < hi PROVE NumChunks(size, chunk) <= 17
  <2> DEFINE n == NumChunks(size, chunk)
  <2>1. size <= 16 * chunk + 15 /\ (chunk = size \/ chunk >= 15)
    BY <1>2, <1>4, <1>7
  <2> HIDE DEF chunk
  <2>2. n \in Nat /\ \A i \in 1 .. n : (i - 1) * chunk < size
    BY <1>5, NumChunksFits
  <2> HIDE DEF n
  <2>3. ASSUME n > 17 PROVE FALSE
    <3>1. 18 \in 1 .. n
      BY <2>2, <2>3
    <3>2. 17 * chunk < size
      BY <2>2, <3>1
    <3> QED BY <2>1, <3>2, <1>5
  <2> QED BY <2>2, <2>3 DEF n
<1> QED BY <1>5, <1>6, <1>7
-----------------------------------------------------------------------------
(* The RTT of the fastest path. *)

\* One round of the loop over the peers.
Faster(best, rtt) == IF best = 10 \/ rtt < best THEN rtt ELSE best

\* The subsets of the positions with at most n elements.
Upto(T, n) == {s \in SUBSET T : Cardinality(s) <= n}

\* g has the result of the loop over each set of positions in D: the recursive
\* function of the library's fold.
Loops(g, rtts, D) ==
    g = [s \in D |-> IF s = {} THEN 10 ELSE Faster(g[s \ {Max(s)}], rtts[Max(s)])]

\* BestRTT by that function.
LEMMA BestRTTUnfolded ==
    ASSUME NEW rtts
    PROVE  BestRTT(rtts) = (CHOOSE g : Loops(g, rtts, SUBSET DOMAIN rtts))[DOMAIN rtts]
BY DEF BestRTT, FoldLeft, MapThenFoldSet, Loops, Faster

\* A set of positions has a last one.
LEMMA MaxIsMember ==
    ASSUME NEW n \in Nat, NEW s \in SUBSET (1 .. n), s # {}
    PROVE  Max(s) \in s /\ \A x \in s : Max(s) >= x
<1> DEFINE D == {n - x : x \in s}
<1>1. D \in SUBSET Nat /\ D # {}
  <2>1. \A x \in s : n - x \in Nat
    OBVIOUS
  <2>2. PICK x : x \in s
    OBVIOUS
  <2>3. n - x \in D
    BY <2>2
  <2> QED BY <2>1, <2>3
<1>2. PICK d \in D : \A e \in D : d <= e
  <2> HIDE DEF D
  <2> QED BY <1>1, LeastNumber
<1>3. PICK x \in s : d = n - x
  OBVIOUS
<1>4. ASSUME NEW y \in s PROVE x >= y
  <2>1. n - x <= n - y
    BY <1>2, <1>3
  <2> QED BY <2>1
<1> QED BY <1>4 DEF Max

\* The recursion has a solution, by induction over the size of the subsets.
LEMMA LoopsExist ==
    ASSUME NEW rtts, NEW len \in Nat
    PROVE  \E g : Loops(g, rtts, SUBSET (1 .. len))
<1> DEFINE T == 1 .. len
           Bad == {n \in Nat : ~ \E g : Loops(g, rtts, Upto(T, n))}
<1>f. IsFiniteSet(T) /\ \A s \in SUBSET T : s # {} => Max(s) \in s
  <2>1. IsFiniteSet(T)
    BY FS_Interval
  <2>2. ASSUME NEW s \in SUBSET T, s # {} PROVE Max(s) \in s
    BY <2>2, MaxIsMember
  <2> QED BY <2>1, <2>2
<1> HIDE DEF T
<1>0. ASSUME NEW s \in SUBSET T
      PROVE  /\ IsFiniteSet(s) /\ Cardinality(s) \in Nat /\ (Cardinality(s) = 0 <=> s = {})
             /\ \A x \in s : Cardinality(s \ {x}) = Cardinality(s) - 1 /\ s \ {x} \in SUBSET T
  BY <1>f, FS_Subset, FS_CardinalityType, FS_EmptySet, FS_RemoveElement
<1>1. CASE Bad = {}
  <2>1. Cardinality(T) \in Nat
    BY <1>f, FS_CardinalityType
  <2>2. PICK g : Loops(g, rtts, Upto(T, Cardinality(T)))
    BY <1>1, <2>1
  <2>3. Upto(T, Cardinality(T)) = SUBSET T
    BY <1>f, FS_Subset DEF Upto
  <2> QED BY <2>2, <2>3 DEF T
<1>2. CASE Bad # {}
  <2>1. PICK n \in Bad : \A m \in Bad : n <= m
    <3>1. Bad \in SUBSET Nat
      OBVIOUS
    <3> HIDE DEF Bad
    <3> QED BY <1>2, <3>1, LeastNumber
  <2>2. CASE n = 0
    <3> DEFINE g == [s \in Upto(T, 0) |-> 10]
    <3>1. \A s \in Upto(T, 0) : s = {}
      BY <1>0 DEF Upto
    <3>2. Loops(g, rtts, Upto(T, 0))
      BY <3>1 DEF Loops
    <3> QED BY <2>1, <2>2, <3>2
  <2>3. CASE n # 0
    <3>1. n \in Nat /\ n - 1 \in Nat /\ ~(n <= n - 1)
      BY <2>3
    <3>2. PICK h : Loops(h, rtts, Upto(T, n - 1))
      BY <2>1, <3>1
    <3> DEFINE g == [s \in Upto(T, n) |->
                        IF s = {} THEN 10 ELSE Faster(h[s \ {Max(s)}], rtts[Max(s)])]
    <3>3. ASSUME NEW s \in Upto(T, n - 1) PROVE s \in Upto(T, n) /\ g[s] = h[s]
      <4>1. s \in Upto(T, n)
        BY <1>0, <3>1 DEF Upto
      <4> QED BY <3>2, <4>1 DEF Loops
    <3>4. ASSUME NEW s \in Upto(T, n), s # {}
          PROVE  h[s \ {Max(s)}] = g[s \ {Max(s)}]
      <4>1. s \ {Max(s)} \in Upto(T, n - 1)
        BY <1>f, <1>0, <3>1, <3>4 DEF Upto
      <4> HIDE DEF g
      <4> QED BY <4>1, <3>3
    <3>5. Loops(g, rtts, Upto(T, n))
      BY <3>4 DEF Loops
    <3> HIDE DEF g
    <3> QED BY <2>1, <3>5
  <2> QED BY <2>2, <2>3
<1> QED BY <1>1, <1>2

\* Without a path of exactly 10 ms the loop finds the least of the RTTs, in
\* whatever order the peers are listed.
THEOREM BestRTTIsLeast ==
    ASSUME NEW rtts \in Seq(Nat), \A i \in 1 .. Len(rtts) : rtts[i] # 10
    PROVE  BestRTT(rtts) = IF rtts = << >> THEN 10 ELSE Min(ToSet(rtts))
<1> DEFINE len == Len(rtts)
           g == CHOOSE g : Loops(g, rtts, SUBSET (1 .. len))
           Least(k) == \E i \in 1 .. k : g[1 .. k] = rtts[i] /\ \A j \in 1 .. k : rtts[i] <= rtts[j]
           Bad == {k \in 1 .. len : ~Least(k)}
<1>1. len \in Nat /\ DOMAIN rtts = 1 .. len /\ \A i \in 1 .. len : rtts[i] \in Nat
  OBVIOUS
<1>2. BestRTT(rtts) = g[1 .. len]
  BY <1>1, BestRTTUnfolded
<1>3. Loops(g, rtts, SUBSET (1 .. len))
  <2> HIDE DEF len
  <2>1. \E h : Loops(h, rtts, SUBSET (1 .. len))
    BY <1>1, LoopsExist
  <2> QED BY <2>1
<1> HIDE DEF g, len
<1>4. g[{}] = 10
  BY <1>3 DEF Loops
<1>5. ASSUME NEW k \in 1 .. len
      PROVE  g[1 .. k] = Faster(g[1 .. k - 1], rtts[k])
  <2>1. 1 .. k \in SUBSET (1 .. len) /\ 1 .. k # {} /\ k \in 1 .. k
    BY <1>1
  <2>2. Max(1 .. k) = k
    <3>1. k \in Nat /\ 1 .. k \in SUBSET (1 .. k)
      BY <1>1
    <3>2. Max(1 .. k) \in 1 .. k /\ \A x \in 1 .. k : Max(1 .. k) >= x
      BY <2>1, <3>1, MaxIsMember
    <3>3. Max(1 .. k) >= k
      BY <2>1, <3>2
    <3> QED BY <3>1, <3>2, <3>3
  <2>3. (1 .. k) \ {k} = 1 .. k - 1
    BY <1>1
  <2>4. g[1 .. k] = Faster(g[(1 .. k) \ {Max(1 .. k)}], rtts[Max(1 .. k)])
    BY <1>3, <2>1 DEF Loops
  <2> QED BY <2>2, <2>3, <2>4
<1>6. Bad = {}
  <2> SUFFICES ASSUME Bad # {} PROVE FALSE
    OBVIOUS
  <2>1. Bad \in SUBSET Nat
    BY <1>1
  <2>2. PICK k \in Bad : \A m \in Bad : k <= m
    <3> HIDE DEF Bad
    <3> QED BY <2>1, LeastNumber
  <2>3. k \in 1 .. len /\ ~Least(k) /\ rtts[k] \in Nat
    BY <1>1
  <2>4. CASE k = 1
    <3>1. 1 .. k - 1 = {}
      BY <2>4
    <3>2. g[1 .. k] = rtts[k]
      BY <1>4, <1>5, <2>3, <3>1 DEF Faster
    <3>3. \A j \in 1 .. k : j = k
      BY <2>4
    <3> QED BY <2>3, <3>2, <3>3
  <2>5. CASE k # 1
    <3>1. k - 1 \in 1 .. len /\ ~(k <= k - 1)
      BY <1>1, <2>3, <2>5
    <3>2. Least(k - 1)
      <4> HIDE DEF Least
      <4> QED BY <2>2, <3>1
    <3>3. PICK i \in 1 .. k - 1 :
              g[1 .. k - 1] = rtts[i] /\ \A j \in 1 .. k - 1 : rtts[i] <= rtts[j]
      BY <3>2
    <3>4. i \in 1 .. len /\ i \in 1 .. k /\ rtts[i] \in Nat /\ rtts[i] # 10
      BY <1>1, <2>3, <3>1 DEF len
    <3>5. g[1 .. k] = IF rtts[k] < rtts[i] THEN rtts[k] ELSE rtts[i]
      BY <1>5, <2>3, <3>3, <3>4 DEF Faster
    <3>6. \A j \in 1 .. k : j = k \/ j \in 1 .. k - 1
      BY <2>3, <1>1
    <3>7. \A j \in 1 .. k : rtts[j] \in Nat /\ (j = k \/ rtts[i] <= rtts[j])
      BY <1>1, <2>3, <3>3, <3>6
    <3>8. CASE rtts[k] < rtts[i]
      <4>1. \A j \in 1 .. k : rtts[k] <= rtts[j]
        BY <2>3, <3>4, <3>7, <3>8
      <4>2. k \in 1 .. k
        BY <2>3, <1>1
      <4> QED BY <2>3, <3>5, <3>8, <4>1, <4>2
    <3>9. CASE ~(rtts[k] < rtts[i])
      <4>1. \A j \in 1 .. k : rtts[i] <= rtts[j]
        BY <2>3, <3>4, <3>7, <3>9
      <4> QED BY <2>3, <3>4, <3>5, <3>9, <4>1
    <3> QED BY <3>8, <3>9
  <2> QED BY <2>4, <2>5
<1>7. CASE len = 0
  <2>1. 1 .. len = {} /\ rtts = << >>
    BY <1>7 DEF len
  <2> QED BY <1>2, <1>4, <2>1
<1>8. CASE len # 0
  <2>1. len \in 1 .. len /\ rtts # << >>
    BY <1>1, <1>8 DEF len
  <2>2. Least(len)
    <3> HIDE DEF Least
    <3> QED BY <1>6, <2>1
  <2>3. PICK i \in 1 .. len : g[1 .. len] = rtts[i] /\ \A j \in 1 .. len : rtts[i] <= rtts[j]
    BY <2>2
  <2>4. ToSet(rtts) \subseteq Nat /\ rtts[i] \in ToSet(rtts) /\ \A x \in ToSet(rtts) : rtts[i] <= x
    BY <1>1, <2>3 DEF ToSet
  <2>5. \A x \in ToSet(rtts) : (\A y \in ToSet(rtts) : x <= y) => x = rtts[i]
    BY <2>4
  <2>6. Min(ToSet(rtts)) = rtts[i]
    BY <2>4, <2>5 DEF Min
  <2> QED BY <1>2, <2>1, <2>3, <2>6
<1> QED BY <1>7, <1>8

\* What the node's adaptive chunking does on the sample of sizes, limits and
\* RTTs, from the two theorems above.
THEOREM ChunksAreSized == PublishSpec => []AdaptiveSizing
<1>1. ASSUME NEW size \in 1 .. 300, NEW lo \in {16, 20}, NEW hi \in {20, 64}, NEW rtt \in SampleRTTs
      PROVE  LET chunk == AdaptiveChunkSize(size, rtt, lo, hi)
             IN  /\ chunk \in 1 .. hi
                 /\ chunk < hi => NumChunks(size, chunk) <= 17
                 /\ \A faster \in {f \in SampleRTTs : f < rtt} :
                        AdaptiveChunkSize(size, faster, lo, hi) <= chunk
  <2>1. /\ size \in Nat \ {0} /\ lo \in Nat \ {0} /\ hi \in Nat /\ lo <= hi /\ lo >= 15
        /\ rtt \in Nat /\ SampleRTTs \subseteq Nat
    BY DEF SampleRTTs
  <2> DEFINE chunk == AdaptiveChunkSize(size, rtt, lo, hi)
  <2>2. chunk \in 1 .. hi
    BY <2>1, AdaptiveChunkSizeBounds
  <2>3. chunk < hi => NumChunks(size, chunk) <= 17
    BY <2>1, AdaptiveChunkSizeBounds
  <2>4. \A faster \in Nat : faster < rtt => AdaptiveChunkSize(size, faster, lo, hi) <= chunk
    BY <2>1, AdaptiveChunkSizeBounds
  <2> QED BY <2>1, <2>2, <2>3, <2>4
<1>2. ASSUME NEW rtts \in BoundedSeq(SampleRTTs \ {10}, 3)
      PROVE  BestRTT(rtts) = IF rtts = << >> THEN 10 ELSE Min(ToSet(rtts))
  <2>1. PICK m \in 0 .. 3 : rtts \in [1 .. m -> SampleRTTs \ {10}]
    BY DEF BoundedSeq, SeqOf
  <2>2. rtts \in Seq(Nat) /\ \A i \in 1 .. Len(rtts) : rtts[i] # 10
    BY <2>1 DEF SampleRTTs
  <2> QED BY <2>2, BestRTTIsLeast
<1>3. AdaptiveSizing
  BY <1>1, <1>2 DEF AdaptiveSizing
<1> QED BY <1>3, PTL

=============================================================================
