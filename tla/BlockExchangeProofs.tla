------------------------ MODULE BlockExchangeProofs ------------------------
(***************************************************************************)
(* Proofs about BlockExchange, for every number of nodes, publishers and   *)
(* transfers at a time and every number of crashes and failed writes.      *)
(*                                                                         *)
(* DamageIsLocal and BlockSurvives are not inductive: a damaged copy may   *)
(* be on its way.  TransferInv says which of the copies that are on their  *)
(* way may be damaged: those that nobody has verified yet, and of these    *)
(* only the ones that a faulty node has sent.                              *)
(***************************************************************************)
EXTENDS BlockExchange, TLAPS

Filling(x) == At(x, {"fetch", "push"}, "fill")

TransferInv ==
    \A x \in Slots : IsTransfer(transfer[x]) =>
        /\ transfer[x].stage \in {"store", "fill", "stored", "acked"} => transfer[x].copy = "whole"
        /\ transfer[x].copy = "torn" => Sender(x) \in faulty

Inv == TypeOK /\ TransferInv /\ DamageIsLocal /\ BlockSurvives

-----------------------------------------------------------------------------
(* The slots. *)

\* A slot holds a transfer, or is free.
LEMMA SlotType ==
    ASSUME TypeOK, NEW x \in Slots, IsTransfer(transfer[x])
    PROVE  /\ transfer[x] \in Transfer
           /\ Sender(x) \in Nodes /\ Receiver(x) \in Nodes /\ Sender(x) # Receiver(x)
  BY DEF TypeOK, IsTransfer, Transfer, Sender, Receiver

\* A transfer that moves on changes its stage and nothing else.
LEMMA MoveProperties ==
    ASSUME TypeOK, NEW x \in Slots, IsTransfer(transfer[x]),
           NEW stage \in {"local", "request", "found", "sent", "store", "fill", "stored", "acked"},
           Move(x, stage)
    PROVE  /\ transfer' \in [Slots -> Transfer \cup {Free}]
           /\ \A y \in Slots \ {x} : transfer'[y] = transfer[y]
           /\ IsTransfer(transfer'[x]) /\ transfer'[x].stage = stage
           /\ transfer'[x].kind = transfer[x].kind /\ transfer'[x].copy = transfer[x].copy
           /\ transfer'[x].from = transfer[x].from /\ transfer'[x].to = transfer[x].to
<1>1. transfer[x] \in Transfer /\ transfer \in [Slots -> Transfer \cup {Free}]
  BY SlotType DEF TypeOK
<1>2. transfer' = [transfer EXCEPT ![x] = [transfer[x] EXCEPT !.stage = stage]]
  BY <1>1 DEF Move, Transfer
<1>3. /\ [transfer[x] EXCEPT !.stage = stage] \in Transfer
      /\ [transfer[x] EXCEPT !.stage = stage].stage = stage
      /\ [transfer[x] EXCEPT !.stage = stage].kind = transfer[x].kind
      /\ [transfer[x] EXCEPT !.stage = stage].copy = transfer[x].copy
      /\ [transfer[x] EXCEPT !.stage = stage].from = transfer[x].from
      /\ [transfer[x] EXCEPT !.stage = stage].to = transfer[x].to
  BY <1>1 DEF Transfer
<1>4. transfer'[x] = [transfer[x] EXCEPT !.stage = stage]
  BY <1>1, <1>2
<1>5. \A t \in Transfer : IsTransfer(t)
  BY DEF IsTransfer, Transfer, Free
<1> QED BY <1>1, <1>2, <1>3, <1>4, <1>5

\* A transfer that ends frees its slot.
LEMMA EndProperties ==
    ASSUME TypeOK, NEW x \in Slots, End(x)
    PROVE  /\ transfer' \in [Slots -> Transfer \cup {Free}]
           /\ \A y \in Slots \ {x} : transfer'[y] = transfer[y]
           /\ ~IsTransfer(transfer'[x])
  BY DEF TypeOK, End, IsTransfer

\* Who writes, after a step of a slot that did not write and does not.
LEMMA WritingUnchanged ==
    ASSUME NEW x \in Slots, \A y \in Slots \ {x} : transfer'[y] = transfer[y],
           ~Filling(x), ~Filling(x)'
    PROVE  \A n \in Nodes : Writing(n)' <=> Writing(n)
  BY DEF Writing, Filling, At, Receiver

\* A step that leaves the disks and the faults alone.
LEMMA QuietStep ==
    ASSUME Inv, NEW x \in Slots, UNCHANGED <<up, disk, faults, faulty>>,
           transfer' \in [Slots -> Transfer \cup {Free}],
           \A y \in Slots \ {x} : transfer'[y] = transfer[y],
           ~Filling(x), ~Filling(x)',
           IsTransfer(transfer'[x]) =>
               /\ transfer'[x].from # transfer'[x].to
               /\ transfer'[x].stage \in {"store", "fill", "stored", "acked"} =>
                      transfer'[x].copy = "whole"
               /\ transfer'[x].copy = "torn" => transfer'[x].from \in faulty,
           cache' \in [Nodes -> Copy],
           \A n \in Nodes : cache'[n] = "torn" => n \in faulty
    PROVE  Inv'
<1>1. TypeOK'
  BY DEF Inv, TypeOK, Sender, Receiver
<1>2. TransferInv'
  BY DEF Inv, TransferInv, Sender
<1>3. \A n \in Nodes : Writing(n)' <=> Writing(n)
  BY WritingUnchanged
<1>4. DamageIsLocal' /\ BlockSurvives'
  BY <1>3, ExchangeAssumption DEF Inv, DamageIsLocal, BlockSurvives
<1> QED BY <1>1, <1>2, <1>4 DEF Inv

\* A copy that a node reads while nobody writes its file is damaged only on a
\* faulty node.
LEMMA ReadCopy ==
    ASSUME Inv, NEW n \in Nodes
    PROVE  /\ disk[n] \in Copy /\ cache[n] \in Copy
           /\ cache[n] = "torn" => n \in faulty
           /\ disk[n] = "torn" /\ ~Writing(n) => n \in faulty
  BY DEF Inv, TypeOK, DamageIsLocal

-----------------------------------------------------------------------------
(* Every step preserves the invariant. *)

\* The publishers have the block and nobody else does.
LEMMA InitInv == Init => Inv
<1> SUFFICES ASSUME Init PROVE Inv
  OBVIOUS
<1>1. TypeOK
  BY ExchangeAssumption DEF Init, TypeOK, Copy, IsTransfer
<1>2. TransferInv /\ DamageIsLocal /\ BlockSurvives
  BY ExchangeAssumption DEF Init, TransferInv, DamageIsLocal, BlockSurvives, IsTransfer
<1> QED BY <1>1, <1>2 DEF Inv

\* A fetch or a push begins.
LEMMA StartInv ==
    ASSUME Inv, NEW x \in Slots, NEW n \in Nodes, NEW p \in Nodes,
           FetchStart(x, n, p) \/ PushStart(x, n, p)
    PROVE  Inv'
<1>1. PICK t \in Transfer :
          /\ transfer' = [transfer EXCEPT ![x] = t]
          /\ t.from # t.to /\ t.stage \in {"local", "sent"}
          /\ t.copy = "torn" => t.from \in faulty
  <2>1. CASE FetchStart(x, n, p)
    <3> DEFINE t == [kind |-> "fetch", from |-> p, to |-> n, stage |-> "local",
                     copy |-> "absent", orphan |-> FALSE]
    <3>1. t \in Transfer /\ t.from # t.to /\ t.stage = "local" /\ t.copy = "absent"
      BY <2>1 DEF Transfer, Copy, FetchStart
    <3> QED BY <2>1, <3>1 DEF FetchStart
  <2>2. CASE PushStart(x, n, p)
    <3> DEFINE t == [kind |-> "push", from |-> n, to |-> p, stage |-> "sent",
                     copy |-> disk[n], orphan |-> FALSE]
    <3>1. disk[n] \in Copy /\ (disk[n] = "torn" => n \in faulty)
      BY <2>2, ReadCopy DEF PushStart
    <3>2. /\ t \in Transfer /\ t.from # t.to /\ t.stage = "sent" /\ t.copy = disk[n]
          /\ t.from = n
      BY <2>2, <3>1 DEF Transfer, PushStart
    <3> QED BY <2>2, <3>1, <3>2 DEF PushStart
  <2> QED BY <2>1, <2>2
<1>2. transfer[x] = Free /\ UNCHANGED <<up, disk, cache, faults, faulty>>
  BY DEF FetchStart, PushStart
<1>3. /\ transfer' \in [Slots -> Transfer \cup {Free}]
      /\ \A y \in Slots \ {x} : transfer'[y] = transfer[y]
      /\ transfer'[x] = t
  BY <1>1 DEF Inv, TypeOK
<1>4. ~Filling(x) /\ ~Filling(x)'
  BY <1>1, <1>2, <1>3 DEF Filling, At, IsTransfer
<1>5. cache' \in [Nodes -> Copy] /\ \A m \in Nodes : cache'[m] = "torn" => m \in faulty
  BY <1>2, ReadCopy DEF Inv, TypeOK
<1>6. t.stage \notin {"store", "fill", "stored", "acked"}
  BY <1>1
<1> QED BY <1>1, <1>2, <1>3, <1>4, <1>5, <1>6, QuietStep

\* A transfer that ends, wherever it had come to but in the middle of a write.
LEMMA EndInv ==
    ASSUME Inv, NEW x \in Slots, ~Filling(x), End(x), UNCHANGED <<up, disk, cache, faults, faulty>>
    PROVE  Inv'
<1>1. /\ transfer' \in [Slots -> Transfer \cup {Free}]
      /\ \A y \in Slots \ {x} : transfer'[y] = transfer[y]
      /\ ~IsTransfer(transfer'[x])
  BY EndProperties DEF Inv
<1>2. ~Filling(x)'
  BY <1>1 DEF Filling, At
<1>3. cache' \in [Nodes -> Copy] /\ \A m \in Nodes : cache'[m] = "torn" => m \in faulty
  BY ReadCopy DEF Inv, TypeOK
<1> QED BY <1>1, <1>2, <1>3, QuietStep

\* A transfer that moves on without a write; only a copy that was verified gets
\* as far as the store.
LEMMA MoveInv ==
    ASSUME Inv, NEW x \in Slots, IsTransfer(transfer[x]), ~Filling(x),
           NEW stage \in {"request", "sent", "store", "stored", "acked"}, Move(x, stage),
           stage \in {"store", "stored", "acked"} => transfer[x].copy = "whole",
           UNCHANGED <<up, disk, faults, faulty>>,
           cache' \in [Nodes -> Copy], \A m \in Nodes : cache'[m] = "torn" => m \in faulty
    PROVE  Inv'
<1>1. /\ transfer' \in [Slots -> Transfer \cup {Free}]
      /\ \A y \in Slots \ {x} : transfer'[y] = transfer[y]
      /\ IsTransfer(transfer'[x]) /\ transfer'[x].stage = stage
      /\ transfer'[x].kind = transfer[x].kind /\ transfer'[x].copy = transfer[x].copy
      /\ transfer'[x].from = transfer[x].from /\ transfer'[x].to = transfer[x].to
  BY MoveProperties DEF Inv
<1>2. ~Filling(x)'
  BY <1>1 DEF Filling, At
<1>3. /\ transfer[x].from # transfer[x].to
      /\ transfer[x].copy = "torn" => transfer[x].from \in faulty
  BY SlotType DEF Inv, TransferInv, Sender, Receiver
<1> QED BY <1>1, <1>2, <1>3, QuietStep

\* The steps of a transfer that change neither a disk nor a cache, but for the
\* lookup on the peer.
LEMMA PassInv ==
    ASSUME Inv, NEW x \in Slots,
           FetchLocal(x) \/ Verify(x) \/ FetchEnd(x) \/ PushEnd(x) \/ Break(x)
    PROVE  Inv'
<1>1. IsTransfer(transfer[x]) /\ ~Filling(x) /\ UNCHANGED <<up, disk, cache, faults, faulty>>
  BY DEF FetchLocal, Verify, FetchEnd, PushEnd, Break, At, Filling
<1>2. \/ End(x) \/ Move(x, "request")
      \/ Move(x, "store") /\ transfer[x].copy = "whole"
  BY DEF FetchLocal, Verify, FetchEnd, PushEnd, Break
<1>3. cache' \in [Nodes -> Copy] /\ \A m \in Nodes : cache'[m] = "torn" => m \in faulty
  BY <1>1, ReadCopy DEF Inv, TypeOK
<1>4. CASE End(x)
  BY <1>1, <1>4, EndInv
<1>5. CASE Move(x, "request")
  BY <1>1, <1>3, <1>5, MoveInv
<1>6. CASE Move(x, "store") /\ transfer[x].copy = "whole"
  BY <1>1, <1>3, <1>6, MoveInv
<1> QED BY <1>2, <1>4, <1>5, <1>6

\* lookupBlock hands out what the peer has.
LEMMA LookupInv ==
    ASSUME Inv, NEW x \in Slots, Lookup(x)
    PROVE  Inv'
<1> DEFINE p == Sender(x)
           copy == IF cache[p] # "absent" THEN cache[p] ELSE disk[p]
           t == [[transfer[x] EXCEPT !.stage = "found"] EXCEPT !.copy = copy]
<1>1. /\ IsTransfer(transfer[x]) /\ ~Filling(x) /\ UNCHANGED <<up, disk, cache, faults, faulty>>
      /\ cache[p] = "absent" => ~Writing(p)
      /\ End(x) \/ transfer' = [transfer EXCEPT ![x].stage = "found", ![x].copy = copy]
  BY DEF Lookup, At, Filling
<1>2. CASE End(x)
  BY <1>1, <1>2, EndInv
<1>3. CASE transfer' = [transfer EXCEPT ![x].stage = "found", ![x].copy = copy]
  <2>1. transfer[x] \in Transfer /\ p \in Nodes /\ transfer \in [Slots -> Transfer \cup {Free}]
        /\ transfer[x].from # transfer[x].to
    BY <1>1, SlotType DEF Inv, TypeOK, Sender, Receiver
  <2>2. copy \in Copy /\ (copy = "torn" => p \in faulty)
    BY <1>1, <2>1, ReadCopy
  <2> HIDE DEF copy
  <2>3. /\ t \in Transfer /\ t.stage = "found" /\ t.copy = copy
        /\ t.from = transfer[x].from /\ t.to = transfer[x].to
    BY <2>1, <2>2 DEF Transfer
  <2>4. transfer' = [transfer EXCEPT ![x] = t]
    BY <1>3, <2>1 DEF Transfer
  <2> HIDE DEF t
  <2>5. /\ transfer' \in [Slots -> Transfer \cup {Free}] /\ transfer'[x] = t
        /\ \A y \in Slots \ {x} : transfer'[y] = transfer[y]
    BY <2>1, <2>3, <2>4
  <2>6. ~Filling(x)'
    BY <2>3, <2>5 DEF Filling, At
  <2>7. cache' \in [Nodes -> Copy] /\ \A m \in Nodes : cache'[m] = "torn" => m \in faulty
    BY <1>1, ReadCopy DEF Inv, TypeOK
  <2>8. t.copy = "torn" => t.from \in faulty
    BY <2>2, <2>3 DEF Sender
  <2>9. t.stage \notin {"store", "fill", "stored", "acked"}
    BY <2>3
  <2> QED BY <1>1, <2>1, <2>3, <2>5, <2>6, <2>7, <2>8, <2>9, QuietStep
<1> QED BY <1>1, <1>2, <1>3

\* The copy that was looked up goes to the peer's own cache, and on its way.
LEMMA ServeInv ==
    ASSUME Inv, NEW x \in Slots, Serve(x)
    PROVE  Inv'
<1>1. /\ IsTransfer(transfer[x]) /\ ~Filling(x) /\ UNCHANGED <<up, disk, faults, faulty>>
      /\ cache' = [cache EXCEPT ![Sender(x)] = transfer[x].copy]
      /\ End(x) \/ Move(x, "sent")
  BY DEF Serve, At, Filling
<1>2. /\ Sender(x) \in Nodes /\ transfer[x].copy \in Copy
      /\ transfer[x].copy = "torn" => Sender(x) \in faulty
  BY <1>1, SlotType DEF Inv, TransferInv, Transfer
<1>3. cache' \in [Nodes -> Copy] /\ \A m \in Nodes : cache'[m] = "torn" => m \in faulty
  BY <1>1, <1>2, ReadCopy DEF Inv, TypeOK
<1>4. CASE End(x)
  <2>1. /\ transfer' \in [Slots -> Transfer \cup {Free}]
        /\ \A y \in Slots \ {x} : transfer'[y] = transfer[y]
        /\ ~IsTransfer(transfer'[x])
    BY <1>4, EndProperties DEF Inv
  <2>2. ~Filling(x)'
    BY <2>1 DEF Filling, At
  <2> QED BY <1>1, <1>3, <2>1, <2>2, QuietStep
<1>5. CASE Move(x, "sent")
  BY <1>1, <1>3, <1>5, MoveInv
<1> QED BY <1>1, <1>4, <1>5

\* A pushed block, which was verified, goes to the cache.
LEMMA PushCachedInv ==
    ASSUME Inv, NEW x \in Slots, PushCached(x)
    PROVE  Inv'
<1>1. /\ IsTransfer(transfer[x]) /\ ~Filling(x) /\ UNCHANGED <<up, disk, faults, faulty>>
      /\ cache' = [cache EXCEPT ![Receiver(x)] = transfer[x].copy]
      /\ Move(x, "acked") /\ transfer[x].stage = "stored"
  BY DEF PushCached, At, Filling
<1>2. Receiver(x) \in Nodes /\ transfer[x].copy = "whole"
  BY <1>1, SlotType DEF Inv, TransferInv
<1>3. cache' \in [Nodes -> Copy] /\ \A m \in Nodes : cache'[m] = "torn" => m \in faulty
  BY <1>1, <1>2, ReadCopy DEF Inv, TypeOK, Copy
<1> QED BY <1>1, <1>2, <1>3, MoveInv

\* Store.Put truncates the file of the receiver, which is written from then on.
LEMMA PutBeginInv ==
    ASSUME Inv, NEW x \in Slots, PutBegin(x)
    PROVE  Inv'
<1> DEFINE n == Receiver(x)
<1>1. /\ IsTransfer(transfer[x]) /\ transfer[x].stage = "store"
      /\ transfer[x].kind \in {"fetch", "push"} /\ disk' = [disk EXCEPT ![n] = "torn"]
      /\ Move(x, "fill") /\ UNCHANGED <<up, cache, faults, faulty>>
  BY DEF PutBegin, At
<1>2. /\ transfer' \in [Slots -> Transfer \cup {Free}]
      /\ \A y \in Slots \ {x} : transfer'[y] = transfer[y]
      /\ IsTransfer(transfer'[x]) /\ transfer'[x].stage = "fill"
      /\ transfer'[x].kind = transfer[x].kind /\ transfer'[x].copy = transfer[x].copy
      /\ transfer'[x].from = transfer[x].from /\ transfer'[x].to = transfer[x].to
  BY <1>1, MoveProperties DEF Inv
<1>3. n \in Nodes /\ transfer[x].from # transfer[x].to
  BY <1>1, SlotType DEF Inv, Sender, Receiver
<1>4. TypeOK'
  BY <1>1, <1>2, <1>3 DEF Inv, TypeOK, Sender, Receiver, Copy
<1>5. TransferInv'
  BY <1>1, <1>2 DEF Inv, TransferInv, Sender
<1>6. \A m \in Nodes : (m = n => Writing(m)') /\ (Writing(m) => Writing(m)')
  BY <1>1, <1>2 DEF Writing, At, Receiver
<1>7. disk'[n] = "torn" /\ \A m \in Nodes \ {n} : disk'[m] = disk[m]
  BY <1>1, <1>3 DEF Inv, TypeOK
<1> HIDE DEF n
<1>8. \A m \in Nodes : Writing(m)' \/ (disk'[m] = disk[m] /\ (Writing(m) => Writing(m)'))
  BY <1>6, <1>7
<1>9. DamageIsLocal' /\ BlockSurvives'
  BY <1>1, <1>8, ExchangeAssumption DEF Inv, DamageIsLocal, BlockSurvives
<1> QED BY <1>4, <1>5, <1>9 DEF Inv

\* The file is written: whole, as the copy was verified.
LEMMA PutEndInv ==
    ASSUME Inv, NEW x \in Slots, PutEnd(x)
    PROVE  Inv'
<1> DEFINE n == Receiver(x)
<1>1. /\ IsTransfer(transfer[x]) /\ transfer[x].stage = "fill"
      /\ disk' = [disk EXCEPT ![n] = transfer[x].copy]
      /\ Move(x, "stored") /\ UNCHANGED <<up, cache, faults, faulty>>
  BY DEF PutEnd, At
<1>2. /\ transfer' \in [Slots -> Transfer \cup {Free}]
      /\ \A y \in Slots \ {x} : transfer'[y] = transfer[y]
      /\ IsTransfer(transfer'[x]) /\ transfer'[x].stage = "stored"
      /\ transfer'[x].kind = transfer[x].kind /\ transfer'[x].copy = transfer[x].copy
      /\ transfer'[x].from = transfer[x].from /\ transfer'[x].to = transfer[x].to
  BY <1>1, MoveProperties DEF Inv
<1>3. n \in Nodes /\ transfer[x].from # transfer[x].to /\ transfer[x].copy = "whole"
  BY <1>1, SlotType DEF Inv, TransferInv, Sender, Receiver
<1>4. TypeOK'
  BY <1>1, <1>2, <1>3 DEF Inv, TypeOK, Sender, Receiver, Copy
<1>5. TransferInv'
  BY <1>1, <1>2, <1>3 DEF Inv, TransferInv, Sender
<1>6. \A m \in Nodes \ {n} : Writing(m)' <=> Writing(m)
  BY <1>2 DEF Writing, At, Receiver
<1>7. disk'[n] = "whole" /\ \A m \in Nodes \ {n} : disk'[m] = disk[m]
  BY <1>1, <1>3 DEF Inv, TypeOK
<1> HIDE DEF n
<1>8. \A m \in Nodes : disk'[m] = "whole" \/ (disk'[m] = disk[m] /\ (Writing(m)' <=> Writing(m)))
  BY <1>6, <1>7
<1>9. DamageIsLocal' /\ BlockSurvives'
  BY <1>1, <1>8, ExchangeAssumption DEF Inv, DamageIsLocal, BlockSurvives
<1> QED BY <1>4, <1>5, <1>9 DEF Inv

\* A write that fails leaves the file as it is, and the node faulty if it had
\* been truncated.
LEMMA PutFailsInv ==
    ASSUME Inv, NEW x \in Slots, PutFails(x)
    PROVE  Inv'
<1> DEFINE n == Receiver(x)
<1>1. /\ IsTransfer(transfer[x]) /\ transfer[x].stage \in {"store", "fill"}
      /\ faults < MaxFaults /\ faults' = faults + 1
      /\ Move(x, "stored") /\ UNCHANGED <<up, disk, cache>>
      /\ transfer[x].stage = "store" => faulty' = faulty
      /\ transfer[x].stage = "fill" => faulty' = faulty \cup {n}
  BY DEF PutFails, At
<1>2. /\ transfer' \in [Slots -> Transfer \cup {Free}]
      /\ \A y \in Slots \ {x} : transfer'[y] = transfer[y]
      /\ IsTransfer(transfer'[x]) /\ transfer'[x].stage = "stored"
      /\ transfer'[x].kind = transfer[x].kind /\ transfer'[x].copy = transfer[x].copy
      /\ transfer'[x].from = transfer[x].from /\ transfer'[x].to = transfer[x].to
  BY <1>1, MoveProperties DEF Inv
<1>3. n \in Nodes /\ transfer[x].from # transfer[x].to /\ transfer[x].copy = "whole"
  BY <1>1, SlotType DEF Inv, TransferInv, Sender, Receiver
<1>4. faults' \in 0 .. MaxFaults /\ faulty' \in SUBSET Nodes /\ faulty \subseteq faulty'
  BY <1>1, <1>3, ExchangeAssumption DEF Inv, TypeOK
<1>5. TypeOK'
  BY <1>1, <1>2, <1>3, <1>4 DEF Inv, TypeOK, Sender, Receiver
<1>6. TransferInv'
  BY <1>1, <1>2, <1>3, <1>4 DEF Inv, TransferInv, Sender
<1>7. \A m \in Nodes : m \in faulty' \/ (Writing(m)' <=> Writing(m))
  <2>1. CASE transfer[x].stage = "store"
    <3>1. ~Filling(x) /\ ~Filling(x)'
      BY <1>2, <2>1 DEF Filling, At
    <3> QED BY <1>2, <3>1, WritingUnchanged
  <2>2. CASE transfer[x].stage = "fill"
    <3>1. \A m \in Nodes \ {n} : Writing(m)' <=> Writing(m)
      BY <1>2 DEF Writing, At, Receiver
    <3> QED BY <1>1, <2>2, <3>1
  <2> QED BY <1>1, <2>1, <2>2
<1>8. DamageIsLocal' /\ BlockSurvives'
  BY <1>1, <1>4, <1>7, ExchangeAssumption DEF Inv, DamageIsLocal, BlockSurvives
<1> QED BY <1>5, <1>6, <1>8 DEF Inv

\* evictOldest, and a process that comes back.
LEMMA EvictOrRestartInv ==
    ASSUME Inv, NEW n \in Nodes, Evict(n) \/ Restart(n)
    PROVE  Inv'
<1>1. /\ UNCHANGED <<disk, transfer, faults, faulty>> /\ up' \in SUBSET Nodes
      /\ cache' \in [Nodes -> Copy] /\ \A m \in Nodes : cache'[m] = "torn" => cache[m] = "torn"
  BY DEF Evict, Restart, Inv, TypeOK, Copy
<1>2. TypeOK' /\ TransferInv'
  BY <1>1 DEF Inv, TypeOK, TransferInv, Sender, Receiver
<1>3. \A m \in Nodes : Writing(m)' <=> Writing(m)
  BY <1>1 DEF Writing, At, Receiver
<1>4. DamageIsLocal' /\ BlockSurvives'
  BY <1>1, <1>3, ExchangeAssumption DEF Inv, DamageIsLocal, BlockSurvives
<1> QED BY <1>2, <1>4 DEF Inv

\* A process dies: its transfers end, and its file may be left torn.
LEMMA CrashInv ==
    ASSUME Inv, NEW n \in Nodes, Crash(n)
    PROVE  Inv'
<1>1. /\ UNCHANGED disk /\ up' = up \ {n} /\ faults < MaxFaults /\ faults' = faults + 1
      /\ cache' = [cache EXCEPT ![n] = "absent"]
      /\ faulty' = IF Writing(n) THEN faulty \cup {n} ELSE faulty
      /\ transfer' = [x \in Slots |->
             IF ~IsTransfer(transfer[x]) THEN Free
             ELSE IF Place(transfer[x]) = n THEN Free
             ELSE IF Receiver(x) = n THEN [transfer[x] EXCEPT !.orphan = TRUE]
             ELSE transfer[x]]
  BY DEF Crash
<1>2. faults' \in 0 .. MaxFaults /\ faulty' \in SUBSET Nodes /\ faulty \subseteq faulty'
  BY <1>1, ExchangeAssumption DEF Inv, TypeOK
<1>3. cache' \in [Nodes -> Copy] /\ \A m \in Nodes : cache'[m] = "torn" => cache[m] = "torn"
  BY <1>1 DEF Inv, TypeOK, Copy
<1>4. ASSUME NEW x \in Slots
      PROVE  \/ transfer'[x] = Free
             \/ /\ IsTransfer(transfer[x]) /\ Place(transfer[x]) # n
                /\ transfer'[x] \in Transfer /\ transfer'[x].kind = transfer[x].kind
                /\ transfer'[x].stage = transfer[x].stage /\ transfer'[x].copy = transfer[x].copy
                /\ transfer'[x].from = transfer[x].from /\ transfer'[x].to = transfer[x].to
  <2>1. CASE ~IsTransfer(transfer[x])
    BY <1>1, <2>1
  <2>2. CASE IsTransfer(transfer[x])
    <3>1. transfer[x] \in Transfer
      BY <2>2, SlotType DEF Inv
    <3>2. CASE Place(transfer[x]) = n
      BY <1>1, <2>2, <3>2
    <3>3. CASE Place(transfer[x]) # n /\ Receiver(x) = n
      <4>1. transfer'[x] = [transfer[x] EXCEPT !.orphan = TRUE]
        BY <1>1, <2>2, <3>3
      <4> QED BY <2>2, <3>1, <3>3, <4>1 DEF Transfer
    <3>4. CASE Place(transfer[x]) # n /\ Receiver(x) # n
      BY <1>1, <2>2, <3>1, <3>4
    <3> QED BY <3>2, <3>3, <3>4
  <2> QED BY <2>1, <2>2
<1>5. transfer' \in [Slots -> Transfer \cup {Free}]
  <2>1. transfer' = [x \in Slots |-> transfer'[x]]
    BY <1>1
  <2> QED BY <2>1, <1>4
<1>6. TypeOK'
  <2>1. \A x \in Slots : IsTransfer(transfer'[x]) => transfer'[x].from # transfer'[x].to
    BY <1>4, SlotType DEF Inv, IsTransfer, Sender, Receiver
  <2> QED BY <1>1, <1>2, <1>3, <1>5, <2>1 DEF Inv, TypeOK, Sender, Receiver
<1>7. TransferInv'
  BY <1>2, <1>4 DEF Inv, TransferInv, IsTransfer, Sender
<1>8. ASSUME NEW m \in Nodes \ {n}
      PROVE  Writing(m)' <=> Writing(m)
  <2>1. ASSUME NEW x \in Slots, Filling(x), Receiver(x) = m
        PROVE  transfer'[x] = transfer[x]
    BY <1>1, <2>1 DEF Filling, At, Place, Receiver
  <2>2. Writing(m) => Writing(m)'
    BY <2>1 DEF Writing, Filling, At, Receiver
  <2>3. Writing(m)' => Writing(m)
    BY <1>4 DEF Writing, At, Receiver, IsTransfer
  <2> QED BY <2>2, <2>3
<1>9. \A m \in Nodes : m \in faulty' \/ (Writing(m) => Writing(m)')
  BY <1>1, <1>8
<1>10. DamageIsLocal' /\ BlockSurvives'
  BY <1>1, <1>2, <1>3, <1>9, ExchangeAssumption DEF Inv, DamageIsLocal, BlockSurvives
<1> QED BY <1>6, <1>7, <1>10 DEF Inv

\* Any step.
LEMMA NextInv ==
    ASSUME Inv, [Next]_vars
    PROVE  Inv'
<1>1. CASE UNCHANGED vars
  BY <1>1 DEF vars, Inv, TypeOK, TransferInv, DamageIsLocal, BlockSurvives, Writing, At,
              Sender, Receiver
<1>2. CASE Next
  BY <1>2, StartInv, PassInv, LookupInv, ServeInv, PushCachedInv, PutBeginInv, PutEndInv,
     PutFailsInv, EvictOrRestartInv, CrashInv
  DEF Next, TransferStep
<1> QED BY <1>1, <1>2

-----------------------------------------------------------------------------
(* The theorems. *)

\* Inv is an invariant of the exchange of a block.
THEOREM Invariance == Spec => []Inv
  BY InitInv, NextInv, PTL DEF Spec

\* The variables keep their types, and no transfer is from a node to itself.
THEOREM TypeCorrect == Spec => []TypeOK
<1>1. Inv => TypeOK
  BY DEF Inv
<1> QED BY <1>1, Invariance, PTL

\* A damaged copy does not leave the node where the damage was done, over any
\* number of relays: DamageIsLocal.
THEOREM DamageStaysLocal == Spec => []DamageIsLocal
<1>1. Inv => DamageIsLocal
  BY DEF Inv
<1> QED BY <1>1, Invariance, PTL

\* A publisher keeps its block while none of its own writes is cut short,
\* whatever its peers push to it: BlockSurvives.
THEOREM BlockIsKept == Spec => []BlockSurvives
<1>1. Inv => BlockSurvives
  BY DEF Inv
<1> QED BY <1>1, Invariance, PTL

=============================================================================
