--------------------------- MODULE BlockExchange ---------------------------
(***************************************************************************)
(* The copies of one block on the nodes of a network, and the two          *)
(* protocols that move them (internal/protocol/blocktransfer.go): the      *)
(* block transfer, by which a node fetches the block, and the block push,  *)
(* by which the replication loop of a node spreads it (internal/node/      *)
(* node.go: replicatePopularBlocks).                                       *)
(*                                                                         *)
(* A copy on disk or in the cache is "whole", "torn" (what an interrupted  *)
(* write left) or "absent".  A transfer in progress is a record in one of  *)
(* the slots; its stages are                                               *)
(*                                                                         *)
(*   "local"    fetch: the cache of the fetching node missed               *)
(*   "request"  fetch: the request is on its way to the peer               *)
(*   "found"    fetch: the peer has looked the block up                    *)
(*   "sent"     the copy is on its way to the node that will store it      *)
(*   "store"    that node has verified the CID                             *)
(*   "fill"     that node is writing the file, which is truncated          *)
(*   "stored"   that node has written the file, or failed to               *)
(*   "acked"    push: the receiver has sent its acknowledgement            *)
(*                                                                         *)
(* Any transfer may break off between two stages: streams fail, and        *)
(* contexts expire.                                                        *)
(***************************************************************************)
EXTENDS Integers, FiniteSets

CONSTANTS
    Nodes,
    Publishers,   \* the nodes that have the block to begin with
    Slots,        \* as many transfers at a time
    MaxFaults     \* bound on crashes and failed writes

ASSUME ExchangeAssumption == Publishers \subseteq Nodes /\ MaxFaults \in Nat

VARIABLES
    up,           \* the nodes that run
    disk, cache,  \* the copy of every node
    transfer,     \* what each slot holds
    faults,
    faulty        \* auxiliary: the nodes that had a write cut short

vars == <<up, disk, cache, transfer, faults, faulty>>

Free == [kind |-> "free"]
IsTransfer(x) == x # Free

Init ==
    /\ up = Nodes
    /\ disk = [n \in Nodes |-> IF n \in Publishers THEN "whole" ELSE "absent"]
    /\ cache = [n \in Nodes |-> "absent"]
    /\ transfer = [x \in Slots |-> Free]
    /\ faults = 0 /\ faulty = {}

\* The node that a transfer brings the block to, and the other one.
Receiver(x) == transfer[x].to
Sender(x) == transfer[x].from

At(x, kinds, stage) ==
    IsTransfer(transfer[x]) /\ transfer[x].kind \in kinds /\ transfer[x].stage = stage

\* Store.mu of node n is held for writing.
Writing(n) == \E x \in Slots : At(x, {"fetch", "push"}, "fill") /\ Receiver(x) = n

Move(x, stage) == transfer' = [transfer EXCEPT ![x].stage = stage]
End(x) == transfer' = [transfer EXCEPT ![x] = Free]

-----------------------------------------------------------------------------
(* Fetching: handleFetch's goroutine, FetchBlock and BlockTransferHandler. *)

\* The cache missed; the store is looked at next.
FetchStart(x, n, p) ==
    /\ transfer[x] = Free /\ n \in up /\ n # p
    /\ cache[n] = "absent"
    /\ transfer' = [transfer EXCEPT ![x] =
           [kind |-> "fetch", from |-> p, to |-> n, stage |-> "local",
            copy |-> "absent", orphan |-> FALSE]]
    /\ UNCHANGED <<up, disk, cache, faults, faulty>>

\* Only a block that the store does not have is fetched, and only from a peer
\* that can be reached.
FetchLocal(x) ==
    /\ At(x, {"fetch"}, "local") /\ ~Writing(Receiver(x))
    /\ IF disk[Receiver(x)] = "absent" /\ Sender(x) \in up THEN Move(x, "request") ELSE End(x)
    /\ UNCHANGED <<up, disk, cache, faults, faulty>>

\* lookupBlock: the cache, then the disk; the bytes are not verified.
Lookup(x) ==
    LET p == Sender(x)
        copy == IF cache[p] # "absent" THEN cache[p] ELSE disk[p]
    IN  /\ At(x, {"fetch"}, "request")
        /\ cache[p] = "absent" => ~Writing(p)
        /\ IF copy = "absent"
           THEN End(x)
           ELSE transfer' = [transfer EXCEPT ![x].stage = "found", ![x].copy = copy]
        /\ UNCHANGED <<up, disk, cache, faults, faulty>>

\* The block looked up goes to the cache, and to the peer that asked.
Serve(x) ==
    /\ At(x, {"fetch"}, "found")
    /\ cache' = [cache EXCEPT ![Sender(x)] = transfer[x].copy]
    /\ IF transfer[x].orphan THEN End(x) ELSE Move(x, "sent")
    /\ UNCHANGED <<up, disk, faults, faulty>>

-----------------------------------------------------------------------------
(* Pushing: replicatePopularBlocks, PushBlock and BlockPushHandler. *)

\* The block is read from the store and sent.
PushStart(x, n, p) ==
    /\ transfer[x] = Free /\ {n, p} \subseteq up /\ n # p
    /\ disk[n] # "absent" /\ ~Writing(n)
    /\ transfer' = [transfer EXCEPT ![x] =
           [kind |-> "push", from |-> n, to |-> p, stage |-> "sent",
            copy |-> disk[n], orphan |-> FALSE]]
    /\ UNCHANGED <<up, disk, cache, faults, faulty>>

-----------------------------------------------------------------------------
(* Receiving, in either protocol. *)

\* Mutant of Verify: the bytes of a fetched block are trusted.
VerifyPushesOnly(x) ==
    /\ At(x, {"fetch", "push"}, "sent")
    /\ IF transfer[x].copy = "whole" \/ transfer[x].kind = "fetch" THEN Move(x, "store") ELSE End(x)
    /\ UNCHANGED <<up, disk, cache, faults, faulty>>

\* Mutant of Verify: what was stored under a CID that does not match is removed.
VerifyOrDelete(x) ==
    /\ At(x, {"fetch", "push"}, "sent")
    /\ IF transfer[x].copy = "whole"
       THEN Move(x, "store") /\ UNCHANGED disk
       ELSE End(x) /\ disk' = [disk EXCEPT ![Receiver(x)] = "absent"]
    /\ UNCHANGED <<up, cache, faults, faulty>>

\* Bytes that do not have the CID end the transfer.
Verify(x) ==
    /\ At(x, {"fetch", "push"}, "sent")
    /\ IF transfer[x].copy = "whole" THEN Move(x, "store") ELSE End(x)
    /\ UNCHANGED <<up, disk, cache, faults, faulty>>

\* Store.Put takes the lock and truncates the file, even if it is whole.
PutBegin(x) ==
    /\ At(x, {"fetch", "push"}, "store") /\ ~Writing(Receiver(x))
    /\ disk' = [disk EXCEPT ![Receiver(x)] = "torn"]
    /\ Move(x, "fill")
    /\ UNCHANGED <<up, cache, faults, faulty>>

PutEnd(x) ==
    /\ At(x, {"fetch", "push"}, "fill")
    /\ disk' = [disk EXCEPT ![Receiver(x)] = transfer[x].copy]
    /\ Move(x, "stored")
    /\ UNCHANGED <<up, cache, faults, faulty>>

\* The file cannot be opened or filled; neither receiver looks at the error.
PutFails(x) ==
    /\ faults < MaxFaults
    /\ faults' = faults + 1
    /\ \/ At(x, {"fetch", "push"}, "store") /\ ~Writing(Receiver(x)) /\ UNCHANGED faulty
       \/ At(x, {"fetch", "push"}, "fill") /\ faulty' = faulty \cup {Receiver(x)}
    /\ Move(x, "stored")
    /\ UNCHANGED <<up, disk, cache>>

\* A fetched block is not cached; a pushed one is, and is acknowledged.
FetchEnd(x) ==
    /\ At(x, {"fetch"}, "stored")
    /\ End(x)
    /\ UNCHANGED <<up, disk, cache, faults, faulty>>

PushCached(x) ==
    /\ At(x, {"push"}, "stored")
    /\ cache' = [cache EXCEPT ![Receiver(x)] = transfer[x].copy]
    /\ Move(x, "acked")
    /\ UNCHANGED <<up, disk, faults, faulty>>

PushEnd(x) ==
    /\ At(x, {"push"}, "acked")
    /\ End(x)
    /\ UNCHANGED <<up, disk, cache, faults, faulty>>

-----------------------------------------------------------------------------
(* The environment. *)

\* The stream breaks, or its context expires, while bytes are exchanged.
Break(x) ==
    /\ \E stage \in {"request", "sent", "acked"} : At(x, {"fetch", "push"}, stage)
    /\ End(x)
    /\ UNCHANGED <<up, disk, cache, faults, faulty>>

\* evictOldest, on behalf of some other block.
Evict(n) ==
    /\ cache[n] # "absent"
    /\ cache' = [cache EXCEPT ![n] = "absent"]
    /\ UNCHANGED <<up, disk, transfer, faults, faulty>>

\* The node on which the next step of a transfer happens.
Place(t) == IF t.stage \in {"request", "found"} THEN t.from ELSE t.to

\* A process dies, with its cache and whatever it was doing.  A peer that is
\* looking the block up for it goes on, and finds out when it answers.
Crash(n) ==
    /\ n \in up /\ faults < MaxFaults
    /\ faults' = faults + 1
    /\ up' = up \ {n}
    /\ cache' = [cache EXCEPT ![n] = "absent"]
    /\ faulty' = IF Writing(n) THEN faulty \cup {n} ELSE faulty
    /\ transfer' = [x \in Slots |->
           IF ~IsTransfer(transfer[x]) THEN Free
           ELSE IF Place(transfer[x]) = n THEN Free
           ELSE IF Receiver(x) = n THEN [transfer[x] EXCEPT !.orphan = TRUE]
           ELSE transfer[x]]
    /\ UNCHANGED disk

Restart(n) ==
    /\ n \notin up
    /\ up' = up \cup {n}
    /\ UNCHANGED <<disk, cache, transfer, faults, faulty>>

TransferStep(x) ==
    \/ FetchLocal(x) \/ Lookup(x) \/ Serve(x)
    \/ Verify(x) \/ PutBegin(x) \/ PutEnd(x) \/ PutFails(x)
    \/ FetchEnd(x) \/ PushCached(x) \/ PushEnd(x) \/ Break(x)

Next ==
    \/ \E x \in Slots, n, p \in Nodes : FetchStart(x, n, p) \/ PushStart(x, n, p)
    \/ \E x \in Slots : TransferStep(x)
    \/ \E n \in Nodes : Evict(n) \/ Crash(n) \/ Restart(n)

Spec == Init /\ [][Next]_vars

-----------------------------------------------------------------------------
(* Correctness. *)

Copy == {"absent", "torn", "whole"}

Transfer ==
    [kind : {"fetch", "push"}, from : Nodes, to : Nodes, copy : Copy, orphan : BOOLEAN,
     stage : {"local", "request", "found", "sent", "store", "fill", "stored", "acked"}]

\* The values of the variables.
TypeOK ==
    /\ up \in SUBSET Nodes
    /\ disk \in [Nodes -> Copy] /\ cache \in [Nodes -> Copy]
    /\ transfer \in [Slots -> Transfer \cup {Free}]
    /\ \A x \in Slots : IsTransfer(transfer[x]) => Sender(x) # Receiver(x)
    /\ faults \in 0 .. MaxFaults /\ faulty \in SUBSET Nodes

\* "End-to-end integrity regardless of how many relay hops" (docs/
\* protocols.md:153): a damaged copy stays on the node where the damage was
\* done.  A node whose own writes all completed has no damaged copy, on disk
\* or in its cache, whatever damaged copies its peers serve and push.
DamageIsLocal ==
    \A n \in Nodes \ faulty :
        cache[n] # "torn" /\ (disk[n] = "torn" => Writing(n))

\* The block is not lost: every publisher still has it, or is just writing it
\* again, through any pushes of it back to them, unless a write of its own was
\* cut short.
BlockSurvives ==
    \A n \in Publishers \ faulty : disk[n] = "whole" \/ Writing(n)

=============================================================================
