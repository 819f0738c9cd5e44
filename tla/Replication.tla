---------------------------- MODULE Replication ----------------------------
(***************************************************************************)
(* The spreading of popular blocks from one node to its peers: the tracker *)
(* (internal/content/replication.go), the loop that asks it every minute   *)
(* (internal/node/node.go: replicationLoop), and the erasure code          *)
(* (internal/erasure/erasure.go) by which fragments are spread instead of  *)
(* blocks when Cfg.EnableErasure is set.                                   *)
(*                                                                         *)
(* The tracker only knows the fetches that somebody reports to it with     *)
(* RecordFetch.  Reporting says whether the fetches of the node are        *)
(* reported, as the tests of the tracker do; no code of the node does.     *)
(*                                                                         *)
(* The loop is "idle" between cycles, at "block" between two popular       *)
(* blocks, at "push" before and "hung" in a push: PushBlock waits for its  *)
(* acknowledgement without a deadline.                                     *)
(***************************************************************************)
EXTENDS Network, Integers, FiniteSets, SequencesExt

CONSTANTS
    Blocks,
    Storable,                   \* the blocks the node may have in its store
    Reporting,                  \* whether RecordFetch is called
    Threshold,                  \* 5 in the code
    MaxFetches,                 \* bound on the fetches of a block
    DataShards, ParityShards    \* Cfg, or 4 and 2

ASSUME ReplicationAssumption ==
    /\ Storable \subseteq Blocks /\ IsFiniteSet(Peers) /\ Reporting \in BOOLEAN
    /\ Threshold \in Nat \ {0} /\ MaxFetches \in Nat
    /\ DataShards \in Nat \ {0} /\ ParityShards \in Nat \ {0}

VARIABLES
    enableErasure, stored,   \* Cfg.EnableErasure; the blocks in the store
    fetchCount,              \* of the tracker; 0 for a block it does not know
    cycle,                   \* the replication loop, see Idle
    held                     \* what pushes have brought to the disk of each peer

\* Auxiliary variables.
VARIABLES
    fetched,      \* the fetches of each block
    spread        \* the peers of the latest cycle in which every fragment arrived

replicationVars == <<enableErasure, stored, fetchCount, connected, cycle, held, fetched, spread>>

Total == DataShards + ParityShards
Whole(b) == <<b, Total>>                 \* the block itself
Fragment(b, i) == <<b, i>>               \* i in 0 .. Total - 1

\* todo: the popular blocks to come; cid, next: the block and the number of the
\* push; peers: the peers as listed at the start of the cycle; clean: whether
\* all pushes of the block have arrived so far.
Idle == [stage |-> "idle", todo |-> {}, peers |-> << >>, cid |-> "none", next |-> 0, clean |-> TRUE]

ReplicationInit ==
    /\ enableErasure \in BOOLEAN /\ stored \in SUBSET Storable
    /\ fetchCount = [b \in Blocks |-> 0] /\ fetched = [b \in Blocks |-> 0]
    /\ connected \in SUBSET Peers
    /\ cycle = Idle
    /\ held = [p \in Peers |-> {}]
    /\ spread = [b \in Blocks |-> << >>]

-----------------------------------------------------------------------------
(* The tracker. *)

\* A block is fetched; RecordFetch takes effect at its atomic Add.
Fetch(b) ==
    /\ fetched[b] < MaxFetches
    /\ fetched' = [fetched EXCEPT ![b] = @ + 1]
    /\ fetchCount' = IF Reporting THEN [fetchCount EXCEPT ![b] = @ + 1] ELSE fetchCount
    /\ UNCHANGED <<enableErasure, stored, connected, cycle, held, spread>>

PopularBlocks == {b \in Blocks : fetchCount[b] >= Threshold}

-----------------------------------------------------------------------------
(* The loop. *)

\* replicatePopularBlocks: the peers come in no particular order.
ReplicationTick ==
    /\ cycle.stage = "idle"
    /\ PopularBlocks # {} /\ connected # {}
    /\ \E order \in SetToSeqs(connected) :
           cycle' = [Idle EXCEPT !.stage = "block", !.todo = PopularBlocks, !.peers = order]
    /\ UNCHANGED <<enableErasure, stored, fetchCount, connected, held, fetched, spread>>

\* A popular block that is not in the store, or that cannot be encoded, is
\* skipped.  Otherwise it is read, with erasure encoded, and pushed.  (Its
\* fragments are also written to the node's own store, by the Put of
\* ContentStore; nothing ever reads them.)
NextBlock(b) ==
    /\ cycle.stage = "block" /\ b \in cycle.todo
    /\ \/ /\ b \in stored
          /\ cycle' = [cycle EXCEPT !.stage = "push", !.todo = @ \ {b}, !.cid = b,
                                    !.next = 0, !.clean = TRUE]
       \/ /\ b \notin stored \/ enableErasure
          /\ cycle' = [cycle EXCEPT !.todo = @ \ {b}]
    /\ UNCHANGED <<enableErasure, stored, fetchCount, connected, held, fetched, spread>>

EndCycle ==
    /\ cycle.stage = "block" /\ cycle.todo = {}
    /\ cycle' = Idle
    /\ UNCHANGED <<enableErasure, stored, fetchCount, connected, held, fetched, spread>>

Pushes == IF enableErasure THEN Total ELSE Len(cycle.peers)

\* What push number cycle.next carries, and where to.
Item == IF enableErasure THEN Fragment(cycle.cid, cycle.next) ELSE Whole(cycle.cid)

\* Mutant of Receiver: the last peer gets the fragments that are left over.
ReceiverClamped == cycle.peers[Min({cycle.next + 1, Len(cycle.peers)})]

\* Round-robin for fragments, everybody for blocks.
Receiver == cycle.peers[(cycle.next % Len(cycle.peers)) + 1]

Pushing == cycle.stage \in {"push", "hung"} /\ cycle.next < Pushes

\* The push ends, and the loop goes on whatever came of it.
NextPush(arrived) ==
    cycle' = [cycle EXCEPT !.stage = "push", !.next = @ + 1, !.clean = @ /\ arrived]

\* The block arrives and is stored.  The acknowledgement may yet be lost.
PushStored ==
    /\ Pushing /\ Receiver \in connected
    /\ held' = [held EXCEPT ![Receiver] = @ \cup {Item}]
    /\ NextPush(TRUE)
    /\ UNCHANGED <<enableErasure, stored, fetchCount, connected, fetched, spread>>

\* Mutant of PushNotStored: a failed push ends the cycle and all others.
PushNotStoredGivesUp ==
    /\ Pushing
    /\ cycle' = [Idle EXCEPT !.stage = "given up"]
    /\ UNCHANGED <<enableErasure, stored, fetchCount, connected, held, fetched, spread>>

\* The push fails, or the receiver finds the block larger than it takes, 16 MB;
\* or it could not store the block, which it acknowledges all the same.
PushNotStored ==
    /\ Pushing
    /\ NextPush(FALSE)
    /\ UNCHANGED <<enableErasure, stored, fetchCount, connected, held, fetched, spread>>

\* The receiver takes the stream and stays silent.
PushHangs ==
    /\ Pushing /\ cycle.stage = "push" /\ Receiver \in connected
    /\ cycle' = [cycle EXCEPT !.stage = "hung"]
    /\ UNCHANGED <<enableErasure, stored, fetchCount, connected, held, fetched, spread>>

EndBlock ==
    /\ cycle.stage = "push" /\ cycle.next = Pushes
    /\ cycle' = [cycle EXCEPT !.stage = "block", !.cid = "none", !.next = 0, !.clean = TRUE]
    /\ spread' = IF enableErasure /\ cycle.clean
                 THEN [spread EXCEPT ![cycle.cid] = cycle.peers] ELSE spread
    /\ UNCHANGED <<enableErasure, stored, fetchCount, connected, held, fetched>>

\* Peers come and go.
ComeOrGo(p) ==
    /\ connected' = IF p \in connected THEN connected \ {p} ELSE connected \cup {p}
    /\ UNCHANGED <<enableErasure, stored, fetchCount, cycle, held, fetched, spread>>

LoopStep ==
    \/ ReplicationTick \/ EndCycle \/ EndBlock \/ \E b \in Blocks : NextBlock(b)
    \/ cycle.stage = "push" /\ (PushStored \/ PushNotStored)

ReplicationNext ==
    \/ LoopStep \/ PushStored \/ PushNotStored \/ PushHangs
    \/ \E b \in Blocks : Fetch(b)
    \/ \E p \in Peers : ComeOrGo(p)

ReplicationSpec == ReplicationInit /\ [][ReplicationNext]_replicationVars

\* The loop runs on unless a push hangs, which ends with its connection; and
\* pushes that are tried again and again over a connection arrive in the end.
ReplicationFairSpec ==
    /\ ReplicationSpec /\ WF_replicationVars(LoopStep)
    /\ SF_replicationVars(cycle.stage = "hung" /\ Receiver \notin connected /\ PushNotStored)
    /\ \A p \in Peers, b \in Blocks :
           SF_replicationVars(PushStored /\ Receiver = p /\ cycle.cid = b)

-----------------------------------------------------------------------------
(* Correctness. *)

\* Decode succeeds: there are DataShards different fragments of b.
Decodable(b, items) ==
    Cardinality({i \in 0 .. Total - 1 : Fragment(b, i) \in items}) >= DataShards

\* The values of the variables.
TypeOK ==
    /\ enableErasure \in BOOLEAN /\ stored \in SUBSET Storable
    /\ fetchCount \in [Blocks -> 0 .. MaxFetches] /\ fetched \in [Blocks -> 0 .. MaxFetches]
    /\ connected \in SUBSET Peers
    /\ cycle.stage \in {"idle", "block", "push", "hung"} /\ cycle.todo \in SUBSET Blocks
    /\ cycle.next \in 0 .. Max({Total, Cardinality(Peers)}) /\ cycle.clean \in BOOLEAN
    /\ held \in [Peers -> SUBSET (Blocks \X (0 .. Total))]

\* "This ensures popular content survives publisher disconnection."
\* (README.md:277): a block of the store that was fetched Threshold times gets
\* to the disk of every peer that stays connected, although neither failed
\* pushes nor failed writes of the receivers are noticed.  A peer that takes a
\* push, stays connected and never answers stops the loop for all.
PopularBlocksSpread ==
    \A b \in Blocks, p \in Peers :
        ~enableErasure /\ b \in stored =>
            \/ [](fetched[b] < Threshold) \/ []<>(p \notin connected)
            \/ <>(Whole(b) \in held[p])
            \/ <>[](cycle.stage = "hung" /\ Receiver \in connected)

\* The fragments are spread such that the loss of peers costs no more than the
\* parity: when all pushes of a cycle have arrived, the block can be decoded
\* without any set of its peers whose shares are at most ParityShards in all.
\* Later cycles with other peers in another order do not change that.  With
\* too few peers, one share is already more, and no peer may be lost.
SurvivesPeerLoss ==
    \A b \in Blocks : spread[b] # << >> =>
        LET among == ToSet(spread[b])
            share == (Total + Len(spread[b]) - 1) \div Len(spread[b])
        IN  \A gone \in SUBSET among :
                Cardinality(gone) * share <= ParityShards =>
                    Decodable(b, UNION {held[p] : p \in among \ gone})

=============================================================================
