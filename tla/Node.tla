------------------------------- MODULE Node -------------------------------
(***************************************************************************)
(* The life of a node (internal/node/node.go: Start and Stop; cmd/         *)
(* daemon.go): its key file (internal/transport/host.go), its connections  *)
(* (internal/transport/discovery.go) and its background loops, of which    *)
(* the one that broadcasts cache summaries is modelled in detail.          *)
(*                                                                         *)
(*   "down"      no process; all that is left is peer.key                  *)
(*   "keygen"    a new key was generated; "keyfill": os.WriteFile has      *)
(*               truncated peer.key                                        *)
(*   "host"      the key is known, libp2p.New comes next                   *)
(*   "services"  the host is open, the rest of Start is under way          *)
(*   "up"        Start has returned nil;  "failed": it returned an error   *)
(*               and left the host open                                    *)
(*   "stopping"  Stop has closed path manager and mDNS                     *)
(*   "cancelled" it has cancelled the context                              *)
(*   "closed"    Stop has returned, or Start failed before it had a host   *)
(*                                                                         *)
(* The process may go on after Stop, as one with a cluster of nodes does   *)
(* (testutil/cluster.go): the loops have to end by themselves.             *)
(***************************************************************************)
EXTENDS CacheSummary

CONSTANT NoKey     \* what peer.key is before it is written, and if torn

ASSUME NodeAssumption == NoKey \notin IDs

VARIABLES
    life,
    key,           \* the key in peer.key
    id,            \* Host.ID()
    ctxDone,       \* n.ctx is cancelled
    pusher         \* replicationLoop: "off", "idle" or "push"

\* Auxiliary variables.
VARIABLES
    generated,     \* all keys that were ever generated
    was,           \* the ID with which the node was up the last time
    misread        \* since then, peer.key could not be read although it was whole

nodeVars == <<life, key, id, ctxDone, pusher, generated, was, misread>>
vars == <<summaryVars, nodeVars>>

NodeInit ==
    /\ SummaryInit
    /\ life = "down" /\ key = NoKey /\ id = NoKey
    /\ ctxDone = FALSE /\ pusher = "off"
    /\ generated = {} /\ was = NoKey /\ misread = FALSE

HostOpen == life \in {"services", "up", "failed", "stopping", "cancelled"}

-----------------------------------------------------------------------------
(* Start. *)

LoadKey ==
    /\ life = "down" /\ key # NoKey
    /\ life' = "host" /\ id' = key /\ ctxDone' = FALSE
    /\ UNCHANGED <<summaryVars, key, pusher, generated, was, misread>>

\* There is no key, it is torn, or any error of os.ReadFile.
GenerateKey(k) ==
    /\ life = "down" /\ k \notin generated
    /\ life' = "keygen" /\ id' = k /\ ctxDone' = FALSE
    /\ generated' = generated \cup {k}
    /\ misread' = (misread \/ key # NoKey)
    /\ UNCHANGED <<summaryVars, key, pusher, was>>

OpenKeyFile ==
    /\ life = "keygen"
    /\ life' = "keyfill" /\ key' = NoKey
    /\ UNCHANGED <<summaryVars, id, ctxDone, pusher, generated, was, misread>>

WriteKey ==
    /\ life = "keyfill"
    /\ life' = "host" /\ key' = id
    /\ UNCHANGED <<summaryVars, id, ctxDone, pusher, generated, was, misread>>

\* Mutant of StartFails: the node goes on with a key that it could not write.
StartFailsNotAtKey ==
    /\ life \in {"keygen", "keyfill", "host", "services"}
    /\ life' = CASE life = "services" -> "failed" [] life = "host" -> "closed" [] OTHER -> "host"
    /\ UNCHANGED <<summaryVars, key, id, ctxDone, pusher, generated, was, misread>>

\* Any step of Start may return an error; nothing is closed then.
StartFails ==
    /\ life \in {"keygen", "keyfill", "host", "services"}
    /\ life' = IF life = "services" THEN "failed" ELSE "closed"
    /\ UNCHANGED <<summaryVars, key, id, ctxDone, pusher, generated, was, misread>>

\* libp2p.New; from now on peers can connect.
OpenHost ==
    /\ life = "host"
    /\ life' = "services"
    /\ UNCHANGED <<summaryVars, key, id, ctxDone, pusher, generated, was, misread>>

\* Handlers, DHT, mDNS and path manager are there; the loops are started.
StartLoops ==
    /\ life = "services"
    /\ life' = "up" /\ loop' = "idle" /\ pusher' = "idle"
    /\ was' = id /\ misread' = FALSE
    /\ UNCHANGED <<cached, connected, data, todo, streams, filters, key, id, ctxDone, generated>>

-----------------------------------------------------------------------------
(* A running node. *)

\* A step of the summaries that leaves the rest of the node alone.
Quietly(A) == A /\ UNCHANGED nodeVars

\* Bootstrap peers, mDNS (HandlePeerFound), the DHT and other peers connect.
Connect(p) ==
    /\ HostOpen
    /\ connected' = IF p \in connected THEN connected \ {p} ELSE connected \cup {p}
    /\ UNCHANGED <<cached, loop, data, todo, streams, filters, nodeVars>>

\* replicationLoop: PushBlock has no deadline and ends with the connections.
PushStarts ==
    /\ pusher = "idle" /\ connected # {}
    /\ pusher' = "push"
    /\ UNCHANGED <<summaryVars, life, key, id, ctxDone, generated, was, misread>>

PushEnds ==
    /\ pusher = "push"
    /\ pusher' = "idle"
    /\ UNCHANGED <<summaryVars, life, key, id, ctxDone, generated, was, misread>>

\* The select of a loop finds that the context is cancelled.  When the ticker
\* has fired as well, it may choose that first.
PusherExits ==
    /\ pusher = "idle" /\ ctxDone
    /\ pusher' = "off"
    /\ UNCHANGED <<summaryVars, life, key, id, ctxDone, generated, was, misread>>

LoopExits ==
    /\ loop = "idle" /\ ctxDone
    /\ loop' = "off"
    /\ UNCHANGED <<cached, connected, data, todo, streams, filters, nodeVars>>

-----------------------------------------------------------------------------
(* Stop. *)

StopDiscovery ==
    /\ life = "up"
    /\ life' = "stopping"
    /\ UNCHANGED <<summaryVars, key, id, ctxDone, pusher, generated, was, misread>>

\* Mutant of Cancel: the context is left alone.
CancelForgotten ==
    /\ life = "stopping"
    /\ life' = "cancelled"
    /\ UNCHANGED <<summaryVars, key, id, ctxDone, pusher, generated, was, misread>>

Cancel ==
    /\ life = "stopping"
    /\ life' = "cancelled" /\ ctxDone' = TRUE
    /\ UNCHANGED <<summaryVars, key, id, pusher, generated, was, misread>>

CloseHost ==
    /\ life = "cancelled"
    /\ life' = "closed" /\ connected' = {}
    /\ UNCHANGED <<cached, loop, data, todo, streams, filters>>
    /\ UNCHANGED <<key, id, ctxDone, pusher, generated, was, misread>>

\* The process ends or crashes.  What its peers know of it stays.
Exit ==
    /\ life # "down"
    /\ life' = "down" /\ id' = NoKey
    /\ cached' = {} /\ connected' = {} /\ loop' = "off" /\ data' = NoData /\ todo' = {}
    /\ pusher' = "off"
    /\ UNCHANGED <<streams, filters, key, ctxDone, generated, was, misread>>

-----------------------------------------------------------------------------
Starting ==
    \/ LoadKey \/ (\E k \in IDs : GenerateKey(k)) \/ OpenKeyFile \/ WriteKey
    \/ StartFails \/ OpenHost \/ StartLoops

Stopping == Cancel \/ CloseHost

Broadcasting ==
    \/ Quietly(Tick) \/ Quietly(BroadcastDone)
    \/ \E p \in Peers : loop = "send" /\ Quietly(SendOK(p, id, ~ctxDone) \/ SendFails(p))

Next ==
    \/ Starting \/ StopDiscovery \/ Stopping \/ Exit
    \/ Broadcasting \/ LoopExits \/ PushStarts \/ PushEnds \/ PusherExits
    \/ \E p \in Peers :
           \/ Connect(p)
           \/ Quietly(SendOK(p, id, ~ctxDone)) \/ Quietly(SendFails(p)) \/ Quietly(SendHangs(p, ~ctxDone))
    \/ life = "up" /\ \E c \in CIDs : Quietly(CacheChanges(c))
    \/ \E m \in streams : Quietly(Receive(m)) \/ Quietly(Lose(m))

Spec == NodeInit /\ [][Next]_vars

Messages ==
    [to : Peers, from : IDs, data : {Bytes(Summary(S)) : S \in SUBSET CIDs \ {{}}}]

\* A summary of what is cached now reaches peer p.
ReceiveCurrent(p) ==
    \E m \in streams :
        /\ m.to = p /\ m.from = id /\ m.data = Bytes(Summary(cached))
        /\ Quietly(Receive(m))

\* Stop and the loops run on, except in a write that hangs; a loop that finds
\* its context cancelled again and again exits in the end; a stream to a peer
\* ends, and one of those opened again and again to tell the same thing arrives.
FairSpec ==
    /\ Spec
    /\ WF_vars(Stopping)
    /\ WF_vars(Broadcasting)
    /\ SF_vars(LoopExits) /\ SF_vars(PusherExits)
    /\ WF_vars(connected = {} /\ PushEnds)
    /\ \A p \in Peers :
           /\ WF_vars(loop = p /\ Quietly(SendFails(p)))
           /\ SF_vars(Quietly(SendOK(p, id, ~ctxDone))) /\ SF_vars(ReceiveCurrent(p))
    /\ \A m \in Messages : WF_vars(Quietly(Receive(m)) \/ Quietly(Lose(m)))

-----------------------------------------------------------------------------
(* Correctness. *)

\* A node keeps its peer ID through crashes, failed starts and failed writes
\* of peer.key: once it was up, it comes up with the same ID, unless a key
\* that was whole could not be read, which makes loadOrGenerateKey replace it.
IdentityKept ==
    [][life' = "up" /\ life # "up" /\ was # NoKey /\ ~misread => id' = was]_vars

\* Stop closes the host and ends the loops that Start has started, in a process
\* that goes on, although neither a hung write nor a hung push listens to the
\* context.  (The metrics server, node.go:151, is left running.)
NodeStops ==
    life = "stopping" ~> loop = "off" /\ pusher = "off" /\ ~HostOpen

\* What peer p believes to be cached by the node.
Believed(p) == {c \in CIDs : PeerMayHave(p, id, c)}

\* The cache is one that summaries can tell of.
Announced == cached # {} /\ Fits(Bytes(Summary(cached)))

\* What a connected peer believes of a node that stays up becomes true, when its
\* cache no longer changes: all that is cached, and else only what the filter of
\* just this cache does not tell from it.  Neither summaries of earlier contents
\* and earlier lives that arrive late, nor filters of another size, nor lost
\* summaries prevail.  Three exceptions: a peer that does not read keeps the
\* loop from all others, an empty cache is never announced, and the summary of
\* one too large for the limit is not taken.
SummariesConverge ==
    \A p \in Peers :
        <>[](life = "up" /\ p \in connected /\ Announced) /\ <>[][UNCHANGED cached]_cached =>
            \/ <>[](/\ id # NoKey /\ cached \subseteq Believed(p)
                    /\ \A c \in Believed(p) \ cached : MayContain(Summary(cached), c))
            \/ <>[](loop \in Peers)

=============================================================================
