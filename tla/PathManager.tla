---------------------------- MODULE PathManager ----------------------------
(***************************************************************************)
(* The path manager of one node: the probe loop that measures a direct     *)
(* path and one path per relay to every connected peer, and the path sets  *)
(* it maintains (internal/pathpolicy/manager.go, path.go; the probes are   *)
(* those of internal/protocol/probe.go).                                   *)
(*                                                                         *)
(* One goroutine runs the loop.  It takes a list of the connected peers,   *)
(* a list of the relays among them, and probes one target after another:   *)
(* all paths to the target in parallel, then it waits for every result,    *)
(* and only then records them.  Peers connect, leave, fail and hang        *)
(* meanwhile.  loop says where the goroutine stands:                       *)
(*                                                                         *)
(*   "first"    before the probeAll that does not wait for the ticker      *)
(*   "idle"     in the select of probeLoop                                 *)
(*   "relays"   in probeAll, between the two enumerations of peers         *)
(*   "targets"  in probeAll's loop, between two targets                    *)
(*   "probing"  in SendProbes, waiting for the results                     *)
(*   "record"   in probeTarget, recording result number `next'             *)
(*   "exited"   probeLoop has returned                                     *)
(*                                                                         *)
(* A peer ID is abstracted to what the manager makes of it: itself, and    *)
(* Short, the first eight characters of its printed form, of which path    *)
(* IDs are built.                                                          *)
(***************************************************************************)
EXTENDS PathMetrics, FiniteSets

CONSTANTS
    Peers,             \* the other peers of the network
    RelayCapable,      \* those that announce the relay protocol
    Short(_),          \* p.String()[:8]
    NoRelay,           \* stands for the empty relay chain
    Behaviours,        \* how peers treat an open probe stream: "up", "hung"
    StalePathTimeout,  \* in ticks of the probe interval
    MaxTime            \* bound on the number of ticks

ASSUME PeersAssumption == RelayCapable \subseteq Peers /\ NoRelay \notin Peers
ASSUME PeersFinite == IsFiniteSet(Peers)
ASSUME TimeAssumption == StalePathTimeout \in Nat /\ MaxTime \in Nat \ {0}
\* A rate is a float64 in the code: rounding it must not decide anything.
ASSUME RateAssumption == RateUnit >= 1000
ASSUME BehavioursAssumption == Behaviours \subseteq {"up", "hung"}

VARIABLES
    connected, behaviour,              \* the network
    now,                               \* the clock
    ticker,                            \* its channel: "none" yet, "empty", "full"
    loop, todo, relays, target,        \* probeAll and probeTarget
    results, next,
    pathSets,                          \* Manager.pathSets
    round,                             \* auxiliary: the targets of this round
    stopped                            \* the context is cancelled

network == <<connected, behaviour>>
clock == <<now, ticker>>
locals == <<todo, relays, target, results, next, round>>
vars == <<network, clock, loop, locals, pathSets, stopped>>

\* The i-th probe of a target goes over no relay (i = 1) or over the relay
\* i - 1 of those that are not the target itself, which is listed at most once.
RelaysFor(t) == RemoveFirst(relays, t)

\* Mutant of RelayOf: results are matched with the unfiltered list.
RelayOfUnfiltered(i) == IF i = 1 THEN NoRelay ELSE relays[i - 1]

RelayOf(i) == IF i = 1 THEN NoRelay ELSE RelaysFor(target)[i - 1]

DirectPathID(t) == <<"direct", Short(t)>>
RelayPathID(t, r) == <<"relay", Short(t), Short(r)>>
PathID(t, r) == IF r = NoRelay THEN DirectPathID(t) ELSE RelayPathID(t, r)

\* A path with the auxiliary fields lastSuccess (0 if never), failures, the
\* failed probes since, and measured, the relays whose results it records.
NewPath(t, r) ==
    [Target |-> t, RelayChain |-> r, Metrics |-> NewMetrics,
     lastSuccess |-> 0, failures |-> 0, measured |-> {}]

NoPaths == [id \in {} |-> NewPath(NoRelay, NoRelay)]

Init ==
    /\ connected \in SUBSET Peers
    /\ behaviour \in [Peers -> Behaviours]
    /\ now = 1 /\ ticker = "none"
    /\ loop = "first" /\ todo = {} /\ relays = << >> /\ target = NoRelay
    /\ results = << >> /\ next = 0 /\ round = {}
    /\ pathSets = [t \in Peers |-> NoPaths]
    /\ stopped = FALSE

-----------------------------------------------------------------------------
(* The network, the clock and the shutdown. *)

Connect(p) ==
    /\ connected' = connected \cup {p}
    /\ UNCHANGED <<behaviour, clock, loop, locals, pathSets, stopped>>

Disconnect(p) ==
    /\ connected' = connected \ {p}
    /\ UNCHANGED <<behaviour, clock, loop, locals, pathSets, stopped>>

Behave(p, b) ==
    /\ behaviour' = [behaviour EXCEPT ![p] = b]
    /\ UNCHANGED <<connected, clock, loop, locals, pathSets, stopped>>

\* The ticker's channel holds one tick; a slow round loses the others.
Tick ==
    /\ now < MaxTime
    /\ now' = now + 1
    /\ ticker' = IF ticker = "none" THEN "none" ELSE "full"
    /\ UNCHANGED <<network, loop, locals, pathSets, stopped>>

Stop ==
    /\ stopped' = TRUE
    /\ UNCHANGED <<network, clock, loop, locals, pathSets>>

-----------------------------------------------------------------------------
(* The probe loop. *)

\* probeAll with no connected peer returns at once, and prunes nothing.
StartRound ==
    /\ \/ loop = "first" /\ ticker = "none"
       \/ loop = "idle" /\ ticker = "full"
    /\ \/ /\ connected = {}
          /\ loop' = "idle" /\ ticker' = "empty"
          /\ UNCHANGED <<todo, round>>
       \/ /\ connected # {}
          /\ loop' = "relays" /\ todo' = connected /\ round' = connected
          /\ ticker' = IF loop = "first" THEN "none" ELSE "empty"
    /\ UNCHANGED <<network, now, relays, target, results, next, pathSets, stopped>>

EnumerateRelays ==
    /\ loop = "relays"
    /\ loop' = "targets"
    /\ relays' \in SetToSeqs(connected \cap RelayCapable)
    /\ UNCHANGED <<network, clock, todo, target, results, next, round, pathSets, stopped>>

\* probeTarget starts all its probes at once.
SendProbes(t) ==
    /\ loop = "targets" /\ t \in todo
    /\ loop' = "probing"
    /\ todo' = todo \ {t}
    /\ target' = t
    /\ results' = [i \in 1 .. 1 + Len(RelaysFor(t)) |-> "pending"]
    /\ UNCHANGED <<network, clock, relays, next, round, pathSets, stopped>>

\* The peer that a probe's stream is opened to: the relay if there is one.
StreamTarget(t, r) == IF r = NoRelay THEN t ELSE r

\* The context, with its timeout, bounds the opening of the stream: that may
\* always fail, and cannot succeed once the manager is stopped.
OpenStream(i) ==
    /\ loop = "probing" /\ results[i] = "pending"
    /\ \/ ~stopped /\ results' = [results EXCEPT ![i] = "open"]
       \/ results' = [results EXCEPT ![i] = "error"]
    /\ UNCHANGED <<network, clock, loop, todo, relays, target, next, round, pathSets, stopped>>

\* The read of the echo has no deadline: a peer that took the stream and stays
\* silent keeps the probe waiting, until the connection breaks.  One that is
\* up sends the echo, or resets the stream.
ReadEcho(i) ==
    LET peer == StreamTarget(target, RelayOf(i))
    IN  /\ loop = "probing" /\ results[i] = "open"
        /\ \/ /\ behaviour[peer] = "up"
              /\ results' = [results EXCEPT ![i] = "echo"]
           \/ /\ behaviour[peer] = "up" \/ peer \notin connected
              /\ results' = [results EXCEPT ![i] = "error"]
        /\ UNCHANGED <<network, clock, loop, todo, relays, target, next, round, pathSets, stopped>>

SendProbe(i) == OpenStream(i) \/ ReadEcho(i)

\* Mutant of AllResults: a probe that failed never reports.
AllResultsAnswered ==
    /\ loop = "probing"
    /\ \A i \in DOMAIN results : results[i] = "echo"
    /\ loop' = "record" /\ next' = 1
    /\ UNCHANGED <<network, clock, todo, relays, target, results, round, pathSets, stopped>>

AllResults ==
    /\ loop = "probing"
    /\ \A i \in DOMAIN results : results[i] \in {"echo", "error"}
    /\ loop' = "record" /\ next' = 1
    /\ UNCHANGED <<network, clock, todo, relays, target, results, round, pathSets, stopped>>

\* PathSet.Add: the path takes the place of one with the same ID.
Add(ps, id, path) == [i \in DOMAIN ps \cup {id} |-> IF i = id THEN path ELSE ps[i]]

\* The path is looked up by its ID, made if it is not there, and stored again.
Recorded(path, r, success) ==
    LET m == IF success THEN [path.Metrics EXCEPT !.HopCount = 1] ELSE path.Metrics
    IN  [path EXCEPT !.Metrics = RecordProbe(m, 1, success, now),
                     !.lastSuccess = IF success THEN now ELSE @,
                     !.failures = IF success THEN 0 ELSE @ + 1,
                     !.measured = @ \cup {r}]

RecordResult ==
    LET r    == RelayOf(next)
        id   == PathID(target, r)
        ps   == pathSets[target]
        path == IF id \in DOMAIN ps THEN ps[id] ELSE NewPath(target, r)
    IN  /\ loop = "record" /\ next <= Len(results)
        /\ pathSets' = [pathSets EXCEPT ![target] =
                           Add(ps, id, Recorded(path, r, results[next] = "echo"))]
        /\ next' = next + 1
        /\ UNCHANGED <<network, clock, loop, todo, relays, target, results, round, stopped>>

\* Mutant of TargetDone: the loop over the results ends before the last.
TargetDoneOneShort ==
    /\ loop = "record" /\ next >= Len(results)
    /\ loop' = "targets"
    /\ target' = NoRelay /\ results' = << >> /\ next' = 0
    /\ UNCHANGED <<network, clock, todo, relays, round, pathSets, stopped>>

TargetDone ==
    /\ loop = "record" /\ next > Len(results)
    /\ loop' = "targets"
    /\ target' = NoRelay /\ results' = << >> /\ next' = 0
    /\ UNCHANGED <<network, clock, todo, relays, round, pathSets, stopped>>

\* Mutant of Stale: a low success rate is enough.
StaleByRate(path) ==
    /\ path.Metrics.SampleCount > 0
    /\ RateBelowTenth(path.Metrics)

Stale(path) ==
    /\ path.Metrics.SampleCount > 0
    /\ RateBelowTenth(path.Metrics)
    /\ now - path.Metrics.LastProbed > StalePathTimeout

\* pruneStalePaths over the path sets of all targets, the end of probeAll.
PruneStalePaths ==
    /\ loop = "targets" /\ todo = {}
    /\ loop' = "idle" /\ relays' = << >> /\ round' = {}
    /\ pathSets' = [t \in Peers |->
                       LET keep == {id \in DOMAIN pathSets[t] : ~Stale(pathSets[t][id])}
                       IN  [id \in keep |-> pathSets[t][id]]]
    /\ ticker' = IF ticker = "none" THEN "empty" ELSE ticker
    /\ UNCHANGED <<network, now, todo, target, results, next, stopped>>

\* Mutant of ExitLoop: the context is looked at only when the ticker fires.
ExitLoopOnTick ==
    /\ loop = "idle" /\ stopped /\ ticker = "full"
    /\ loop' = "exited"
    /\ UNCHANGED <<network, clock, locals, pathSets, stopped>>

ExitLoop ==
    /\ loop = "idle" /\ stopped
    /\ loop' = "exited"
    /\ UNCHANGED <<network, clock, locals, pathSets, stopped>>

LoopStep ==
    \/ StartRound \/ EnumerateRelays \/ AllResults \/ RecordResult \/ TargetDone
    \/ PruneStalePaths \/ ExitLoop
    \/ \E t \in Peers : SendProbes(t)

Next ==
    \/ LoopStep
    \/ \E i \in DOMAIN results : SendProbe(i)
    \/ \E p \in Peers : Connect(p) \/ Disconnect(p)
    \/ \E p \in Peers, b \in Behaviours : Behave(p, b)
    \/ Tick \/ Stop

Spec == Init /\ [][Next]_vars

\* The loop and the probe goroutines are scheduled, and a peer that does not
\* hang answers or fails in the end.  A hung peer need never do anything.
FairSpec ==
    /\ Spec
    /\ WF_vars(LoopStep)
    /\ \A i \in 1 .. 1 + Cardinality(Peers) :
           WF_vars(i \in DOMAIN results /\ SendProbe(i))

-----------------------------------------------------------------------------
(* Correctness. *)

Paths(t) == {pathSets[t][id] : id \in DOMAIN pathSets[t]}

\* The values of the variables.
TypeOK ==
    /\ connected \in SUBSET Peers /\ behaviour \in [Peers -> Behaviours]
    /\ now \in 1 .. MaxTime /\ ticker \in {"none", "empty", "full"}
    /\ loop \in {"first", "idle", "relays", "targets", "probing", "record", "exited"}
    /\ todo \in SUBSET Peers /\ relays \in Seq(RelayCapable)
    /\ target \in Peers \cup {NoRelay}
    /\ \A i \in DOMAIN results : results[i] \in {"pending", "open", "echo", "error"}
    /\ next \in 0 .. Len(results) + 1
    /\ \A t \in Peers : \A path \in Paths(t) :
           /\ path.Metrics.SuccessRate \in 0 .. RateUnit
           /\ path.Metrics.LastProbed \in 1 .. now

\* A path's metrics were measured by probes of its target that have its ID, that
\* of its own relay among them: results of the direct path and of relayed ones
\* stay apart, and no target is its own relay.  Relays whose IDs begin alike
\* share a path, whose metrics are those of all of them.
OwnMetrics ==
    \A t \in Peers : \A id \in DOMAIN pathSets[t] :
        LET path == pathSets[t][id]
        IN  /\ path.Target = t /\ path.RelayChain \in path.measured
            /\ \A r \in path.measured : r # t /\ PathID(t, r) = id

\* No relay's results are lost: when a round ends, every target has a path under
\* the ID of each of its probes, the direct one and those over every relay, that
\* has taken in results of this very probe, although peers come and go and
\* paths with the same ID take each other's place.
EveryResultRecorded ==
    loop = "targets" /\ todo = {} =>
        \A t \in round :
            \A r \in {NoRelay} \cup (ToSet(relays) \ {t}) :
                /\ PathID(t, r) \in DOMAIN pathSets[t]
                /\ r \in pathSets[t][PathID(t, r)].measured

\* "Relay paths (one per relay peer)" (manager.go:273): when a round ends,
\* every target it probed has its direct path and a path over every relay.
OnePathPerRelay ==
    loop = "targets" /\ todo = {} =>
        \A t \in round :
            \A r \in {NoRelay} \cup (ToSet(relays) \ {t}) :
                \E path \in Paths(t) : path.RelayChain = r

\* The 0.1 limit of pruneStalePaths tells live paths from dead ones: a path
\* that ever answered is below it only after four failures in a row, and seven
\* failures in a row put every path below it.
RateTellsDeadFromLive ==
    \A t \in Peers : \A path \in Paths(t) :
        /\ path.lastSuccess # 0 /\ RateBelowTenth(path.Metrics) => path.failures >= 4
        /\ path.failures >= 7 => RateBelowTenth(path.Metrics)

\* Pruning never drops a path that answered within StalePathTimeout, although
\* a few failed probes in a row give it a success rate below 0.1, and although
\* the times compared are those of probes, not of answers.
PruneKeepsLivePaths ==
    [][\A t \in Peers : \A id \in DOMAIN pathSets[t] \ DOMAIN pathSets'[t] :
           \/ pathSets[t][id].lastSuccess = 0
           \/ now - pathSets[t][id].lastSuccess > StalePathTimeout]_vars

\* A round that has begun ends if from some time on no peer hangs, although
\* SendProbes waits for every probe and peers leave while they are probed.
RoundEnds ==
    <>[](\A p \in Peers : behaviour[p] = "up") =>
        ((loop \notin {"idle", "exited"}) ~> (loop \in {"idle", "exited"}))

\* Once stopped, the probe loop returns, under the same condition: Stop cancels
\* the context, which does not end the read of an echo.
StopEndsLoop ==
    <>[](\A p \in Peers : behaviour[p] = "up") => (stopped ~> (loop = "exited"))

=============================================================================
