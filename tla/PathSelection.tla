--------------------------- MODULE PathSelection ---------------------------
(***************************************************************************)
(* Choosing among the paths to a peer (internal/pathpolicy/policy.go,      *)
(* BestPath and DisjointPaths of manager.go, PathSet.Best of path.go) and  *)
(* among the providers of a block (internal/node/api.go).                  *)
(*                                                                         *)
(* BestPath is called by the goroutines of a fetch, several at a time,     *)
(* while the probe loop writes to the metrics.  Nothing orders these:      *)
(* RecordProbe writes field by field to a record that Score reads, and the *)
(* policies that learn keep counters and maps without a lock.  An access   *)
(* to a Go map during a write to it may end the process; otherwise an      *)
(* increment may be lost.                                                  *)
(*                                                                         *)
(* Scores are fractions <<numerator, denominator>>.  What UCB1, Thompson   *)
(* sampling and LinUCB compute is any preference among the paths: kept of  *)
(* their state is what decides whether they explore, and whether they work *)
(* at all.  A node has one policy for all its targets, whose maps have the *)
(* IDs of paths as keys: paths to different targets may have the same.     *)
(***************************************************************************)
EXTENDS PathMetrics, FiniteSets

CONSTANTS
    Paths,       \* the paths to all targets
    Target(_),   \* the target of a path
    Relay(_),    \* the relay of a path
    ID(_),       \* PathID: the first eight characters of target and relay
    RTTs,        \* milliseconds
    InvLog,      \* 1 / (1 + log1p(ms)), in thousandths, for 1, 2, ... ms
    Policies,    \* the policies this node may be configured with
    Callers,     \* goroutines that call BestPath
    MaxProbes,   \* bound on the probes of all paths together
    MaxCalls,    \* bound on the calls of a goroutine
    Nil

IDs == {ID(p) : p \in Paths}
Targets == {Target(p) : p \in Paths}
Plain == {"latency", "hop-count", "reliability", "balanced", "random"}

ASSUME SelectionAssumption ==
    /\ RTTs \subseteq Nat \ {0} /\ MaxProbes \in Nat /\ MaxCalls \in Nat
    /\ InvLog \in Seq(Nat) \ {<< >>} /\ \A x, y \in DOMAIN InvLog : x < y => InvLog[x] > InvLog[y]
    /\ Nil \notin Paths /\ IsFiniteSet(Paths)
    /\ \A p, q \in Paths : Target(p) = Target(q) /\ ID(p) = ID(q) => p = q
    /\ Policies \subseteq Plain \cup
           {"epsilon-greedy", "decaying-epsilon", "ucb1", "thompson", "contextual"}

VARIABLES
    policy,
    known, metrics,            \* the paths in the path sets, and their metrics
    recording,                 \* the path and the rate RecordProbe has yet to write
    selections,                \* d.selections, u.totalSelections
    pathSelections,            \* UCB1
    tried,                     \* auxiliary: the paths that UCB1 has selected
    first, second,             \* keys of alpha and beta, of pathA and pathB
    call,                      \* each goroutine's call of BestPath
    calls,
    crashed,
    overlapped                 \* auxiliary: two calls overlapped

learning == <<selections, pathSelections, tried, first, second>>
pathset == <<known, metrics, recording>>
vars == <<policy, pathset, learning, call, calls, crashed, overlapped>>

NotRecording == <<Nil, 0>>
NoScore == <<-1, 1>>

\* answering is auxiliary: the paths that had answered when the call began.
NoCall == [pc |-> "idle", paths |-> << >>, k |-> 1, best |-> Nil, bestScore |-> NoScore,
           tmp |-> 0, answering |-> {}]

Init ==
    /\ policy \in Policies
    /\ known = {} /\ metrics = [p \in Paths |-> NewMetrics] /\ recording = NotRecording
    /\ selections = 0 /\ pathSelections = [i \in IDs |-> 0]
    /\ tried = {} /\ first = {} /\ second = {}
    /\ call = [g \in Callers |-> NoCall] /\ calls = [g \in Callers |-> 0]
    /\ crashed = FALSE
    /\ overlapped = FALSE

Active(g) == call[g].pc \notin {"idle", "done"}

-----------------------------------------------------------------------------
(* The scores. *)

Greater(s, t) == s[1] * t[2] > t[1] * s[2]

\* Mutant of LatencyScore: a path without a round-trip time is infinitely fast.
LatencyScoreUnguarded(m) == <<1, AvgRTT(m)>>

LatencyScore(m) == IF AvgRTT(m) = 0 THEN <<0, 1>> ELSE <<1, AvgRTT(m)>>

HopCountScore(m) == <<1, m.HopCount + 1>>

ReliabilityScore(m) == <<m.SuccessRate, RateUnit>>

\* Times beyond the table count as its last.
Logarithmic(ms) == InvLog[Min({ms, Len(InvLog)})]

\* Weights of 35, 25, 25 and 15 hundredths on terms in thousandths; the unit of
\* the sum, 1/100000, is left out.
BalancedScore(m) ==
    LET latency == IF AvgRTT(m) = 0 THEN 0 ELSE Logarithmic(AvgRTT(m))
        jitter  == IF Jitter(m) = 0 THEN 1000 ELSE Logarithmic(Jitter(m))
    IN  << 35 * latency + 25 * ((1000 * m.SuccessRate) \div RateUnit)
             + 25 * (1000 \div (m.HopCount + 1)) + 15 * jitter, 1 >>

\* The score of a policy, or of its delegate, which is the balanced policy;
\* the random policy has any.
Scores(m) ==
    CASE m.SampleCount = 0       -> {<<0, 1>>}
      [] policy = "latency"      -> {LatencyScore(m)}
      [] policy = "hop-count"    -> {HopCountScore(m)}
      [] policy = "reliability"  -> {ReliabilityScore(m)}
      [] policy = "random"       -> {<<0, 1>>, <<1, 2>>}
      [] OTHER                   -> {BalancedScore(m)}

-----------------------------------------------------------------------------
(* Rankings: DisjointPaths, sortProvidersByPathQuality, boostCachedProviders. *)

\* One round of the insertion sort: x moves to the front past lower scores.
InsertByScore(done, x, score) ==
    LET stop == {i \in DOMAIN done : ~Greater(score[x], score[done[i]])}
    IN  InsertAt(done, Cardinality(stop) + 1, x)

SortByScore(seq, score) ==
    FoldLeft(LAMBDA done, x : InsertByScore(done, x, score), << >>, seq)

PolicyScore(p) == CHOOSE s \in Scores(metrics[p]) : TRUE

\* The paths of seq, one after the other, that share no relay with one taken
\* before; a direct path has none to share.
TakeDisjoint(seq, n) ==
    LET Clash(p, q) == Relay(p) # Nil /\ Relay(p) = Relay(q)
        Take(taken, p) == IF Len(taken) >= n \/ \E q \in ToSet(taken) : Clash(p, q)
                          THEN taken ELSE Append(taken, p)
    IN  FoldLeft(Take, << >>, seq)

\* Mutant of DisjointPaths: the paths are not sorted.
DisjointPathsUnsorted(order, n) == TakeDisjoint(order, n)

\* Up to n paths, the highest scores first, that share no relay.
DisjointPaths(order, n) ==
    TakeDisjoint(SortByScore(order, [p \in ToSet(order) |-> PolicyScore(p)]), n)

\* A provider's score: the success rate of its best path, over the round-trip
\* time if there is one, and -1 without a path.  A provider stands for the path
\* that BestPath returned for it.
ProviderScore(p) ==
    LET m == metrics[p]
    IN  CASE p \notin known      -> NoScore
          [] AvgRTT(m) = 0       -> <<m.SuccessRate, RateUnit>>
          [] OTHER               -> <<1000 * m.SuccessRate, RateUnit * AvgRTT(m)>>

\* Mutant of SortProviders: the loop ends before the last provider.
SortProvidersOneShort(providers) ==
    Append(SortByScore(Front(providers), [p \in Paths |-> ProviderScore(p)]), Last(providers))

SortProviders(providers) ==
    SortByScore(providers, [p \in ToSet(providers) |-> ProviderScore(p)])

\* The members of S, in their order.
Only(seq, S) == FoldLeft(LAMBDA done, p : IF p \in S THEN Append(done, p) ELSE done, << >>, seq)

\* The providers whose Bloom filters may contain the block come first.
BoostCached(providers, mayHave) ==
    Only(providers, mayHave) \o Only(providers, ToSet(providers) \ mayHave)

-----------------------------------------------------------------------------
(* The probe loop. *)

Probes == SumFunction([p \in Paths |-> metrics[p].SampleCount])

Result(p, rtt) ==
    LET m == metrics[p]
    IN  RecordProbe(IF rtt > 0 THEN [m EXCEPT !.HopCount = 1] ELSE m, rtt, rtt > 0, 0)

\* A new path is added when its first result has been recorded.
AddPath(p, rtt) ==
    /\ p \notin known /\ Probes < MaxProbes
    /\ known' = known \cup {p}
    /\ metrics' = [metrics EXCEPT ![p] = Result(p, rtt)]
    /\ UNCHANGED <<policy, recording, learning, call, calls, crashed, overlapped>>

\* For a path of the set, the success rate is written last.  An rtt of 0 stands
\* for a probe that failed.
RecordSample(p, rtt) ==
    /\ p \in known /\ Probes < MaxProbes /\ recording = NotRecording
    /\ recording' = <<p, Result(p, rtt).SuccessRate>>
    /\ metrics' = [metrics EXCEPT ![p] = [Result(p, rtt) EXCEPT !.SuccessRate = metrics[p].SuccessRate]]
    /\ UNCHANGED <<policy, known, learning, call, calls, crashed, overlapped>>

RecordRate ==
    /\ recording # NotRecording
    /\ metrics' = [metrics EXCEPT ![recording[1]].SuccessRate = recording[2]]
    /\ recording' = NotRecording
    /\ UNCHANGED <<policy, known, learning, call, calls, crashed, overlapped>>

-----------------------------------------------------------------------------
(* BestPath. *)

At(g, pc) == call[g].pc = pc
Become(g, c) == call' = [call EXCEPT ![g] = c]
Goto(g, pc) == Become(g, [call[g] EXCEPT !.pc = pc])
Return(g, p) ==
    Become(g, [NoCall EXCEPT !.pc = "done", !.best = p])

Start == CASE policy \in Plain                       -> "scan"
           [] policy = "epsilon-greedy"              -> "choose"
           [] policy \in {"decaying-epsilon", "ucb1"} -> "count"
           [] policy \in {"thompson", "contextual"}  -> "prior"

PathSet(t) == {p \in known : Target(p) = t}
Viable(t) == {p \in PathSet(t) : metrics[p].SampleCount > 0}

\* The paths to target t are listed in any order.  Every path of a set has a
\* sample; the code's answer to a set without one would be its first path.
Begin(g, t) ==
    /\ ~Active(g) /\ calls[g] < MaxCalls
    /\ calls' = [calls EXCEPT ![g] = @ + 1]
    /\ overlapped' = (overlapped \/ \E h \in Callers : Active(h))
    /\ \/ PathSet(t) = {} /\ Become(g, [NoCall EXCEPT !.pc = "done"])
       \/ PathSet(t) # {} /\ \E order \in SetToSeqs(Viable(t)) :
              Become(g, [NoCall EXCEPT
                  !.pc = Start, !.paths = order,
                  !.answering = {p \in PathSet(t) : metrics[p].rttSamples # << >>} \ {recording[1]}])
    /\ UNCHANGED <<policy, pathset, learning, crashed>>

Better(s, c) == Greater(s, c.bestScore)

\* One path of the loop over them: the first of the highest score wins.
Scan(g) ==
    LET c == call[g]
        p == c.paths[c.k]
    IN  /\ At(g, "scan")
        /\ \E s \in Scores(metrics[p]) :
               LET best == IF Better(s, c) THEN p ELSE c.best
                   top  == IF Better(s, c) THEN s ELSE c.bestScore
               IN  IF c.k = Len(c.paths)
                   THEN Return(g, best)
                   ELSE Become(g, [c EXCEPT !.k = c.k + 1, !.best = best, !.bestScore = top])
        /\ UNCHANGED <<policy, pathset, learning, calls, crashed, overlapped>>

\* The counter of selections is read and then written.
ReadSelections(g) ==
    /\ At(g, "count")
    /\ Become(g, [call[g] EXCEPT !.pc = "counted", !.tmp = selections])
    /\ UNCHANGED <<policy, pathset, learning, calls, crashed, overlapped>>

WriteSelections(g) ==
    /\ At(g, "counted")
    /\ selections' = call[g].tmp + 1
    /\ Goto(g, IF policy = "ucb1" THEN "untried" ELSE "choose")
    /\ UNCHANGED <<policy, pathset, pathSelections, tried, first, second, calls, crashed, overlapped>>

\* With more than one path, any of them with probability epsilon.
Choose(g) ==
    /\ At(g, "choose")
    /\ \/ /\ Len(call[g].paths) > 1
          /\ \E p \in ToSet(call[g].paths) : Return(g, p)
       \/ Goto(g, "scan")
    /\ UNCHANGED <<policy, pathset, learning, calls, crashed, overlapped>>

-----------------------------------------------------------------------------
(* UCB1. *)

\* The first path under whose ID nothing was ever selected; if there is none,
\* that of the highest bound, which is any.
LookForUntried(g) ==
    LET c == call[g]
        untried == {i \in DOMAIN c.paths : pathSelections[ID(c.paths[i])] = 0}
    IN  /\ At(g, "untried")
        /\ \/ /\ untried # {}
              /\ Become(g, [c EXCEPT !.pc = "claim", !.best = c.paths[Min(untried)]])
           \/ /\ untried = {}
              /\ \E p \in ToSet(c.paths) : Become(g, [c EXCEPT !.pc = "bump", !.best = p])
        /\ UNCHANGED <<policy, pathset, learning, calls, crashed, overlapped>>

Claim(g) ==
    /\ At(g, "claim")
    /\ pathSelections' = [pathSelections EXCEPT ![ID(call[g].best)] = 1]
    /\ tried' = tried \cup {call[g].best}
    /\ Return(g, call[g].best)
    /\ UNCHANGED <<policy, pathset, selections, first, second, calls, crashed, overlapped>>

ReadCount(g) ==
    /\ At(g, "bump")
    /\ Become(g, [call[g] EXCEPT !.pc = "bumped", !.tmp = pathSelections[ID(call[g].best)]])
    /\ UNCHANGED <<policy, pathset, learning, calls, crashed, overlapped>>

WriteCount(g) ==
    /\ At(g, "bumped")
    /\ pathSelections' = [pathSelections EXCEPT ![ID(call[g].best)] = call[g].tmp + 1]
    /\ tried' = tried \cup {call[g].best}
    /\ Return(g, call[g].best)
    /\ UNCHANGED <<policy, pathset, selections, first, second, calls, crashed, overlapped>>

-----------------------------------------------------------------------------
(* Thompson sampling and LinUCB keep two maps and look for a path in the     *)
(* first only: alpha before beta, pathA before pathB.                        *)

NextPrior(g) ==
    LET c == call[g]
    IN  Become(g, IF c.k < Len(c.paths) THEN [c EXCEPT !.pc = "prior", !.k = c.k + 1]
                                        ELSE [c EXCEPT !.pc = "pick"])

\* LinUCB uses both maps for each path in turn, Thompson sampling afterwards.
FirstPrior(g) ==
    LET id == ID(call[g].paths[call[g].k])
    IN  /\ At(g, "prior")
        /\ \/ /\ id \notin first
              /\ first' = first \cup {id} /\ Goto(g, "prior2") /\ UNCHANGED crashed
           \/ /\ id \in first /\ (policy = "thompson" \/ id \in second)
              /\ NextPrior(g) /\ UNCHANGED <<first, crashed>>
           \/ /\ id \in first /\ policy = "contextual" /\ id \notin second
              /\ crashed' = TRUE /\ UNCHANGED <<call, first>>
        /\ UNCHANGED <<policy, pathset, selections, pathSelections, tried, second, calls, overlapped>>

\* Mutant of SecondPrior: the second map gets its entry for a lone path only.
SecondPriorForgotten(g) ==
    /\ At(g, "prior2")
    /\ second' = IF Len(call[g].paths) > 1 THEN second ELSE second \cup {ID(call[g].paths[call[g].k])}
    /\ NextPrior(g)
    /\ UNCHANGED <<policy, pathset, selections, pathSelections, tried, first, calls, crashed, overlapped>>

SecondPrior(g) ==
    /\ At(g, "prior2")
    /\ second' = second \cup {ID(call[g].paths[call[g].k])}
    /\ NextPrior(g)
    /\ UNCHANGED <<policy, pathset, selections, pathSelections, tried, first, calls, crashed, overlapped>>

\* A Beta distribution without its second parameter, 0, panics.
Pick(g) ==
    /\ At(g, "pick")
    /\ IF \A p \in ToSet(call[g].paths) : ID(p) \in second
       THEN /\ \E p \in ToSet(call[g].paths) : Become(g, [call[g] EXCEPT !.pc = "update", !.best = p])
            /\ UNCHANGED crashed
       ELSE crashed' = TRUE /\ UNCHANGED call
    /\ UNCHANGED <<policy, pathset, learning, calls, overlapped>>

\* The reward goes into the entries of the path, which are there.
Update(g) ==
    /\ At(g, "update")
    /\ Return(g, call[g].best)
    /\ UNCHANGED <<policy, pathset, learning, calls, crashed, overlapped>>

\* The steps that read or write a map, and those of them that write.
AccessesMap(g) ==
    call[g].pc \in {"untried", "claim", "bump", "bumped", "prior", "prior2", "pick", "update"}
WritesMap(g) ==
    \/ call[g].pc \in {"claim", "bumped", "prior2"}
    \/ At(g, "prior") /\ ID(call[g].paths[call[g].k]) \notin first
    \/ At(g, "update") /\ policy = "thompson"

\* The Go runtime may notice an access during a write, and ends the process.
MapFault(g) ==
    /\ WritesMap(g) /\ \E h \in Callers \ {g} : AccessesMap(h)
    /\ crashed' = TRUE
    /\ UNCHANGED <<policy, pathset, learning, call, calls, overlapped>>

-----------------------------------------------------------------------------

CallStep(g) ==
    \/ \E t \in Targets : Begin(g, t)
    \/ Scan(g) \/ ReadSelections(g) \/ WriteSelections(g) \/ Choose(g)
    \/ LookForUntried(g) \/ Claim(g) \/ ReadCount(g) \/ WriteCount(g)
    \/ FirstPrior(g) \/ SecondPrior(g) \/ Pick(g) \/ Update(g) \/ MapFault(g)

ProbeStep ==
    \/ \E p \in Paths, rtt \in RTTs \cup {0} : AddPath(p, rtt) \/ RecordSample(p, rtt)
    \/ RecordRate

Next == ~crashed /\ (ProbeStep \/ \E g \in Callers : CallStep(g))

Spec == Init /\ [][Next]_vars

-----------------------------------------------------------------------------
(* Correctness. *)

TypeOK ==
    /\ policy \in Policies /\ known \subseteq Paths
    /\ \A p \in Paths : metrics[p].SuccessRate \in 0 .. RateUnit
    /\ recording[1] \in known \cup {Nil} /\ recording[2] \in 0 .. RateUnit
    /\ selections \in Nat /\ pathSelections \in [IDs -> Nat]
    /\ tried \subseteq known
    /\ first \subseteq {ID(p) : p \in known} /\ second \subseteq first
    /\ \A g \in Callers : call[g].best \in Paths \cup {Nil} /\ calls[g] \in 0 .. MaxCalls
    /\ crashed \in BOOLEAN /\ overlapped \in BOOLEAN

Returns(g) == call[g].pc # "done" /\ call'[g].pc = "done"

\* A path that never answered a probe is not preferred, by latency or by
\* reliability, to one that had answered when the call began, although probes
\* are being recorded while the scores are computed.
SilentPathLoses ==
    [][\A g \in Callers :
           Returns(g) /\ policy \in {"latency", "reliability"} /\ call[g].answering # {} =>
               metrics[call'[g].best].rttSamples # << >>]_vars

\* "First, select any path that hasn't been tried yet" (policy.go:341): UCB1
\* selects no path again as long as one of those it looks at was never selected.
UntriedFirst ==
    \A g \in Callers :
        call[g].pc \in {"bump", "bumped"} /\ call[g].best \in tried =>
            ToSet(call[g].paths) \subseteq tried

\* One caller at a time never brings the process down: a crash needs two calls
\* that overlapped.
CrashNeedsOverlap == crashed => overlapped

\* The providers are reordered, none lost: those that may have the block cached
\* first; within each group higher scores first; and otherwise in the order in
\* which they were found.
RankingIsStable ==
    (\A g \in Callers : calls[g] = 0) =>
        \A found \in SetToSeqs(Paths), mayHave \in SUBSET Paths :
            LET ranked == BoostCached(SortProviders(found), mayHave)
                Before(p, q, seq) == \E i, j \in DOMAIN seq : i < j /\ seq[i] = p /\ seq[j] = q
            IN  /\ Len(ranked) = Len(found) /\ ToSet(ranked) = Paths
                /\ \A p, q \in Paths : p # q =>
                       (Before(p, q, ranked) <=>
                           \/ p \in mayHave /\ q \notin mayHave
                           \/ /\ (p \in mayHave) = (q \in mayHave)
                              /\ \/ Greater(ProviderScore(p), ProviderScore(q))
                                 \/ /\ ~Greater(ProviderScore(q), ProviderScore(p))
                                    /\ Before(p, q, found))

\* DisjointPaths: at most n paths, no relay twice, the highest scores first, and
\* a path is left out only for a better one that uses its relay or when n better
\* ones are there.
DisjointPathsAreBest ==
    (\A g \in Callers : calls[g] = 0) =>
        \A t \in Targets : \A order \in SetToSeqs(Viable(t)), n \in 0 .. Cardinality(Paths) :
            LET selected == DisjointPaths(order, n)
                Free(p, q) == Relay(p) = Nil \/ Relay(p) # Relay(q)
            IN  /\ Len(selected) <= n
                /\ \A i, j \in DOMAIN selected : i < j =>
                       /\ Free(selected[i], selected[j])
                       /\ ~Greater(PolicyScore(selected[j]), PolicyScore(selected[i]))
                /\ \A p \in Viable(t) \ ToSet(selected) :
                       LET better == {q \in ToSet(selected) : ~Greater(PolicyScore(p), PolicyScore(q))}
                       IN  Cardinality(better) = n \/ \E q \in better : ~Free(p, q)

=============================================================================
