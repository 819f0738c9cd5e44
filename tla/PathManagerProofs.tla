------------------------- MODULE PathManagerProofs -------------------------
(***************************************************************************)
(* The path manager, for every set of peers and every history of probes.   *)
(*                                                                         *)
(* What pruneStalePaths decides from, a rate and the time of the last      *)
(* probe, is related to what the path did, its last answer and the probes  *)
(* that failed since, by an invariant on every path of every path set:     *)
(* PathOK.  The rate is bounded from both sides by the number of failures  *)
(* in a row, in integer arithmetic and with its rounding (RateBounds).     *)
(*                                                                         *)
(* Which results a path has, and that none is missing at the end of a      *)
(* round, holds however many peers share the first eight characters of     *)
(* their IDs: OwnMetrics is inductive, and RoundInv follows the results of *)
(* a round, one target after the other, into their paths.                  *)
(***************************************************************************)
EXTENDS PathManager, FiniteSetTheorems, TLAPS

-----------------------------------------------------------------------------
(* The moving average. *)

\* What f failures in a row leave of a rate of s: two of them at most half.
\* If the path ever answered, three leave a tenth, the limit of Stale.
RateBounds(s, f, answered) ==
    /\ f >= 1 => 10 * s <= 7 * RateUnit + 5
    /\ f >= 2 => 2 * s <= RateUnit
    /\ f >= 3 => 20 * s <= 7 * RateUnit + 10
    /\ f >= 4 => 4 * s <= RateUnit
    /\ f >= 5 => 40 * s <= 7 * RateUnit + 20
    /\ f >= 6 => 8 * s <= RateUnit
    /\ f >= 7 => 80 * s <= 7 * RateUnit + 40
    /\ answered => /\ f = 0 => 10 * s >= 3 * RateUnit - 4
                   /\ f = 1 => 100 * s >= 21 * RateUnit - 68
                   /\ f = 2 => 1000 * s >= 147 * RateUnit - 876
                   /\ f = 3 => 10000 * s >= 1029 * RateUnit - 10132

\* A failed probe.
LEMMA FailedProbeRate ==
    ASSUME NEW s \in 0 .. RateUnit, NEW f \in Nat, NEW answered \in BOOLEAN,
           RateBounds(s, f, answered)
    PROVE  /\ (7 * s + 5) \div 10 \in 0 .. RateUnit
           /\ RateBounds((7 * s + 5) \div 10, f + 1, answered)
<1> DEFINE q == (7 * s + 5) \div 10
<1>1. RateUnit \in Nat /\ s \in Nat /\ s <= RateUnit
  BY MetricsAssumption
<1>2. q \in Nat /\ 10 * q <= 7 * s + 5 /\ 7 * s <= 10 * q + 4
  BY <1>1
<1> HIDE DEF q
<1>3. q \in 0 .. RateUnit
  BY <1>1, <1>2
<1>4. /\ f + 1 >= 1 => 10 * q <= 7 * RateUnit + 5
      /\ f + 1 >= 2 => 2 * q <= RateUnit
      /\ f + 1 >= 3 => 20 * q <= 7 * RateUnit + 10
      /\ f + 1 >= 4 => 4 * q <= RateUnit
      /\ f + 1 >= 5 => 40 * q <= 7 * RateUnit + 20
      /\ f + 1 >= 6 => 8 * q <= RateUnit
      /\ f + 1 >= 7 => 80 * q <= 7 * RateUnit + 40
  BY <1>1, <1>2, RateAssumption DEF RateBounds
<1>5. ASSUME answered
      PROVE  /\ f + 1 # 0
             /\ f + 1 = 1 => 100 * q >= 21 * RateUnit - 68
             /\ f + 1 = 2 => 1000 * q >= 147 * RateUnit - 876
             /\ f + 1 = 3 => 10000 * q >= 1029 * RateUnit - 10132
  BY <1>1, <1>2, <1>5 DEF RateBounds
<1>6. RateBounds(q, f + 1, answered)
  BY <1>4, <1>5 DEF RateBounds
<1> QED BY <1>3, <1>6 DEF q

\* A probe that was answered.
LEMMA AnsweredProbeRate ==
    ASSUME NEW s \in 0 .. RateUnit
    PROVE  /\ (3 * RateUnit + 7 * s + 5) \div 10 \in 0 .. RateUnit
           /\ RateBounds((3 * RateUnit + 7 * s + 5) \div 10, 0, TRUE)
<1> DEFINE q == (3 * RateUnit + 7 * s + 5) \div 10
<1>1. RateUnit \in Nat /\ s \in Nat /\ s <= RateUnit
  BY MetricsAssumption
<1>2. q \in Nat /\ 10 * q <= 3 * RateUnit + 7 * s + 5 /\ 3 * RateUnit + 7 * s <= 10 * q + 4
  BY <1>1
<1> HIDE DEF q
<1>3. q \in 0 .. RateUnit
  BY <1>1, <1>2
<1>4. RateBounds(q, 0, TRUE)
  BY <1>1, <1>2 DEF RateBounds
<1> QED BY <1>3, <1>4 DEF q

\* The first probe of a path starts the average.
LEMMA FirstProbeRate == RateBounds(RateUnit, 0, TRUE) /\ RateBounds(0, 1, FALSE)
<1>1. RateUnit \in Nat
  BY MetricsAssumption
<1> QED BY <1>1 DEF RateBounds

-----------------------------------------------------------------------------
(* The record of a path. *)

Measured ==
    [rttSamples : Seq(Nat), HopCount : Nat, SuccessRate : 0 .. RateUnit, LastProbed : Nat,
     SampleCount : Nat]

PathRecord ==
    [Target : Peers, RelayChain : Peers \cup {NoRelay}, Metrics : Measured,
     lastSuccess : Nat, failures : Nat, measured : SUBSET (Peers \cup {NoRelay})]

\* A path of a path set at time n.
PathOK(path, n) ==
    /\ path \in PathRecord
    /\ path.Metrics.SampleCount >= 1
    /\ path.Metrics.LastProbed \in 1 .. n
    /\ path.lastSuccess <= path.Metrics.LastProbed
    /\ RateBounds(path.Metrics.SuccessRate, path.failures, path.lastSuccess # 0)

\* The buffer of round-trip times stays one.
LEMMA KeepRecentType ==
    ASSUME NEW s \in Seq(Nat)
    PROVE  KeepRecent(Append(s, 1)) \in Seq(Nat)
<1>1. Append(s, 1) \in Seq(Nat) /\ Append(s, 1) # << >>
  OBVIOUS
<1>2. Tail(Append(s, 1)) \in Seq(Nat)
  BY <1>1
<1> QED BY <1>1, <1>2 DEF KeepRecent

\* What RecordProbe writes.
LEMMA RecordProbeFields ==
    ASSUME NEW m \in Measured, NEW success \in BOOLEAN, NEW time \in Nat,
           NewRate(m, success) \in 0 .. RateUnit
    PROVE  LET n == RecordProbe(m, 1, success, time)
           IN  /\ n \in Measured /\ n.SuccessRate = NewRate(m, success)
               /\ n.LastProbed = time /\ n.SampleCount = m.SampleCount + 1
<1> DEFINE rtts == IF success THEN KeepRecent(Append(m.rttSamples, 1)) ELSE m.rttSamples
           count == m.SampleCount + 1
           rate == NewRate(m, success)
           n == RecordProbe(m, 1, success, time)
<1>1. m.rttSamples \in Seq(Nat) /\ count \in Nat /\ m.HopCount \in Nat
  BY DEF Measured
<1>2. rtts \in Seq(Nat)
  BY <1>1, KeepRecentType
<1>3. n = [m EXCEPT !.LastProbed = time, !.SampleCount = count, !.rttSamples = rtts,
                    !.SuccessRate = rate]
  BY DEF RecordProbe
<1>4. rate \in 0 .. RateUnit
  OBVIOUS
<1> HIDE DEF rtts, count, rate, n
<1>5. /\ DOMAIN m = {"rttSamples", "HopCount", "SuccessRate", "LastProbed", "SampleCount"}
      /\ m = [x \in DOMAIN m |-> m[x]]
  BY DEF Measured
<1>6. n = [x \in DOMAIN m |-> CASE x = "LastProbed" -> time [] x = "SampleCount" -> count
                               [] x = "rttSamples" -> rtts [] x = "SuccessRate" -> rate
                               [] OTHER -> m[x]]
  BY <1>3, <1>5
<1>7. n \in Measured /\ n.SuccessRate = rate /\ n.LastProbed = time /\ n.SampleCount = count
  BY <1>1, <1>2, <1>4, <1>5, <1>6 DEF Measured
<1> QED BY <1>7 DEF n, rate, count

\* What RecordProbe, and the code around it, make of the record.
LEMMA RecordedFields ==
    ASSUME NEW path \in PathRecord, NEW r \in Peers \cup {NoRelay}, NEW success \in BOOLEAN,
           now \in Nat \ {0}, NewRate(path.Metrics, success) \in 0 .. RateUnit
    PROVE  LET q == Recorded(path, r, success)
           IN  /\ q \in PathRecord
               /\ q.Target = path.Target /\ q.RelayChain = path.RelayChain
               /\ q.measured = path.measured \cup {r}
               /\ q.lastSuccess = IF success THEN now ELSE path.lastSuccess
               /\ q.failures = IF success THEN 0 ELSE path.failures + 1
               /\ q.Metrics.SuccessRate = NewRate(path.Metrics, success)
               /\ q.Metrics.LastProbed = now
               /\ q.Metrics.SampleCount = path.Metrics.SampleCount + 1
<1> DEFINE m == IF success THEN [path.Metrics EXCEPT !.HopCount = 1] ELSE path.Metrics
           n == RecordProbe(m, 1, success, now)
           q == Recorded(path, r, success)
<1>1. path.Metrics \in Measured
  BY DEF PathRecord
<1>2. /\ m \in Measured /\ m.SuccessRate = path.Metrics.SuccessRate
      /\ m.SampleCount = path.Metrics.SampleCount
  BY <1>1 DEF Measured
<1>3. NewRate(m, success) = NewRate(path.Metrics, success)
  BY <1>2 DEF NewRate
<1> HIDE DEF m
<1>4. /\ n \in Measured /\ n.SuccessRate = NewRate(path.Metrics, success)
      /\ n.LastProbed = now /\ n.SampleCount = path.Metrics.SampleCount + 1
  BY <1>2, <1>3, RecordProbeFields
<1> HIDE DEF n
<1> DEFINE last == IF success THEN now ELSE path.lastSuccess
           fails == IF success THEN 0 ELSE path.failures + 1
           over == path.measured \cup {r}
<1>5. q = [path EXCEPT !.Metrics = n, !.lastSuccess = last, !.failures = fails, !.measured = over]
  BY DEF Recorded, n, m
<1>6. /\ path.lastSuccess \in Nat /\ path.failures \in Nat
      /\ path.measured \in SUBSET (Peers \cup {NoRelay})
      /\ path.Target \in Peers /\ path.RelayChain \in Peers \cup {NoRelay}
  BY DEF PathRecord
<1>7. last \in Nat /\ fails \in Nat /\ over \in SUBSET (Peers \cup {NoRelay})
  BY <1>6
<1> HIDE DEF q, last, fails, over
<1>8. /\ DOMAIN path = {"Target", "RelayChain", "Metrics", "lastSuccess", "failures", "measured"}
      /\ path = [x \in DOMAIN path |-> path[x]]
  BY DEF PathRecord
<1>9. q = [x \in DOMAIN path |-> CASE x = "Metrics" -> n [] x = "lastSuccess" -> last
                                  [] x = "failures" -> fails [] x = "measured" -> over
                                  [] OTHER -> path[x]]
  BY <1>5, <1>8
<1>10. /\ q \in PathRecord
       /\ q.Target = path.Target /\ q.RelayChain = path.RelayChain
       /\ q.measured = over /\ q.lastSuccess = last /\ q.failures = fails /\ q.Metrics = n
  BY <1>4, <1>6, <1>7, <1>8, <1>9 DEF PathRecord
<1>11. /\ q.Metrics.SuccessRate = NewRate(path.Metrics, success) /\ q.Metrics.LastProbed = now
       /\ q.Metrics.SampleCount = path.Metrics.SampleCount + 1
  BY <1>4, <1>10
<1> QED BY <1>10, <1>11, Zenon DEF q, last, fails, over

\* A result is recorded in the record of a path, ...
LEMMA RecordedOK ==
    ASSUME now \in Nat \ {0}, NEW path, PathOK(path, now), NEW r \in Peers \cup {NoRelay},
           NEW success \in BOOLEAN
    PROVE  PathOK(Recorded(path, r, success), now)
<1> DEFINE s == path.Metrics.SuccessRate
           q == Recorded(path, r, success)
<1>1. /\ path \in PathRecord /\ path.Metrics.SampleCount \in Nat /\ path.Metrics.SampleCount >= 1
      /\ s \in 0 .. RateUnit /\ path.failures \in Nat
      /\ path.lastSuccess \in Nat /\ path.lastSuccess <= now
      /\ RateBounds(s, path.failures, path.lastSuccess # 0)
  BY DEF PathOK, PathRecord, Measured
<1>2. NewRate(path.Metrics, success) = (3 * (IF success THEN RateUnit ELSE 0) + 7 * s + 5) \div 10
  BY <1>1 DEF NewRate
<1>3. CASE success
  <2>1. NewRate(path.Metrics, success) = (3 * RateUnit + 7 * s + 5) \div 10
    BY <1>2, <1>3
  <2>2. /\ NewRate(path.Metrics, success) \in 0 .. RateUnit
        /\ RateBounds(NewRate(path.Metrics, success), 0, TRUE)
    BY <1>1, <2>1, AnsweredProbeRate
  <2>3. /\ q \in PathRecord /\ q.lastSuccess = now /\ q.failures = 0
        /\ q.Metrics.SuccessRate = NewRate(path.Metrics, success)
        /\ q.Metrics.LastProbed = now /\ q.Metrics.SampleCount = path.Metrics.SampleCount + 1
    BY <1>1, <1>3, <2>2, RecordedFields
  <2> HIDE DEF q, s
  <2>4. (q.lastSuccess # 0) = TRUE
    BY <2>3
  <2>5. RateBounds(q.Metrics.SuccessRate, q.failures, q.lastSuccess # 0)
    BY <2>2, <2>3, <2>4
  <2>6. PathOK(q, now)
    BY <1>1, <2>3, <2>5 DEF PathOK
  <2> QED BY <2>6 DEF q
<1>4. CASE ~success
  <2>1. NewRate(path.Metrics, success) = (7 * s + 5) \div 10
    <3>1. 3 * 0 + 7 * s = 7 * s
      BY <1>1
    <3> QED BY <1>2, <1>4, <3>1
  <2>2. /\ NewRate(path.Metrics, success) \in 0 .. RateUnit
        /\ RateBounds(NewRate(path.Metrics, success), path.failures + 1, path.lastSuccess # 0)
    BY <1>1, <2>1, FailedProbeRate
  <2>3. /\ q \in PathRecord /\ q.lastSuccess = path.lastSuccess /\ q.failures = path.failures + 1
        /\ q.Metrics.SuccessRate = NewRate(path.Metrics, success)
        /\ q.Metrics.LastProbed = now /\ q.Metrics.SampleCount = path.Metrics.SampleCount + 1
    BY <1>1, <1>4, <2>2, RecordedFields
  <2> HIDE DEF q, s
  <2>4. RateBounds(q.Metrics.SuccessRate, q.failures, q.lastSuccess # 0)
    BY <2>2, <2>3
  <2>5. PathOK(q, now)
    BY <1>1, <2>3, <2>4 DEF PathOK
  <2> QED BY <2>5 DEF q
<1> QED BY <1>3, <1>4

\* ... or in that of a new one.
LEMMA NewRecordedOK ==
    ASSUME now \in Nat \ {0}, NEW t \in Peers, NEW r \in Peers \cup {NoRelay},
           NEW success \in BOOLEAN
    PROVE  /\ PathOK(Recorded(NewPath(t, r), r, success), now)
           /\ NewPath(t, r) \in PathRecord
<1> DEFINE path == NewPath(t, r)
           q == Recorded(path, r, success)
<1>1. RateUnit \in Nat /\ << >> \in Seq(Nat)
  BY MetricsAssumption
<1>2. NewMetrics \in Measured /\ NewMetrics.SampleCount = 0
  BY <1>1 DEF NewMetrics, Measured
<1>3. /\ path \in PathRecord /\ path.lastSuccess = 0 /\ path.failures = 0
      /\ path.Metrics.SampleCount = 0
  BY <1>2 DEF NewPath, PathRecord
<1> HIDE DEF path
<1>4. NewRate(path.Metrics, success) = IF success THEN RateUnit ELSE 0
  BY <1>3 DEF NewRate
<1>5. NewRate(path.Metrics, success) \in 0 .. RateUnit
  BY <1>1, <1>4
<1>5a. /\ q \in PathRecord
       /\ q.lastSuccess = IF success THEN now ELSE path.lastSuccess
       /\ q.failures = IF success THEN 0 ELSE path.failures + 1
       /\ q.Metrics.SuccessRate = NewRate(path.Metrics, success)
       /\ q.Metrics.LastProbed = now /\ q.Metrics.SampleCount = path.Metrics.SampleCount + 1
  BY <1>3, <1>5, RecordedFields
<1> HIDE DEF q
<1>6. /\ q \in PathRecord
      /\ q.lastSuccess = IF success THEN now ELSE 0
      /\ q.failures = IF success THEN 0 ELSE 1
      /\ q.Metrics.SuccessRate = IF success THEN RateUnit ELSE 0
      /\ q.Metrics.LastProbed = now /\ q.Metrics.SampleCount = 1
  BY <1>3, <1>4, <1>5a
<1>7. (q.lastSuccess # 0) = success
  BY <1>6
<1>8. RateBounds(q.Metrics.SuccessRate, q.failures, q.lastSuccess # 0)
  <2>1. CASE success
    BY <1>6, <1>7, <2>1, FirstProbeRate
  <2>2. CASE ~success
    BY <1>6, <1>7, <2>2, FirstProbeRate
  <2> QED BY <2>1, <2>2
<1>9. PathOK(q, now)
  BY <1>6, <1>8 DEF PathOK
<1> QED BY <1>3, <1>9 DEF q, path

-----------------------------------------------------------------------------
(* The lists of relays. *)

\* The relays of a target are those of the list without the target, all of them.
LEMMA RelaysForProperties ==
    ASSUME relays \in Seq(RelayCapable), NEW t,
           \A i, j \in 1 .. Len(relays) : relays[i] = relays[j] => i = j
    PROVE  /\ RelaysFor(t) \in Seq(RelayCapable)
           /\ \A i \in 1 .. Len(RelaysFor(t)) : RelaysFor(t)[i] # t
           /\ \A k \in 1 .. Len(relays) : relays[k] # t =>
                  \E i \in 1 .. Len(RelaysFor(t)) : RelaysFor(t)[i] = relays[k]
<1>1. CASE \E j \in 1 .. Len(relays) : relays[j] = t
  <2>1. PICK j \in 1 .. Len(relays) : relays[j] = t
    BY <1>1
  <2>2. {i \in 1 .. Len(relays) : relays[i] = t} = {j}
    BY <2>1
  <2>3. SelectInSeq(relays, LAMBDA v : v = t) = j
    BY <2>2 DEF SelectInSeq, Min
  <2> DEFINE a == SubSeq(relays, 1, j - 1)
             b == SubSeq(relays, j + 1, Len(relays))
  <2>4. RelaysFor(t) = a \o b
    BY <1>1, <2>3 DEF RelaysFor, RemoveFirst, RemoveAt
  <2>5. a \in Seq(RelayCapable) /\ Len(a) = j - 1 /\ \A i \in 1 .. Len(a) : a[i] = relays[i]
    OBVIOUS
  <2>6. /\ b \in Seq(RelayCapable) /\ Len(b) = Len(relays) - j
        /\ \A i \in 1 .. Len(b) : b[i] = relays[i + j]
    OBVIOUS
  <2> HIDE DEF a, b
  <2>7. a \o b \in Seq(RelayCapable) /\ Len(a \o b) = Len(relays) - 1
    BY <2>5, <2>6
  <2>8. ASSUME NEW i \in 1 .. Len(a \o b) PROVE (a \o b)[i] # t
    <3>1. CASE i <= Len(a)
      <4>1. (a \o b)[i] = relays[i]
        BY <3>1, <2>5, <2>6, <2>7
      <4> QED BY <4>1, <2>1, <3>1, <2>5
    <3>2. CASE i > Len(a)
      <4>1. (a \o b)[i] = b[i - Len(a)] /\ i - Len(a) \in 1 .. Len(b)
        BY <3>2, <2>5, <2>6, <2>7
      <4>2. (a \o b)[i] = relays[i + 1] /\ i + 1 \in 1 .. Len(relays) /\ i + 1 # j
        BY <4>1, <3>2, <2>5, <2>6, <2>7
      <4> QED BY <4>2, <2>1
    <3> QED BY <3>1, <3>2, <2>5, <2>7
  <2>9. ASSUME NEW k \in 1 .. Len(relays), relays[k] # t
        PROVE  \E i \in 1 .. Len(a \o b) : (a \o b)[i] = relays[k]
    <3>1. CASE k < j
      <4>1. k \in 1 .. Len(a) /\ k \in 1 .. Len(a \o b)
        BY <3>1, <2>5, <2>7
      <4>2. (a \o b)[k] = a[k]
        BY <4>1, <2>5, <2>6
      <4> QED BY <4>1, <4>2, <2>5
    <3>2. CASE k > j
      <4> DEFINE i == k - 1
      <4>1. /\ i \in 1 .. Len(a \o b) /\ i > Len(a) /\ i - Len(a) \in 1 .. Len(b)
            /\ (i - Len(a)) + j = k
        BY <3>2, <2>5, <2>6, <2>7
      <4> HIDE DEF i
      <4>2. (a \o b)[i] = b[i - Len(a)]
        BY <4>1, <2>5, <2>6, <2>7
      <4>3. b[i - Len(a)] = relays[k]
        BY <4>1, <2>6
      <4> QED BY <4>1, <4>2, <4>3
    <3> QED BY <2>1, <2>9, <3>1, <3>2
  <2> QED BY <2>4, <2>7, <2>8, <2>9
<1>2. CASE ~ \E j \in 1 .. Len(relays) : relays[j] = t
  <2>1. RelaysFor(t) = relays
    BY <1>2 DEF RelaysFor, RemoveFirst
  <2> QED BY <1>2, <2>1
<1> QED BY <1>1, <1>2

-----------------------------------------------------------------------------
(* The inductive invariant. *)

Probed == {"pending", "open", "echo", "error"}

\* The probe loop: while it probes and records there is a target, with a
\* result for its direct path and for each of its relays.
LoopInv ==
    /\ \A i, j \in 1 .. Len(relays) : relays[i] = relays[j] => i = j
    /\ loop \notin {"probing", "record"} => results = << >> /\ next = 0
    /\ loop = "probing" => next = 0
    /\ loop = "record" => next \in 1 .. Len(results) + 1
    /\ loop \in {"probing", "record"} =>
           target \in Peers /\ results \in [1 .. 1 + Len(RelaysFor(target)) -> Probed]

PathsOK ==
    /\ pathSets = [t \in Peers |-> pathSets[t]]
    /\ \A t \in Peers : \A id \in DOMAIN pathSets[t] : PathOK(pathSets[t][id], now)

\* The part of TypeOK that is not about paths.
LoopTypes ==
    /\ connected \in SUBSET Peers /\ behaviour \in [Peers -> Behaviours]
    /\ now \in 1 .. MaxTime /\ ticker \in {"none", "empty", "full"}
    /\ loop \in {"first", "idle", "relays", "targets", "probing", "record", "exited"}
    /\ todo \in SUBSET Peers /\ relays \in Seq(RelayCapable)
    /\ target \in Peers \cup {NoRelay}

Inv == LoopTypes /\ LoopInv /\ PathsOK

\* The invariant implies the types of all variables.
LEMMA InvTypeOK == Inv => TypeOK
<1> SUFFICES ASSUME Inv PROVE TypeOK
  OBVIOUS
<1>1. (\A i \in DOMAIN results : results[i] \in Probed) /\ next \in 0 .. Len(results) + 1
  <2>1. CASE loop \in {"probing", "record"}
    <3> DEFINE n == 1 + Len(RelaysFor(target))
    <3>1. n \in Nat
      BY RelaysForProperties DEF Inv, LoopTypes, LoopInv
    <3>2. results \in [1 .. n -> Probed]
      BY <2>1 DEF Inv, LoopInv
    <3> HIDE DEF n
    <3>3. Len(results) = n /\ DOMAIN results = 1 .. n
      BY <3>1, <3>2
    <3>4. next \in 0 .. Len(results) + 1
      BY <2>1, <3>1, <3>3 DEF Inv, LoopInv
    <3> QED BY <3>2, <3>3, <3>4
  <2>2. CASE loop \notin {"probing", "record"}
    BY <2>2 DEF Inv, LoopInv
  <2> QED BY <2>1, <2>2
<1>2. ASSUME NEW t \in Peers, NEW path \in Paths(t)
      PROVE  path.Metrics.SuccessRate \in 0 .. RateUnit /\ path.Metrics.LastProbed \in 1 .. now
  <2>1. PICK id \in DOMAIN pathSets[t] : path = pathSets[t][id]
    BY DEF Paths
  <2>2. PathOK(path, now)
    BY <2>1 DEF Inv, PathsOK
  <2> QED BY <2>2 DEF PathOK, PathRecord, Measured
<1> QED BY <1>1, <1>2 DEF Inv, LoopTypes, TypeOK, Probed

\* A step that leaves the path sets alone, with time standing still or not.
LEMMA PathsKept ==
    ASSUME PathsOK, UNCHANGED pathSets, now \in Nat, now' \in Nat, now <= now'
    PROVE  PathsOK'
<1>1. ASSUME NEW path, PathOK(path, now) PROVE PathOK(path, now')
  <2>1. path.Metrics.LastProbed \in 1 .. now'
    BY <1>1 DEF PathOK
  <2> QED BY <1>1, <2>1 DEF PathOK
<1> QED BY <1>1 DEF PathsOK

\* The list of relays that probeAll takes has each of them once.
LEMMA EnumerateRelaysInv ==
    ASSUME Inv, EnumerateRelays
    PROVE  Inv'
<1> DEFINE S == connected \cap RelayCapable
           n == Cardinality(S)
<1>1. S \in SUBSET Peers /\ S \in SUBSET RelayCapable
  BY DEF Inv, LoopTypes
<1>2. n \in Nat
  BY <1>1, PeersFinite, FS_Subset, FS_CardinalityType
<1>3. /\ loop = "relays" /\ loop' = "targets" /\ relays' \in SetToSeqs(S)
      /\ UNCHANGED <<connected, behaviour, now, ticker, todo, target, results, next, pathSets>>
  BY DEF EnumerateRelays, network, clock
<1>4. relays' \in [1 .. n -> S] /\ \A i, j \in 1 .. n : i # j => relays'[i] # relays'[j]
  BY <1>3 DEF SetToSeqs
<1> HIDE DEF S, n
<1>5. relays' \in Seq(RelayCapable) /\ Len(relays') = n
  BY <1>1, <1>2, <1>4
<1>6. LoopTypes'
  BY <1>3, <1>5 DEF Inv, LoopTypes
<1>7. LoopInv'
  BY <1>3, <1>4, <1>5 DEF Inv, LoopInv
<1>8. PathsOK'
  BY <1>3, PathsKept DEF Inv, LoopTypes
<1> QED BY <1>6, <1>7, <1>8 DEF Inv

\* All probes of a target begin.
LEMMA SendProbesInv ==
    ASSUME Inv, NEW t \in Peers, SendProbes(t)
    PROVE  Inv'
<1>1. /\ loop = "targets" /\ loop' = "probing" /\ todo' = todo \ {t} /\ target' = t
      /\ results' = [i \in 1 .. 1 + Len(RelaysFor(t)) |-> "pending"]
      /\ UNCHANGED <<connected, behaviour, now, ticker, relays, next, pathSets>>
  BY DEF SendProbes, network, clock
<1>2. LoopTypes'
  BY <1>1 DEF Inv, LoopTypes
<1>3. RelaysFor(target)' = RelaysFor(t)
  BY <1>1 DEF RelaysFor
<1>4. results' \in [1 .. 1 + Len(RelaysFor(target)') -> Probed]
  BY <1>1, <1>3 DEF Probed
<1>5. LoopInv'
  BY <1>1, <1>4 DEF Inv, LoopInv
<1>6. PathsOK'
  BY <1>1, PathsKept DEF Inv, LoopTypes
<1> QED BY <1>2, <1>5, <1>6 DEF Inv

\* A step of one probe.
LEMMA SendProbeInv ==
    ASSUME Inv, NEW i \in DOMAIN results, SendProbe(i)
    PROVE  Inv'
<1>1. /\ loop = "probing"
      /\ \E v \in Probed : results' = [results EXCEPT ![i] = v]
      /\ UNCHANGED <<connected, behaviour, now, ticker, loop, todo, relays, target, next, pathSets>>
  BY DEF SendProbe, OpenStream, ReadEcho, network, clock, Probed
<1>2. LoopTypes'
  BY <1>1 DEF Inv, LoopTypes
<1>3. RelaysFor(target)' = RelaysFor(target)
  BY <1>1 DEF RelaysFor
<1>4. results' \in [1 .. 1 + Len(RelaysFor(target)) -> Probed]
  BY <1>1 DEF Inv, LoopInv
<1>5. LoopInv'
  BY <1>1, <1>3, <1>4 DEF Inv, LoopInv
<1>6. PathsOK'
  BY <1>1, PathsKept DEF Inv, LoopTypes
<1> QED BY <1>2, <1>5, <1>6 DEF Inv

\* A target has one result per path.
LEMMA ResultsLength ==
    ASSUME Inv, loop \in {"probing", "record"}
    PROVE  /\ Len(RelaysFor(target)) \in Nat
           /\ Len(results) = 1 + Len(RelaysFor(target))
<1> DEFINE n == Len(RelaysFor(target))
<1>1. n \in Nat
  BY RelaysForProperties DEF Inv, LoopTypes, LoopInv
<1>2. results \in [1 .. 1 + n -> Probed]
  BY DEF Inv, LoopInv
<1> HIDE DEF n
<1>3. Len(results) = 1 + n
  BY <1>1, <1>2
<1> QED BY <1>1, <1>3 DEF n

\* SendProbes returns.
LEMMA AllResultsInv ==
    ASSUME Inv, AllResults
    PROVE  Inv'
<1>1. /\ loop = "probing" /\ loop' = "record" /\ next' = 1
      /\ UNCHANGED <<connected, behaviour, now, ticker, todo, relays, target, results, pathSets>>
  BY DEF AllResults, network, clock
<1>2. LoopTypes'
  BY <1>1 DEF Inv, LoopTypes
<1>3. RelaysFor(target)' = RelaysFor(target)
  BY <1>1 DEF RelaysFor
<1>4. next' \in 1 .. Len(results') + 1
  BY <1>1, ResultsLength
<1>5. LoopInv'
  BY <1>1, <1>3, <1>4 DEF Inv, LoopInv
<1>6. PathsOK'
  BY <1>1, PathsKept DEF Inv, LoopTypes
<1> QED BY <1>2, <1>5, <1>6 DEF Inv

\* The relay of a result is one of the list, or none, and never the target.
LEMMA RelayOfType ==
    ASSUME Inv, loop = "record", next <= Len(results)
    PROVE  RelayOf(next) \in Peers \cup {NoRelay} /\ RelayOf(next) # target
<1>1. target \in Peers /\ target # NoRelay /\ next \in 1 .. 1 + Len(RelaysFor(target))
  BY ResultsLength, PeersAssumption DEF Inv, LoopInv
<1>2. CASE next = 1
  BY <1>1, <1>2 DEF RelayOf
<1>3. CASE next # 1
  <2>1. next - 1 \in 1 .. Len(RelaysFor(target))
    BY <1>1, <1>3, ResultsLength
  <2>2. /\ RelaysFor(target) \in Seq(RelayCapable)
        /\ \A i \in 1 .. Len(RelaysFor(target)) : RelaysFor(target)[i] # target
    BY RelaysForProperties DEF Inv, LoopTypes, LoopInv
  <2>3. RelaysFor(target)[next - 1] \in RelayCapable /\ RelaysFor(target)[next - 1] # target
    BY <2>1, <2>2
  <2> QED BY <1>3, <2>3, PeersAssumption DEF RelayOf
<1> QED BY <1>2, <1>3

\* What recording a result does to the path sets.
LEMMA RecordResultPaths ==
    ASSUME Inv, RecordResult
    PROVE  LET id == PathID(target, RelayOf(next))
               path == IF id \in DOMAIN pathSets[target] THEN pathSets[target][id]
                       ELSE NewPath(target, RelayOf(next))
           IN  /\ target \in Peers
               /\ pathSets' = [t \in Peers |-> pathSets'[t]]
               /\ \A t \in Peers \ {target} : pathSets'[t] = pathSets[t]
               /\ DOMAIN pathSets'[target] = DOMAIN pathSets[target] \cup {id}
               /\ \A i \in DOMAIN pathSets[target] \ {id} :
                      pathSets'[target][i] = pathSets[target][i]
               /\ pathSets'[target][id] = Recorded(path, RelayOf(next), results[next] = "echo")
<1> DEFINE id == PathID(target, RelayOf(next))
           path == IF id \in DOMAIN pathSets[target] THEN pathSets[target][id]
                   ELSE NewPath(target, RelayOf(next))
           q == Recorded(path, RelayOf(next), results[next] = "echo")
<1>1. /\ loop = "record" /\ next <= Len(results)
      /\ pathSets' = [pathSets EXCEPT ![target] = Add(pathSets[target], id, q)]
  BY DEF RecordResult
<1>2. target \in Peers /\ pathSets = [t \in Peers |-> pathSets[t]]
  BY <1>1 DEF Inv, LoopInv, PathsOK
<1> HIDE DEF id, path, q
<1>3. /\ pathSets' = [t \in Peers |-> pathSets'[t]]
      /\ \A t \in Peers \ {target} : pathSets'[t] = pathSets[t]
      /\ pathSets'[target] = Add(pathSets[target], id, q)
  BY <1>1, <1>2
<1>4. /\ DOMAIN pathSets'[target] = DOMAIN pathSets[target] \cup {id}
      /\ \A i \in DOMAIN pathSets[target] \ {id} : pathSets'[target][i] = pathSets[target][i]
      /\ pathSets'[target][id] = q
  BY <1>3 DEF Add
<1> QED BY <1>2, <1>3, <1>4 DEF id, path, q

\* A result is recorded.
LEMMA RecordResultInv ==
    ASSUME Inv, RecordResult
    PROVE  Inv'
<1> DEFINE r == RelayOf(next)
           id == PathID(target, r)
           path == IF id \in DOMAIN pathSets[target] THEN pathSets[target][id]
                   ELSE NewPath(target, r)
           success == results[next] = "echo"
<1>1. /\ loop = "record" /\ next <= Len(results) /\ next' = next + 1
      /\ UNCHANGED <<connected, behaviour, now, ticker, loop, todo, relays, target, results>>
  BY DEF RecordResult, network, clock
<1>2. r \in Peers \cup {NoRelay}
  BY <1>1, RelayOfType
<1>3. /\ target \in Peers
      /\ pathSets' = [t \in Peers |-> pathSets'[t]]
      /\ \A t \in Peers \ {target} : pathSets'[t] = pathSets[t]
      /\ DOMAIN pathSets'[target] = DOMAIN pathSets[target] \cup {id}
      /\ \A i \in DOMAIN pathSets[target] \ {id} : pathSets'[target][i] = pathSets[target][i]
      /\ pathSets'[target][id] = Recorded(path, r, success)
  BY RecordResultPaths
<1>4. now \in Nat \ {0} /\ success \in BOOLEAN
  BY DEF Inv, LoopTypes
<1>5. PathOK(Recorded(path, r, success), now)
  <2>1. CASE id \in DOMAIN pathSets[target]
    <3>1. path = pathSets[target][id] /\ PathOK(path, now)
      BY <1>3, <2>1 DEF Inv, PathsOK
    <3> HIDE DEF path, r, success
    <3> QED BY <1>2, <1>4, <3>1, RecordedOK
  <2>2. CASE id \notin DOMAIN pathSets[target]
    <3>1. path = NewPath(target, r)
      BY <2>2
    <3> HIDE DEF path, r, success
    <3> QED BY <1>2, <1>3, <1>4, <3>1, NewRecordedOK
  <2> QED BY <2>1, <2>2
<1> HIDE DEF path, id, success, r
<1>6. PathsOK'
  <2> SUFFICES ASSUME NEW t \in Peers, NEW i \in DOMAIN pathSets'[t]
               PROVE  PathOK(pathSets'[t][i], now')
    BY <1>3 DEF PathsOK
  <2>1. CASE t = target /\ i = id
    BY <1>1, <1>3, <1>5, <2>1
  <2>2. CASE ~(t = target /\ i = id)
    <3>1. i \in DOMAIN pathSets[t] /\ pathSets'[t][i] = pathSets[t][i]
      BY <1>3, <2>2
    <3> QED BY <1>1, <3>1 DEF Inv, PathsOK
  <2> QED BY <2>1, <2>2
<1>7. LoopTypes'
  BY <1>1 DEF Inv, LoopTypes
<1>8. RelaysFor(target)' = RelaysFor(target)
  BY <1>1 DEF RelaysFor
<1>9. next' \in 1 .. Len(results') + 1
  BY <1>1, ResultsLength DEF Inv, LoopInv
<1>10. LoopInv'
  BY <1>1, <1>8, <1>9 DEF Inv, LoopInv
<1> QED BY <1>6, <1>7, <1>10 DEF Inv

\* pruneStalePaths removes paths and changes none.
LEMMA PrunePaths ==
    ASSUME PruneStalePaths
    PROVE  /\ pathSets' = [t \in Peers |-> pathSets'[t]]
           /\ \A t \in Peers : \A id \in DOMAIN pathSets'[t] :
                  id \in DOMAIN pathSets[t] /\ pathSets'[t][id] = pathSets[t][id]
           /\ \A t \in Peers : \A id \in DOMAIN pathSets[t] \ DOMAIN pathSets'[t] :
                  Stale(pathSets[t][id])
<1> DEFINE keep(t) == {id \in DOMAIN pathSets[t] : ~Stale(pathSets[t][id])}
           kept(t) == [id \in keep(t) |-> pathSets[t][id]]
<1>1. pathSets' = [t \in Peers |-> kept(t)]
  BY DEF PruneStalePaths
<1>2. \A t \in Peers : pathSets'[t] = kept(t)
  BY <1>1
<1>3. pathSets' = [t \in Peers |-> pathSets'[t]]
  BY <1>1, <1>2
<1>4. \A t \in Peers : DOMAIN pathSets'[t] = keep(t) /\ \A id \in keep(t) : pathSets'[t][id] = pathSets[t][id]
  BY <1>2
<1> QED BY <1>3, <1>4

\* A round ends.
LEMMA PruneInv ==
    ASSUME Inv, PruneStalePaths
    PROVE  Inv'
<1>1. /\ loop = "targets" /\ loop' = "idle" /\ relays' = << >>
      /\ ticker' = (IF ticker = "none" THEN "empty" ELSE ticker)
      /\ UNCHANGED <<connected, behaviour, now, todo, target, results, next>>
  BY DEF PruneStalePaths, network
<1>2. LoopTypes'
  BY <1>1 DEF Inv, LoopTypes
<1>3. LoopInv'
  BY <1>1 DEF Inv, LoopInv
<1>4. PathsOK'
  BY <1>1, PrunePaths DEF Inv, PathsOK
<1> QED BY <1>2, <1>3, <1>4 DEF Inv

\* The steps of the loop that touch neither results nor paths.
LEMMA LoopMovesInv ==
    ASSUME Inv, StartRound \/ TargetDone \/ ExitLoop
    PROVE  Inv'
<1>1. UNCHANGED <<connected, behaviour, now, relays, pathSets>>
  BY DEF StartRound, TargetDone, ExitLoop, network, clock, locals
<1>2. PathsOK'
  BY <1>1, PathsKept DEF Inv, LoopTypes
<1>3. CASE StartRound
  BY <1>1, <1>2, <1>3 DEF StartRound, Inv, LoopTypes, LoopInv
<1>4. CASE TargetDone
  BY <1>1, <1>2, <1>4 DEF TargetDone, clock, Inv, LoopTypes, LoopInv
<1>5. CASE ExitLoop
  BY <1>1, <1>2, <1>5 DEF ExitLoop, clock, locals, Inv, LoopTypes, LoopInv
<1> QED BY <1>3, <1>4, <1>5

\* The network, the clock and Stop do not touch what the loop works on.
LEMMA EnvironmentInv ==
    ASSUME Inv,
           \/ \E p \in Peers : Connect(p) \/ Disconnect(p)
           \/ \E p \in Peers, b \in Behaviours : Behave(p, b)
           \/ Tick \/ Stop \/ UNCHANGED vars
    PROVE  Inv'
<1>1. UNCHANGED <<loop, todo, relays, target, results, next, pathSets>>
  BY DEF Connect, Disconnect, Behave, Tick, Stop, locals, vars
<1>2. /\ connected' \in SUBSET Peers /\ behaviour' \in [Peers -> Behaviours]
      /\ now' \in now .. MaxTime /\ ticker' \in {"none", "empty", "full"}
  BY TimeAssumption
  DEF Inv, LoopTypes, Connect, Disconnect, Behave, Tick, Stop, clock, network, vars
<1>3. now \in Nat /\ now' \in Nat /\ now <= now'
  BY <1>2, TimeAssumption DEF Inv, LoopTypes
<1>4. LoopTypes'
  BY <1>1, <1>2, TimeAssumption DEF Inv, LoopTypes
<1>5. LoopInv'
  BY <1>1 DEF Inv, LoopInv, RelaysFor
<1>6. PathsOK'
  BY <1>1, <1>3, PathsKept DEF Inv
<1> QED BY <1>4, <1>5, <1>6 DEF Inv

\* Every step keeps the invariant.
LEMMA NextInv ==
    ASSUME Inv, [Next]_vars
    PROVE  Inv'
<1>1. CASE LoopStep
  BY <1>1, LoopMovesInv, EnumerateRelaysInv, AllResultsInv, RecordResultInv, PruneInv, SendProbesInv
  DEF LoopStep
<1>2. CASE \E i \in DOMAIN results : SendProbe(i)
  BY <1>2, SendProbeInv
<1> QED BY <1>1, <1>2, EnvironmentInv DEF Next

-----------------------------------------------------------------------------
\* The invariant holds of every history of probes.
THEOREM Invariance == Spec => []Inv
<1>1. Init => Inv
  <2> SUFFICES ASSUME Init PROVE Inv
    OBVIOUS
  <2>1. LoopTypes
    BY TimeAssumption DEF Init, LoopTypes
  <2>2. LoopInv
    BY DEF Init, LoopInv
  <2>3. PathsOK
    BY DEF Init, PathsOK, NoPaths
  <2> QED BY <2>1, <2>2, <2>3 DEF Inv
<1> QED BY <1>1, NextInv, PTL DEF Spec

\* The variables keep their types.
THEOREM TypeCorrect == Spec => []TypeOK
  BY Invariance, InvTypeOK, PTL

\* The limit of pruneStalePaths tells dead paths from live ones: a path that
\* ever answered is not below it before its fourth failed probe in a row, and
\* every path is after its seventh, whatever happened before.
THEOREM RateSeparates == Spec => []RateTellsDeadFromLive
<1>1. Inv => RateTellsDeadFromLive
  <2> SUFFICES ASSUME Inv, NEW t \in Peers, NEW path \in Paths(t)
               PROVE  /\ path.lastSuccess # 0 /\ RateBelowTenth(path.Metrics) => path.failures >= 4
                      /\ path.failures >= 7 => RateBelowTenth(path.Metrics)
    BY DEF RateTellsDeadFromLive
  <2>1. PICK id \in DOMAIN pathSets[t] : path = pathSets[t][id]
    BY DEF Paths
  <2>2. PathOK(path, now)
    BY <2>1 DEF Inv, PathsOK
  <2> DEFINE s == path.Metrics.SuccessRate
             f == path.failures
             answered == path.lastSuccess # 0
  <2>3. /\ s \in Nat /\ f \in Nat /\ RateUnit \in Nat /\ RateUnit >= 1000
        /\ RateBounds(s, f, answered)
    BY <2>2, MetricsAssumption, RateAssumption DEF PathOK, PathRecord, Measured
  <2> HIDE DEF s, f, answered
  <2>4. /\ answered /\ 10 * s < RateUnit => f >= 4
        /\ f >= 7 => 10 * s < RateUnit
    BY <2>3 DEF RateBounds
  <2> QED BY <2>4 DEF s, f, answered, RateBelowTenth
<1> QED BY <1>1, Invariance, PTL

\* Only pruneStalePaths removes paths.
LEMMA OnlyPruneRemoves ==
    ASSUME Inv, [Next]_vars, ~PruneStalePaths, NEW t \in Peers
    PROVE  DOMAIN pathSets[t] \subseteq DOMAIN pathSets'[t]
<1>1. CASE RecordResult
  BY <1>1, RecordResultPaths
<1>2. CASE ~RecordResult
  <2>1. pathSets' = pathSets
    BY <1>2 DEF Next, LoopStep, StartRound, EnumerateRelays, AllResults, TargetDone, ExitLoop,
                SendProbes, SendProbe, OpenStream, ReadEcho, Connect, Disconnect, Behave, Tick,
                Stop, vars
  <2> QED BY <2>1
<1> QED BY <1>1, <1>2

\* Pruning drops no path that answered within StalePathTimeout.
THEOREM LivePathsStay == Spec => PruneKeepsLivePaths
<1>1. Inv /\ [Next]_vars =>
        [\A t \in Peers : \A id \in DOMAIN pathSets[t] \ DOMAIN pathSets'[t] :
             \/ pathSets[t][id].lastSuccess = 0
             \/ now - pathSets[t][id].lastSuccess > StalePathTimeout]_vars
  <2> SUFFICES ASSUME Inv, [Next]_vars, NEW t \in Peers,
                      NEW id \in DOMAIN pathSets[t] \ DOMAIN pathSets'[t]
               PROVE  now - pathSets[t][id].lastSuccess > StalePathTimeout
    OBVIOUS
  <2>1. PruneStalePaths
    BY OnlyPruneRemoves
  <2>2. Stale(pathSets[t][id])
    BY <2>1, PrunePaths
  <2> DEFINE path == pathSets[t][id]
  <2>3. PathOK(path, now)
    BY DEF Inv, PathsOK
  <2>4. /\ path.lastSuccess \in Nat /\ path.Metrics.LastProbed \in Nat
        /\ path.lastSuccess <= path.Metrics.LastProbed
    BY <2>3 DEF PathOK, PathRecord, Measured
  <2>5. now - path.Metrics.LastProbed > StalePathTimeout
    BY <2>2 DEF Stale
  <2>6. now \in Nat
    BY DEF Inv, LoopTypes
  <2> QED BY <2>4, <2>5, <2>6, TimeAssumption
<1> QED BY <1>1, Invariance, PTL DEF Spec, PruneKeepsLivePaths

-----------------------------------------------------------------------------
(* Results are recorded under their paths. *)

\* Recording keeps results apart.
LEMMA RecordResultOwn ==
    ASSUME Inv, OwnMetrics, RecordResult
    PROVE  OwnMetrics'
<1> DEFINE r == RelayOf(next)
           id == PathID(target, r)
           path == IF id \in DOMAIN pathSets[target] THEN pathSets[target][id]
                   ELSE NewPath(target, r)
           success == results[next] = "echo"
           q == Recorded(path, r, success)
<1>1. loop = "record" /\ next <= Len(results)
  BY DEF RecordResult
<1>2. r \in Peers \cup {NoRelay} /\ r # target
  BY <1>1, RelayOfType
<1>3. /\ target \in Peers
      /\ \A t \in Peers \ {target} : pathSets'[t] = pathSets[t]
      /\ DOMAIN pathSets'[target] = DOMAIN pathSets[target] \cup {id}
      /\ \A i \in DOMAIN pathSets[target] \ {id} : pathSets'[target][i] = pathSets[target][i]
      /\ pathSets'[target][id] = q
  BY RecordResultPaths
<1>4. /\ path.Target = target /\ path.RelayChain \in path.measured \cup {r}
      /\ \A x \in path.measured : x # target /\ PathID(target, x) = id
  <2>1. CASE id \in DOMAIN pathSets[target]
    <3>1. path = pathSets[target][id]
      BY <2>1
    <3> QED BY <1>3, <2>1, <3>1 DEF OwnMetrics
  <2>2. CASE id \notin DOMAIN pathSets[target]
    BY <2>2 DEF NewPath
  <2> QED BY <2>1, <2>2
<1>5. q.Target = path.Target /\ q.RelayChain = path.RelayChain /\ q.measured = path.measured \cup {r}
  BY DEF Recorded
<1> HIDE DEF q, path, success
<1>6. /\ q.Target = target /\ q.RelayChain \in q.measured
      /\ \A x \in q.measured : x # target /\ PathID(target, x) = id
  BY <1>2, <1>4, <1>5
<1> HIDE DEF id, r
<1> SUFFICES ASSUME NEW t \in Peers, NEW i \in DOMAIN pathSets'[t]
             PROVE  LET p == pathSets'[t][i]
                    IN  /\ p.Target = t /\ p.RelayChain \in p.measured
                        /\ \A x \in p.measured : x # t /\ PathID(t, x) = i
  BY DEF OwnMetrics, PathID, DirectPathID, RelayPathID
<1>7. CASE t = target /\ i = id
  BY <1>3, <1>6, <1>7
<1>8. CASE ~(t = target /\ i = id)
  <2>1. i \in DOMAIN pathSets[t] /\ pathSets'[t][i] = pathSets[t][i]
    BY <1>3, <1>8
  <2> QED BY <2>1 DEF OwnMetrics
<1> QED BY <1>7, <1>8

\* Every step keeps results apart.
LEMMA OwnNext ==
    ASSUME Inv, OwnMetrics, [Next]_vars
    PROVE  OwnMetrics'
<1>1. CASE RecordResult
  BY <1>1, RecordResultOwn
<1>2. CASE PruneStalePaths
  <2> SUFFICES ASSUME NEW t \in Peers, NEW i \in DOMAIN pathSets'[t]
               PROVE  LET p == pathSets'[t][i]
                      IN  /\ p.Target = t /\ p.RelayChain \in p.measured
                          /\ \A x \in p.measured : x # t /\ PathID(t, x) = i
    BY DEF OwnMetrics, PathID, DirectPathID, RelayPathID
  <2>1. i \in DOMAIN pathSets[t] /\ pathSets'[t][i] = pathSets[t][i]
    BY <1>2, PrunePaths
  <2> QED BY <2>1 DEF OwnMetrics
<1>3. CASE ~RecordResult /\ ~PruneStalePaths
  <2>1. pathSets' = pathSets
    BY <1>3 DEF Next, LoopStep, StartRound, EnumerateRelays, AllResults, TargetDone, ExitLoop,
                SendProbes, SendProbe, OpenStream, ReadEcho, Connect, Disconnect, Behave, Tick,
                Stop, vars
  <2> QED BY <2>1 DEF OwnMetrics, PathID, DirectPathID, RelayPathID
<1> QED BY <1>1, <1>2, <1>3

\* Whatever the peers' IDs have in common, no result is recorded under a path of
\* another ID, a relayed one never under the direct path, and none over the
\* target itself, in whatever order peers come and go between the listing of
\* relays, the probes and the recording.
THEOREM ResultsStayApart == Spec => []OwnMetrics
<1>1. Init => OwnMetrics
  BY DEF Init, OwnMetrics, NoPaths
<1>2. Inv /\ OwnMetrics /\ [Next]_vars => OwnMetrics'
  BY OwnNext
<1> QED BY <1>1, <1>2, Invariance, PTL DEF Spec

-----------------------------------------------------------------------------
(* A round records every result. *)

\* The result over relay r is recorded under its path to t.
Has(t, r) ==
    PathID(t, r) \in DOMAIN pathSets[t] /\ r \in pathSets[t][PathID(t, r)].measured

\* Target t has the result of each relay of the round.
Covered(t) == \A r \in {NoRelay} \cup (ToSet(relays) \ {t}) : Has(t, r)

\* The targets of a round that are done are covered, and the present one as far
\* as its results are recorded.
RoundInv ==
    /\ round \subseteq Peers
    /\ loop = "relays" => todo = round
    /\ loop = "targets" => \A t \in round \ todo : Covered(t)
    /\ loop \in {"probing", "record"} => \A t \in round \ (todo \cup {target}) : Covered(t)
    /\ loop = "record" => \A i \in 1 .. next - 1 : Has(target, RelayOf(i))

\* A step that keeps the paths of t and the relays keeps what is covered.
LEMMA CoveredStays ==
    ASSUME NEW t \in Peers, pathSets[t] = pathSets'[t], relays' = relays
    PROVE  Covered(t) => Covered(t)'
  BY DEF Covered, Has, PathID, DirectPathID, RelayPathID

\* Once all results are recorded, the target is covered.
LEMMA RecordedCovers ==
    ASSUME Inv, RoundInv, loop = "record", next > Len(results)
    PROVE  Covered(target)
<1> DEFINE n == Len(RelaysFor(target))
<1>1. n \in Nat /\ next = n + 2
  BY ResultsLength DEF Inv, LoopInv
<1>2. \A i \in 1 .. n + 1 : Has(target, RelayOf(i))
  BY <1>1 DEF RoundInv
<1>3. RelayOf(1) = NoRelay
  BY DEF RelayOf
<1>4. ASSUME NEW r \in ToSet(relays) \ {target}
      PROVE  \E i \in 1 .. n + 1 : RelayOf(i) = r
  <2>1. PICK k \in 1 .. Len(relays) : relays[k] = r
    BY DEF ToSet, Inv, LoopTypes
  <2>2. /\ relays \in Seq(RelayCapable)
        /\ \A i, j \in 1 .. Len(relays) : relays[i] = relays[j] => i = j
    BY DEF Inv, LoopTypes, LoopInv
  <2>3. \A i \in 1 .. Len(relays) : relays[i] # target =>
            \E j \in 1 .. n : RelaysFor(target)[j] = relays[i]
    BY <2>2, RelaysForProperties
  <2>4. PICK j \in 1 .. n : RelaysFor(target)[j] = r
    BY <2>1, <2>3
  <2>5. j + 1 \in 1 .. n + 1 /\ j + 1 # 1 /\ (j + 1) - 1 = j
    BY <1>1
  <2>6. RelayOf(j + 1) = r
    BY <2>4, <2>5 DEF RelayOf
  <2> QED BY <2>5, <2>6
<1>5. 1 \in 1 .. n + 1
  BY <1>1
<1> HIDE DEF n
<1>6. ASSUME NEW r \in {NoRelay} \cup (ToSet(relays) \ {target})
      PROVE  Has(target, r)
  BY <1>2, <1>3, <1>4, <1>5
<1> QED BY <1>6 DEF Covered

\* A result is recorded: its path has it, and no path loses one.
LEMMA RecordResultRound ==
    ASSUME Inv, RoundInv, RecordResult
    PROVE  RoundInv'
<1> DEFINE r == RelayOf(next)
           id == PathID(target, r)
           path == IF id \in DOMAIN pathSets[target] THEN pathSets[target][id]
                   ELSE NewPath(target, r)
           success == results[next] = "echo"
           q == Recorded(path, r, success)
<1>1. /\ loop = "record" /\ next <= Len(results) /\ next' = next + 1
      /\ UNCHANGED <<loop, todo, relays, target, results, round>>
  BY DEF RecordResult
<1>2. /\ target \in Peers
      /\ \A t \in Peers \ {target} : pathSets'[t] = pathSets[t]
      /\ DOMAIN pathSets'[target] = DOMAIN pathSets[target] \cup {id}
      /\ \A i \in DOMAIN pathSets[target] \ {id} : pathSets'[target][i] = pathSets[target][i]
      /\ pathSets'[target][id] = q
  BY RecordResultPaths
<1>3. ASSUME NEW t \in round \ (todo \cup {target}) PROVE Covered(t)'
  BY <1>1, <1>2, <1>3, CoveredStays DEF RoundInv
<1>4. q.measured = path.measured \cup {r}
  BY DEF Recorded
<1>5. id \in DOMAIN pathSets[target] => path = pathSets[target][id]
  OBVIOUS
<1> HIDE DEF q, path, success
<1>6. ASSUME NEW x, PathID(target, x) \in DOMAIN pathSets[target],
             x \in pathSets[target][PathID(target, x)].measured
      PROVE  /\ PathID(target, x) \in DOMAIN pathSets'[target]
             /\ x \in pathSets'[target][PathID(target, x)].measured
  BY <1>2, <1>4, <1>5, <1>6
<1>7. /\ PathID(target, r) \in DOMAIN pathSets'[target]
      /\ r \in pathSets'[target][PathID(target, r)].measured
  BY <1>2, <1>4
<1>8. \A i : RelayOf(i)' = RelayOf(i) /\ (PathID(target, RelayOf(i)))' = PathID(target, RelayOf(i))
  BY <1>1 DEF PathID, DirectPathID, RelayPathID, RelayOf, RelaysFor
<1>9. ASSUME NEW i \in 1 .. next' - 1
      PROVE  Has(target, RelayOf(i))'
  <2>1. next \in Nat
    BY <1>1, ResultsLength DEF Inv, LoopInv
  <2>2. i = next \/ i \in 1 .. next - 1
    BY <1>1, <2>1
  <2>3. i \in 1 .. next - 1 => Has(target, RelayOf(i))
    BY <1>1 DEF RoundInv
  <2> DEFINE x == RelayOf(i)
  <2>4. /\ PathID(target, x) \in DOMAIN pathSets'[target]
        /\ x \in pathSets'[target][PathID(target, x)].measured
    <3>1. CASE i = next
      BY <1>7, <3>1
    <3>2. CASE i \in 1 .. next - 1
      <4>1. Has(target, x)
        BY <2>3, <3>2
      <4> HIDE DEF x
      <4> QED BY <4>1, <1>6 DEF Has
    <3> QED BY <2>2, <3>1, <3>2
  <2> QED BY <1>1, <1>8, <2>4 DEF Has
<1>10. (\A i \in 1 .. next - 1 : Has(target, RelayOf(i)))'
  BY <1>9
<1>11. (\A t \in round \ (todo \cup {target}) : Covered(t))'
  BY <1>1, <1>3
<1> QED BY <1>1, <1>10, <1>11 DEF RoundInv

\* The other steps of the loop within a round.
LEMMA TargetsRound ==
    ASSUME Inv, RoundInv,
           EnumerateRelays \/ AllResults \/ TargetDone \/ \E t \in Peers : SendProbes(t)
    PROVE  RoundInv'
<1>1. pathSets' = pathSets /\ round' = round
  BY DEF EnumerateRelays, AllResults, TargetDone, SendProbes
<1>2. ASSUME relays' = relays, NEW t \in Peers, Covered(t) PROVE Covered(t)'
  BY <1>1, <1>2, CoveredStays
<1>3. CASE EnumerateRelays
  BY <1>1, <1>3 DEF EnumerateRelays, RoundInv
<1>4. CASE AllResults
  BY <1>1, <1>2, <1>4 DEF AllResults, RoundInv
<1>5. CASE TargetDone
  <2>1. /\ loop = "record" /\ next > Len(results) /\ loop' = "targets"
        /\ UNCHANGED <<todo, relays, round>>
    BY <1>5 DEF TargetDone
  <2>2. Covered(target)
    BY <2>1, RecordedCovers
  <2>3. ASSUME NEW t \in round \ todo PROVE Covered(t)'
    BY <1>2, <2>1, <2>2, <2>3 DEF RoundInv
  <2>4. (\A t \in round \ todo : Covered(t))'
    BY <2>1, <2>3
  <2> QED BY <2>1, <2>4 DEF RoundInv
<1>6. CASE \E t \in Peers : SendProbes(t)
  <2>1. PICK t \in Peers : SendProbes(t)
    BY <1>6
  <2>2. /\ loop = "targets" /\ loop' = "probing" /\ todo' = todo \ {t} /\ target' = t
        /\ relays' = relays
    BY <2>1 DEF SendProbes
  <2>3. ASSUME NEW u \in round \ (todo' \cup {t}) PROVE Covered(u)'
    BY <1>2, <2>2, <2>3 DEF RoundInv
  <2>4. (\A u \in round \ (todo \cup {target}) : Covered(u))'
    BY <1>1, <2>2, <2>3
  <2> QED BY <1>1, <2>2, <2>4 DEF RoundInv
<1> QED BY <1>3, <1>4, <1>5, <1>6

\* Every step keeps what a round has covered; pruning ends the round.
LEMMA RoundNext ==
    ASSUME Inv, RoundInv, [Next]_vars
    PROVE  RoundInv'
<1>1. CASE RecordResult
  BY <1>1, RecordResultRound
<1>2. CASE EnumerateRelays \/ AllResults \/ TargetDone \/ \E t \in Peers : SendProbes(t)
  BY <1>2, TargetsRound
<1>3. CASE StartRound
  BY <1>3 DEF StartRound, Inv, LoopTypes, RoundInv
<1>4. CASE PruneStalePaths \/ ExitLoop
  BY <1>4 DEF PruneStalePaths, ExitLoop, locals, RoundInv
<1>5. CASE ~LoopStep
  <2>1. UNCHANGED <<loop, todo, relays, target, next, round, pathSets>>
    BY <1>5 DEF Next, SendProbe, OpenStream, ReadEcho, Connect, Disconnect, Behave, Tick, Stop,
                locals, vars
  <2>2. \A i : Has(target, RelayOf(i))' = Has(target, RelayOf(i))
    BY <2>1 DEF Has, PathID, DirectPathID, RelayPathID, RelayOf, RelaysFor
  <2>3. ASSUME NEW t \in Peers, Covered(t) PROVE Covered(t)'
    BY <2>1, <2>3, CoveredStays
  <2> QED BY <2>1, <2>2, <2>3 DEF RoundInv
<1> QED BY <1>1, <1>2, <1>3, <1>4, <1>5 DEF LoopStep

\* Whatever peers do during a round and whatever their IDs have in common, the
\* round ends with the results of every probe recorded under the path of its ID:
\* what relays with equal prefixes lose (the run path_ids) are paths of their
\* own, not results.
THEOREM NoResultIsLost == Spec => []EveryResultRecorded
<1>1. Init => RoundInv
  BY DEF Init, RoundInv
<1>2. Inv /\ RoundInv /\ [Next]_vars => RoundInv'
  BY RoundNext
<1>3. RoundInv => EveryResultRecorded
  BY DEF RoundInv, Covered, Has, EveryResultRecorded
<1> QED BY <1>1, <1>2, <1>3, Invariance, PTL DEF Spec

=============================================================================
