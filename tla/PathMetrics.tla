---------------------------- MODULE PathMetrics ----------------------------
(***************************************************************************)
(* The quality record of one path (internal/pathpolicy/path.go).           *)
(*                                                                         *)
(* SuccessRate is a float in the code; here it is an integer number of     *)
(* RateUnit-ths.  Both are rounded to the nearest, so that a rate that is  *)
(* not 0 never becomes 0.  AvgRTT and Jitter are recomputed from the ring  *)
(* buffer by every successful probe and by nothing else, so they are       *)
(* operators of the buffer.  P95RTT and ThroughputEstimate, which are only *)
(* displayed, are left out.                                                *)
(***************************************************************************)
EXTENDS Integers, SequencesExt

CONSTANTS
    MaxRTTSamples,  \* maxRTTSamples, 20 in the code
    RateUnit        \* a SuccessRate of 1.0

ASSUME MetricsAssumption ==
    MaxRTTSamples \in Nat \ {0} /\ RateUnit \in Nat /\ RateUnit >= 100

NewMetrics ==
    [rttSamples |-> << >>, HopCount |-> 0, SuccessRate |-> 0,
     LastProbed |-> 0, SampleCount |-> 0]

KeepRecent(s) == IF Len(s) > MaxRTTSamples THEN Tail(s) ELSE s

\* Mutant of NewRate: the weights of the new and of the old are swapped.
NewRateSwapped(m, success) ==
    LET observed == IF success THEN RateUnit ELSE 0
    IN  IF m.SampleCount = 0 THEN observed
        ELSE (7 * observed + 3 * m.SuccessRate + 5) \div 10

\* The moving average has weight 3/10, and starts at the first sample.
NewRate(m, success) ==
    LET observed == IF success THEN RateUnit ELSE 0
    IN  IF m.SampleCount = 0 THEN observed
        ELSE (3 * observed + 7 * m.SuccessRate + 5) \div 10

\* A failed probe counts as a probe: it moves LastProbed.
RecordProbe(m, rtt, success, now) ==
    [m EXCEPT !.LastProbed = now,
              !.SampleCount = @ + 1,
              !.rttSamples = IF success THEN KeepRecent(Append(@, rtt)) ELSE @,
              !.SuccessRate = NewRate(m, success)]

AvgRTT(m) ==
    IF m.rttSamples = << >> THEN 0
    ELSE FoldFunction(+, 0, m.rttSamples) \div Len(m.rttSamples)

\* The standard deviation of the buffer, rounded down, from its second sample on.
Jitter(m) ==
    LET n     == Len(m.rttSamples)
        Sq(x) == (x - AvgRTT(m)) * (x - AvgRTT(m))
        v     == FoldFunction(LAMBDA x, sum : sum + Sq(x), 0, m.rttSamples) \div n
    IN  IF n < 2 THEN 0 ELSE CHOOSE j \in 0 .. v : j * j <= v /\ v < (j + 1) * (j + 1)

\* The threshold of pruneStalePaths, SuccessRate < 0.1.
RateBelowTenth(m) == 10 * m.SuccessRate < RateUnit

=============================================================================
