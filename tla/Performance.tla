---------------------------- MODULE Performance ----------------------------
(***************************************************************************)
(* What a runner reports of a response benchmark: the samples, their       *)
(* aggregates (packages/performance) and the observations computed from    *)
(* them (response-executor.ts).  Pure definitions; values are fractions    *)
(* [num, den] of integers, compared exactly.                               *)
(***************************************************************************)
EXTENDS Integers, Sequences, SequencesExt, TLC

CONSTANT Missing        \* null: a value that was not reported

Fraction == [num : Int, den : Nat \ {0}]

Telemetry == {"duration", "tokens", "throughput"}

Measurement == Int \cup {Missing}
RawSample == [duration : Int, tokens : Measurement, throughput : Measurement, grade : Measurement]
Sample == [duration : Int, tokens : Measurement, throughput : Measurement, grade : Measurement,
           phase : {"warmup", "measured"}]

(* Sample metrics are whole numbers in the smallest unit the checks need.  *)
SampleScale == 2

Same(x, y) ==
  IF x = Missing \/ y = Missing THEN x = y ELSE x.num * y.den = y.num * x.den

AtMost(x, y) == x.num * y.den <= y.num * x.den

(* Throughput is missing when the tokens are, or when no time has passed.  *)
NormalizeSample(s) ==
  [s EXCEPT !.throughput =
     IF s.tokens = Missing \/ s.duration <= 0 THEN Missing
     ELSE (s.tokens * SampleScale) \div s.duration]

(* What SelectSeq keeps, by the places it keeps (a function, so that its    *)
(* values can be reasoned about).                                          *)
Subsequence(s, kept) ==
  LET prefix[n \in 0..Len(s)] ==
        IF n = 0 THEN <<>>
        ELSE IF n \in kept THEN Append(prefix[n - 1], s[n]) ELSE prefix[n - 1]
  IN prefix[Len(s)]

Reported(samples, metric) ==
  Subsequence([i \in DOMAIN samples |-> samples[i][metric]],
              {i \in DOMAIN samples : samples[i][metric] # Missing})

Total(values) == FoldSeq(LAMBDA v, sum : v + sum, 0, values)

(* Mutant of Mean.                                                         *)
MeanOfAll(samples, metric) ==
  LET values == Reported(samples, metric) IN
  IF values = <<>> THEN Missing ELSE [num |-> Total(values), den |-> Len(samples)]

(* Samples that lack the metric do not count.                              *)
Mean(samples, metric) ==
  LET values == Reported(samples, metric) IN
  IF values = <<>> THEN Missing ELSE [num |-> Total(values), den |-> Len(values)]

(* percentile, linearly interpolated, of a quantile [num, den].            *)
Percentile(values, q) ==
  LET sorted == SortSeq(values, <)
      position == (Len(values) - 1) * q.num
      lower == sorted[position \div q.den + 1]
      upper == IF position % q.den = 0 THEN lower ELSE sorted[position \div q.den + 2]
  IN IF values = <<>> THEN Missing
     ELSE [num |-> lower * q.den + (upper - lower) * (position % q.den), den |-> q.den]

(* The variance of the whole population.                                   *)
Variance(values) ==
  LET n == Len(values)
      FromMean(v) == (n * v - Total(values)) * (n * v - Total(values))
  IN IF values = <<>> THEN Missing
     ELSE [num |-> Total([i \in DOMAIN values |-> FromMean(values[i])]), den |-> n * n * n]

Median == [num |-> 1, den |-> 2]
P95 == [num |-> 19, den |-> 20]

Aggregate(samples, metric) ==
  LET values == Reported(samples, metric) IN
  [available |-> Len(values), missing |-> Len(samples) - Len(values),
   mean |-> Mean(samples, metric),
   p50 |-> Percentile(values, Median), p95 |-> Percentile(values, P95),
   variance |-> Variance(values)]

(* collectPerformanceSamples: the warm-up is sampled first, and kept.      *)
CollectSamples(warmups, rawSamples) ==
  [i \in DOMAIN rawSamples |->
     LET s == NormalizeSample(rawSamples[i]) IN
     [duration |-> s.duration, tokens |-> s.tokens, throughput |-> s.throughput,
      grade |-> s.grade, phase |-> IF i <= warmups THEN "warmup" ELSE "measured"]]

Measured(samples) ==
  Subsequence(samples, {i \in DOMAIN samples : samples[i].phase = "measured"})

(* The observations that go with the samples.                              *)
Observations(samples, metrics) == [m \in metrics |-> Mean(Measured(samples), m)]

(* The observations of a completed job and its evidence artifact.          *)
Report(warmups, rawSamples, gradeMetric) ==
  LET samples == CollectSamples(warmups, rawSamples) IN
  [status |-> "completed",
   metrics |-> Observations(samples, Telemetry \cup {gradeMetric}),
   evidence |-> samples]
=============================================================================
