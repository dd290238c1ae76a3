--------------------------- MODULE MCPublication ---------------------------
(* A small instance of Publication: two targets that one condition makes   *)
(* comparable, and room for one retry.                                     *)
EXTENDS Publication

mcMatrix ==
  <<[model |-> "m1", harness |-> "h", toolset |-> "t", condition |-> "c"],
    [model |-> "m2", harness |-> "h", toolset |-> "t", condition |-> "c"]>>

mcBenchmarks ==
  {[kind |-> "response", primary |-> "duration", direction |-> "lower"],
   [kind |-> "response", primary |-> "grade", direction |-> "higher"],
   [kind |-> "agentic", primary |-> "grade", direction |-> "higher"]}

Taken(d, t, g) == [duration |-> d, tokens |-> t, throughput |-> Missing, grade |-> g]

(* @@ and \o make explicit values of functions, which the workers share.   *)
Honest(warmups, samples) ==
  LET r == Report(warmups, samples, "grade") IN
  [kind |-> "response", honest |-> TRUE, status |-> r.status,
   metrics |-> r.metrics @@ <<>>, evidence |-> r.evidence \o <<>>]

slow == Honest(1, <<Taken(9, 1, Missing), Taken(2, 4, 1), Taken(2, Missing, 1)>>)
fast == Honest(0, <<Taken(1, 4, 0), Taken(2, 2, 1)>>)

(* The aggregates, against what they mean: percentiles are in order and    *)
(* inside the range, half of the values are on either side of the median,  *)
(* and the variance is that of the squares.                                *)
ASSUME AggregateReference ==
  \A values \in UNION {[1..n -> 0..4] : n \in 1..5} :
    LET a == Aggregate([i \in DOMAIN values |-> [v |-> values[i]]], "v")
        n == Len(values)
        sum == Total(values)
        squares == Total([i \in DOMAIN values |-> values[i] * values[i]])
    IN /\ \E i, j \in DOMAIN values :
            /\ \A k \in DOMAIN values : values[k] \in values[i]..values[j]
            /\ AtMost([num |-> values[i], den |-> 1], a.p50) /\ AtMost(a.p50, a.p95)
            /\ AtMost(a.p95, [num |-> values[j], den |-> 1])
       /\ Cardinality({i \in DOMAIN values : values[i] * a.p50.den <= a.p50.num}) * 2 >= n
       /\ Cardinality({i \in DOMAIN values : values[i] * a.p50.den >= a.p50.num}) * 2 >= n
       /\ Same(a.variance, [num |-> n * squares - sum * sum, den |-> n * n])

(* Reports of a runner whose aggregates or artifacts are not those of its  *)
(* samples, jobs that end without observations, and the agentic ones.      *)
mcOutcomes ==
  {slow, fast,
   [slow EXCEPT !.honest = FALSE, !.metrics["grade"] = Missing],
   [slow EXCEPT !.honest = FALSE, !.evidence = NoEvidence],
   [slow EXCEPT !.status = "failed", !.metrics = <<>>, !.evidence = NoEvidence]}
  \cup
  {[kind |-> "agentic", honest |-> TRUE, status |-> "completed",
    metrics |-> [grade |-> [num |-> 1, den |-> 1]], evidence |-> NoEvidence],
   [kind |-> "agentic", honest |-> TRUE, status |-> "failed",
    metrics |-> [grade |-> Missing], evidence |-> NoEvidence]}
=============================================================================
