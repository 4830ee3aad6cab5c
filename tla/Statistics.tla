----------------------------- MODULE Statistics -----------------------------
(***************************************************************************)
(* The statistics of the program, on finite families of naturals (a value  *)
(* for each run, or each attempt, of a list; none where it was left out):  *)
(* nearest-rank percentiles as the service computes them across runs       *)
(* (aggregate/calc.ts), as a pack's harness computes them over the         *)
(* attempts of one run, and the spread of the runner's local report.       *)
(* p/100*n is exact arithmetic here: for the percentiles used the code's   *)
(* floating point rounds to the same rank.                                 *)
(***************************************************************************)
EXTENDS Naturals, Sequences, FiniteSets, Functions

CONSTANT Null     \* a value that is not there

Size(values) == Cardinality(DOMAIN values)
Present(values) == RestrictValues(values, LAMBDA v : v # Null)

\* The ascending array: equal values keep their order.
UpToPlace(values, i) ==
  {j \in DOMAIN values : values[j] < values[i] \/ (values[j] = values[i] /\ j <= i)}
Place(values, i) == Cardinality(UpToPlace(values, i))
Sorted(values) ==
  [k \in 1..Size(values) |-> values[CHOOSE i \in DOMAIN values : Place(values, i) = k]]

Ceiling(a, b) == (a + b - 1) \div b
AtLeast(a, b) == IF a < b THEN b ELSE a
AtMost(a, b) == IF a > b THEN b ELSE a

\* (Slip: the floor instead of the ceiling.)
RankBelow(n, p) == AtMost(AtLeast((p * n) \div 100, 1), n)

Rank(n, p) == AtMost(AtLeast(Ceiling(p * n, 100), 1), n)

NearestRank(sorted, p) == sorted[Rank(Len(sorted), p)]

Percentiles == {50, 90, 95, 99}

ExactSpread(values) ==
  LET s == Sorted(Present(values))
  IN  IF Len(s) = 0 THEN Null
      ELSE [n |-> Len(s), min |-> s[1], max |-> s[Len(s)],
            at |-> [p \in Percentiles |-> NearestRank(s, p)]]

Quartiles(values) ==
  LET s == Sorted(values) IN [q1 |-> NearestRank(s, 25), q3 |-> NearestRank(s, 75)]

IqrDisjoint(a, b) == a.q3 < b.q1 \/ b.q3 < a.q1

-----------------------------------------------------------------------------
(* The harness: an attempt is [status, ttft].  Only succeeded attempts have  *)
(* samples, and a percentile of no sample is null.                           *)
Percentile(sorted, p) ==
  IF Len(sorted) = 0 THEN Null
  ELSE sorted[AtLeast(AtMost(Ceiling(p * Len(sorted), 100), Len(sorted)), 1)]

Distribution(values) ==
  LET s == Sorted(Present(values))
  IN  [samples |-> Len(s),
       min |-> IF Len(s) = 0 THEN Null ELSE s[1],
       max |-> IF Len(s) = 0 THEN Null ELSE s[Len(s)],
       at  |-> [p \in Percentiles |-> Percentile(s, p)]]

Of(attempts, status) == RestrictValues(attempts, LAMBDA a : a.status = status)
Ttfts(attempts) == [i \in DOMAIN attempts |-> attempts[i].ttft]

\* Rates are in units of 1/scale.
Summarize(attempts, planned, scale) ==
  LET failed == Size(Of(attempts, "failed"))
  IN  [planned    |-> planned,
       attempted  |-> Size(attempts),
       succeeded  |-> Size(Of(attempts, "succeeded")),
       failed     |-> failed,
       error_rate |-> IF Size(attempts) = 0 THEN Null ELSE (scale * failed) \div Size(attempts),
       ttft       |-> Distribution(Ttfts(Of(attempts, "succeeded")))]

-----------------------------------------------------------------------------
\* The report's median, doubled: the mean of the two middle values.
TwiceMedian(values) ==
  LET s == Sorted(values)
      half == Len(s) \div 2
  IN  IF Len(s) = 0 THEN Null
      ELSE IF Len(s) % 2 = 1 THEN 2 * s[half + 1] ELSE s[half] + s[half + 1]

ReportSpread(values) ==
  LET s == Sorted(values)
  IN  [runs |-> Len(s), twiceMedian |-> TwiceMedian(values),
       min |-> IF Len(s) = 0 THEN Null ELSE s[1], max |-> IF Len(s) = 0 THEN Null ELSE s[Len(s)]]

=============================================================================
