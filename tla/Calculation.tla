----------------------------- MODULE Calculation -----------------------------
(***************************************************************************)
(* The calculation latency-v1 over one matched cohort                      *)
(* (packages/service/src/modules/aggregate/calc.ts) and what of it is      *)
(* released, beside the local report of a member over its own runs         *)
(* (packages/runner/src/report.ts).  The functions are pure; the only      *)
(* behaviour is that runs join the cohort one by one, in any order.        *)
(*                                                                         *)
(* A cohort is a list of runs, and what is filtered from it is the family  *)
(* of the runs that are left, each at its position: no result depends on   *)
(* their order.  A run is [org, status, attempts, acc, result, origin,     *)
(* day]: its attempts (which stay with the member), its accounting, the    *)
(* result its harness summarized (Null when it left none), the origin of   *)
(* each required context key, and the day it was received.                 *)
(***************************************************************************)
EXTENDS Statistics, Cohort

CONSTANTS
  UnitOf,        \* the contributor unit of each organization
  Claims,        \* [name, kind, minSucceeded, minAttempted] of the pack, permitted or not
  Permitted,     \* names of the claims the protocol permits
  Required,      \* required context keys
  Filtered,      \* those the query filters on
  Arrivals,      \* runs that may join
  MaxRuns,       \* bound: length of a cohort
  Scale,         \* rates are in units of 1/Scale
  TailRuns       \* TAIL_MINIMUM_RUNS

ASSUME CalculationAssumption ==
  /\ TailRuns \in Nat /\ Filtered \subseteq Required /\ Scale \in Nat \ {0}
  /\ Null \notin Nat

Counted == {"planned", "attempted", "succeeded", "failed", "excluded", "unobserved"}

Attempt == [status : {"succeeded", "failed"}, ttft : Nat \cup {Null}]

\* What the harness of a run leaves summarizes the attempts it made, and every
\* attempt that succeeded was timed.
ASSUME ArrivalsAssumption ==
  \A s \in Arrivals :
    /\ s.org \in DOMAIN UnitOf
    /\ s.attempts \in Seq(Attempt)
    /\ \A i \in DOMAIN s.attempts : s.attempts[i].status = "succeeded" => s.attempts[i].ttft # Null
    /\ s.result \in {Null, Summarize(s.attempts, s.acc.planned, Scale)}
    /\ \A f \in Counted : s.acc[f] \in Nat

VARIABLE samples   \* the cohort, in the order of its rows

NoRuns == samples = <<>>
Join == Len(samples) < MaxRuns /\ \E s \in Arrivals : samples' = Append(samples, s)
Growth == NoRuns /\ [][Join]_samples

-----------------------------------------------------------------------------
ParsedClaims == {c \in Claims : c.name \in Permitted /\ c.kind \in {"distribution", "rate"}}

Units(S) == {UnitOf[S[i].org] : i \in DOMAIN S}
RunsOfUnit(S, u) == Size(RestrictValues(S, LAMBDA s : UnitOf[s.org] = u))

Dominated(S) == \E u \in Units(S) : 2 * RunsOfUnit(S, u) > Size(S)

\* A latency distribution comes from succeeded attempts of a succeeded run.
Meets(c, s) ==
  /\ c.minSucceeded # Null => s.status = "succeeded" /\ s.acc.succeeded >= c.minSucceeded
  /\ c.minAttempted # Null => s.acc.attempted >= c.minAttempted

EligibleFor(c, S) == RestrictValues(S, LAMBDA s : Meets(c, s))

\* The result's number when there is one, else what the accounting says.
RateOf(s) ==
  IF s.result # Null /\ s.result.error_rate # Null THEN s.result.error_rate
  ELSE IF s.acc.attempted = 0 THEN Null
  ELSE (Scale * s.acc.failed) \div s.acc.attempted

StatOf(s, p) == IF s.result = Null THEN Null ELSE s.result.ttft.at[p]

Carried(S, p) == Present([i \in DOMAIN S |-> StatOf(S[i], p)])

Own(S, o) == RestrictValues(S, LAMBDA s : s.org = o)
Orgs(S) == {S[i].org : i \in DOMAIN S}
P50s(S, o) == Carried(Own(S, o), 50)

\* (Slip: one run is taken for a distribution.)
RangesOfAny(S) ==
  [o \in {o \in Orgs(S) : Size(P50s(S, o)) >= 1} |-> Quartiles(P50s(S, o))]

\* The interquartile range of every organization with two runs that carry p50.
Ranges(S) ==
  [o \in {o \in Orgs(S) : Size(P50s(S, o)) >= 2} |-> Quartiles(P50s(S, o))]

Contradicted(S) ==
  LET ranges == Ranges(S)
  IN  \E o, p \in DOMAIN ranges : o # p /\ IqrDisjoint(ranges[o], ranges[p])

Metric(c, S) ==
  IF c.kind = "distribution"
  THEN [p \in Percentiles |-> ExactSpread(Carried(S, p))]
  ELSE ExactSpread([i \in DOMAIN S |-> RateOf(S[i])])

ComputeClaim(c, S) ==
  LET e == EligibleFor(c, S)
  IN  [claim |-> c.name, eligible |-> Size(e), below |-> Size(S) - Size(e),
       orgs |-> Cardinality(Units(e)), dominated |-> Dominated(e),
       metric |-> Metric(c, e),
       contradicted |-> c.kind = "distribution" /\ Contradicted(e)]

Unfiltered == Required \ Filtered
Knows(s, k) == s.origin[k] \notin {Null, "unknown"}

\* What the loop over the runs adds up.
SumOf(S, field) == MapThenSumSet(LAMBDA i : S[i].acc[field], DOMAIN S)

Days(S) == {S[i].day : i \in DOMAIN S}

Compute(S) ==
  [runs     |-> Size(S),
   orgs     |-> Cardinality(Units(S)),
   claims   |-> {ComputeClaim(c, S) : c \in ParsedClaims},
   attempts |-> [f \in Counted |-> SumOf(S, f)],
   unknown  |-> Cardinality({i \in DOMAIN S : \E k \in Unfiltered : ~Knows(S[i], k)}),
   known    |-> [k \in Unfiltered |-> Cardinality({i \in DOMAIN S : Knows(S[i], k)})],
   days     |-> {d \in Days(S) : \A e \in Days(S) : d <= e} \cup
                {d \in Days(S) : \A e \in Days(S) : d >= e}]

-----------------------------------------------------------------------------
(* Release: every count a band, every claim that does not qualify withheld.  *)
ReleasedCount(n) == IF n >= 11 THEN <<n>> ELSE <<>>    \* <<>> is "<11"

ClaimReasons(x) ==
  {r \in {"min_orgs", "min_runs", "concentration"} :
     \/ r = "min_orgs" /\ x.orgs < MinOrgs
     \/ r = "min_runs" /\ x.eligible < MinRuns
     \/ r = "concentration" /\ x.dominated}

\* (Slip: the thresholds the whole cohort met are not met again per claim.)
ReleasableOfCohort(computation) == computation.claims

Releasable(computation) == {x \in computation.claims : ClaimReasons(x) = {}}

ReleaseSections(computation) ==
  LET released == Releasable(computation)
  IN  [findings       |-> {[claim |-> x.claim, reasons |-> ClaimReasons(x),
                            runs |-> RunRange(x.eligible), orgs |-> OrgRange(x.orgs)] :
                             x \in computation.claims},
       distributions  |-> {[claim |-> x.claim, metric |-> x.metric] : x \in released},
       contradictions |-> {x.claim : x \in {x \in released : x.contradicted}},
       attempts       |-> [f \in Counted |-> ReleasedCount(computation.attempts[f])],
       below          |-> {[claim |-> x.claim, runs |-> RunRange(x.below)] : x \in computation.claims},
       unknown        |-> RunRange(computation.unknown),
       known          |-> [k \in Unfiltered |-> RunRange(computation.known[k])],
       tail           |-> computation.runs >= TailRuns,
       days           |-> computation.days]

-----------------------------------------------------------------------------
(* The local report over one organization's runs: claims come from succeeded *)
(* runs alone, whatever the claim.                                           *)
\* (Slip: a run that did not succeed may count for a claim on attempts.)
ReportEligibleAny(c, s) == c.minAttempted # Null => s.acc.attempted >= c.minAttempted

ReportEligible(c, s) ==
  /\ s.status = "succeeded"
  /\ c.minSucceeded # Null => s.acc.succeeded >= c.minSucceeded
  /\ c.minAttempted # Null => s.acc.attempted >= c.minAttempted

ReportClaim(c, S) ==
  LET e == RestrictValues(S, LAMBDA s : ReportEligible(c, s))
      values == IF c.kind = "distribution" THEN Carried(e, 50)
                ELSE Present([i \in DOMAIN e |-> IF e[i].result = Null THEN Null
                                                 ELSE e[i].result.error_rate])
  IN  [claim |-> c.name, eligible |-> Size(e), across |-> ReportSpread(values)]

Report(S) ==
  [claims |-> {ReportClaim(c, S) : c \in ParsedClaims},
   runs   |-> [st \in {S[i].status : i \in DOMAIN S} |-> Size(RestrictValues(S, LAMBDA s : s.status = st))],
   attempts |-> [f \in Counted |-> SumOf(S, f)]]

-----------------------------------------------------------------------------
\* How many values are at most v.
UpTo(values, v) == Cardinality({i \in DOMAIN values : values[i] <= v})

\* v is the least of the values that p percent of them do not exceed.
IsPercentile(v, values, p) ==
  /\ \E i \in DOMAIN values : values[i] = v
  /\ 100 * UpTo(values, v) >= p * Size(values)
  /\ \A i \in DOMAIN values : values[i] < v => 100 * UpTo(values, values[i]) < p * Size(values)

IsSpread(spread, values) ==
  IF Size(values) = 0 THEN spread = Null
  ELSE \A p \in Percentiles : IsPercentile(spread.at[p], values, p)

(* Every percentile that is released is one of the values it was computed    *)
(* from and the least that so many of them do not exceed: across runs as the *)
(* service computes it, and within a run as the harness did.                 *)
SpreadsAreRanks ==
  /\ \A x \in Compute(samples).claims : \E c \in ParsedClaims : c.name = x.claim /\
       LET e == EligibleFor(c, samples) IN
       IF c.kind = "rate" THEN IsSpread(x.metric, Present([i \in DOMAIN e |-> RateOf(e[i])]))
       ELSE \A p \in Percentiles : IsSpread(x.metric[p], Carried(e, p))
  /\ \A i \in DOMAIN samples : LET got == Ttfts(Of(samples[i].attempts, "succeeded")) IN
       samples[i].result # Null /\ Size(got) # 0 =>
         \A p \in Percentiles : IsPercentile(samples[i].result.ttft.at[p], got, p)

\* Three quarters of one are at most a value that few of the other are at most.
Apart(low, high) ==
  \E i \in DOMAIN low :
    /\ 4 * UpTo(low, low[i]) >= 3 * Size(low)
    /\ 4 * UpTo(high, low[i]) < Size(high)

(* A contradiction is listed exactly when two organizations with at least    *)
(* two runs each are apart: three quarters of the values of one are at most   *)
(* some value that less than a quarter of the other's are at most.           *)
DisagreementIsReal ==
  \A x \in Compute(samples).claims : \E c \in ParsedClaims : c.name = x.claim /\
    LET P50(o) == P50s(EligibleFor(c, samples), o)
    IN  x.contradicted <=> c.kind = "distribution" /\
          \E o, p \in DOMAIN UnitOf :
            Size(P50(o)) >= 2 /\ Size(P50(p)) >= 2 /\ Apart(P50(o), P50(p))

(* What is released of a claim rests on enough runs of enough contributors   *)
(* that are eligible for this claim, and at least half of them are left when *)
(* any one contributor is taken away, whatever the whole cohort looks like.  *)
ReleasedClaimsQualify ==
  \A d \in ReleaseSections(Compute(samples)).distributions :
    \E c \in ParsedClaims : c.name = d.claim /\
      LET e == EligibleFor(c, samples)
      IN  /\ Size(e) >= MinRuns /\ Cardinality(Units(e)) >= MinOrgs
          /\ \A u \in Units(e) :
               2 * Size(RestrictValues(e, LAMBDA s : UnitOf[s.org] # u)) >= Size(e)

(* A member's local report rests no claim on a run the service would not     *)
(* count for it, and on the same runs the two agree: the service's p50 is    *)
(* the lower of the two middle values whose mean the report prints.          *)
ReportClaimsNoMore ==
  \A o \in DOMAIN UnitOf, c \in ParsedClaims :
    LET mine == Own(samples, o)
        theirs == ComputeClaim(c, mine)
        local == ReportClaim(c, mine)
        p50 == IF c.kind = "rate" THEN theirs.metric ELSE theirs.metric[50]
    IN  /\ local.eligible <= theirs.eligible
        /\ local.eligible = theirs.eligible /\ p50 # Null /\ p50.n = local.across.runs =>
             /\ 2 * p50.at[50] <= local.across.twiceMedian
             /\ p50.min = local.across.min /\ p50.max = local.across.max

=============================================================================
