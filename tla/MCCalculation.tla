---------------------------- MODULE MCCalculation ----------------------------
(* Three organizations, two of them one contributor, and eight kinds of run: *)
(* fast and slow ones, one with a failed attempt, one that failed after its  *)
(* attempts and one that was excluded without any.                           *)
EXTENDS Calculation, TLC

CONSTANTS a, b, c, k1, k2

MCUnitOf == [o \in {a, b, c} |-> IF o = c THEN b ELSE o]

MCClaims ==
  {[name |-> "latency", kind |-> "distribution", minSucceeded |-> 1, minAttempted |-> Null],
   [name |-> "errors", kind |-> "rate", minSucceeded |-> Null, minAttempted |-> 2],
   [name |-> "classes", kind |-> "breakdown", minSucceeded |-> Null, minAttempted |-> Null]}

Ok(ms) == [status |-> "succeeded", ttft |-> ms]
No == [status |-> "failed", ttft |-> Null]

\* Two attempts were planned; a harness that did not finish leaves no result.
RunOf(org, status, attempts, origin, day) ==
  LET sum == Summarize(attempts, 2, Scale)
  IN  [org |-> org, status |-> status, attempts |-> attempts, day |-> day,
       result |-> IF status = "succeeded" THEN sum ELSE Null,
       acc |-> [planned |-> 2, attempted |-> sum.attempted, succeeded |-> sum.succeeded,
                failed |-> sum.failed, excluded |-> 2 - sum.attempted, unobserved |-> 0],
       origin |-> (k1 :> origin @@ k2 :> "measured")]

MCArrivals ==
  {RunOf(a, "succeeded", <<Ok(2), Ok(1)>>, "measured", 1),
   RunOf(a, "succeeded", <<Ok(7), Ok(5)>>, "unknown", 2),
   RunOf(b, "succeeded", <<Ok(1), Ok(3)>>, "provider_reported", 1),
   RunOf(b, "succeeded", <<Ok(9), Ok(9)>>, Null, 3),
   RunOf(b, "succeeded", <<Ok(4), No>>, "measured", 2),
   RunOf(c, "succeeded", <<Ok(8), Ok(6)>>, "measured", 2),
   RunOf(c, "failed", <<Ok(3), No>>, "unknown", 1),
   RunOf(c, "excluded", <<>>, Null, 3)}

=============================================================================
