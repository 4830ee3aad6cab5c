----------------------------- MODULE RunRecord -----------------------------
(***************************************************************************)
(* What the runner decides from what it was given (packages/runner):       *)
(* whether a pack is the one the registry accepted, what a run may cost,   *)
(* which context is known, and, from what the harness left behind, the     *)
(* accounting and the execution status of the run.                         *)
(***************************************************************************)
EXTENDS Naturals, Sequences, FiniteSets

CONSTANT Null   \* a context value that is not known, a price that is not given

Statuses == {"succeeded", "failed", "excluded", "unobserved"}

(* What an attempts.jsonl says, in any order: how many lines of each status; *)
(* bad when the file is missing or a line is not an attempt.                 *)
Reported(lines) ==
  lines["succeeded"] + lines["failed"] + lines["excluded"] + lines["unobserved"]

\* (Slip: only attempts that were made count as reported.)
MissingAttempts(lines, planned) ==
  LET made == lines["succeeded"] + lines["failed"]
  IN  IF made < planned THEN planned - made ELSE 0

Missing(lines, planned) ==
  IF Reported(lines) < planned THEN planned - Reported(lines) ELSE 0

\* Attempts the harness never reported go to the remainder.
Accounting(lines, planned, remainder) ==
  LET counted == [s \in Statuses |->
                    IF s = remainder THEN lines[s] + Missing(lines, planned) ELSE lines[s]]
  IN  [planned    |-> IF Reported(lines) > planned THEN Reported(lines) ELSE planned,
       attempted  |-> lines["succeeded"] + lines["failed"],
       succeeded  |-> counted["succeeded"], failed     |-> counted["failed"],
       excluded   |-> counted["excluded"],  unobserved |-> counted["unobserved"]]

(* Context fields are functions from keys: the operator's to values, the     *)
(* harness's to [value, origin].                                             *)
HarnessWins == {"measured", "provider_reported"}

Wins(k, harness) == k \in DOMAIN harness /\ harness[k].origin \in HarnessWins

Merged(k, operator, harness) ==
  IF ~Wins(k, harness) /\ k \in DOMAIN operator
  THEN [value |-> operator[k], origin |-> "operator_reported"]
  ELSE IF k \in DOMAIN harness THEN harness[k]
  ELSE [value |-> Null, origin |-> "unknown"]

Unknown(required, operator, harness) ==
  {k \in required : Merged(k, operator, harness).value = Null}

Overrides(operator, harness) ==
  {k \in DOMAIN operator : Wins(k, harness) /\ operator[k] # harness[k].value}

(* A pack's cost model, or Null when it declares none.  Null is also the     *)
(* estimate of a target that cannot be priced.  Amounts are micro-dollars.   *)
FixturePrice(model) == IF model = Null THEN 0 ELSE model.fixture

Unpriced(model, prices) == {n \in model.needs : prices[n] = Null}

Price(prices, n) == IF prices[n] = Null THEN 0 ELSE prices[n]

PerRequest(model, prices) ==
  IF model.flat # Null THEN model.flat ELSE prices["per_request_usd"]

PerTokens(model, prices, maxTokens) ==
  model.prompt * Price(prices, "usd_per_1m_prompt_tokens")
    + maxTokens * Price(prices, "usd_per_1m_completion_tokens")

EstimateCost(model, kind, planned, maxTokens, prices) ==
  IF kind = "fixture" THEN planned * FixturePrice(model)
  ELSE IF model = Null \/ Unpriced(model, prices) # {} THEN Null
  ELSE IF model.kind = "per_request_tokens" THEN planned * PerTokens(model, prices, maxTokens)
  ELSE IF PerRequest(model, prices) = Null THEN Null
  ELSE planned * PerRequest(model, prices)

Affordable(estimate, budget) == estimate # Null /\ estimate <= budget

(* The digests and the status of a pack are compared with the manifest's in  *)
(* this order, so that a tampered harness is reported as one although it     *)
(* changes the protocol digest too.  d is the set of what differs.           *)
VerifyOrder == <<"ref", "harness", "protocol", "result_schema", "context_schema", "pack", "status">>

FirstOf(order, d) ==
  LET found == {i \in DOMAIN order : order[i] \in d}
  IN  IF found = {} THEN "none" ELSE order[CHOOSE i \in found : \A j \in found : i <= j]

VerifyPack(d) == FirstOf(VerifyOrder, d)

(* What the runner saw of a harness: whether the egress guard logged a       *)
(* denial, whether the runner killed it, its exit code (Null after a         *)
(* signal), its attempt lines, its result.json ("valid", "invalid" or        *)
(* "missing"), and which required context the merge left unknown or out of   *)
(* the pack's schema.                                                        *)
ByExitCode(code) ==
  CASE code = 0 -> [status |-> "succeeded",  reason |-> "none", remainder |-> "excluded"]
    [] code = 2 -> [status |-> "excluded",   reason |-> "harness_protocol_violation",
                    remainder |-> "excluded"]
    [] code = 3 -> [status |-> "unobserved", reason |-> "none", remainder |-> "unobserved"]
    [] OTHER    -> [status |-> "failed",     reason |-> "none", remainder |-> "unobserved"]

Verdict(seen) ==
  IF seen.egress
  THEN [status |-> "excluded", reason |-> "egress_denied", remainder |-> "excluded"]
  ELSE IF seen.timedOut
  THEN [status |-> "failed", reason |-> "none", remainder |-> "unobserved"]
  ELSE ByExitCode(seen.code)

\* (Slip: unknown context is taken as it is.)
UnbackedByCount(seen, planned) ==
  FirstOf(<<"attempt_count_mismatch", "result_schema_invalid">>,
    (IF seen.bad \/ Reported(seen.lines) # planned THEN {"attempt_count_mismatch"} ELSE {})
    \cup (IF seen.result # "valid" THEN {"result_schema_invalid"} ELSE {}))

\* A harness cannot report success without attempts to back it, a valid result
\* and known required context.
Unbacked(seen, planned) ==
  FirstOf(<<"attempt_count_mismatch", "result_schema_invalid",
            "required_context_unknown", "context_schema_violation">>,
    (IF seen.bad \/ Reported(seen.lines) # planned THEN {"attempt_count_mismatch"} ELSE {})
    \cup (IF seen.result # "valid" THEN {"result_schema_invalid"} ELSE {})
    \cup (IF seen.unknown THEN {"required_context_unknown"} ELSE {})
    \cup (IF seen.offSchema THEN {"context_schema_violation"} ELSE {}))

\* (Slip: the reason is not recorded.)
OutcomeUnexplained(seen, planned) ==
  LET v == Verdict(seen)
  IN  IF v.status = "succeeded" /\ Unbacked(seen, planned) # "none"
      THEN [v EXCEPT !.status = "excluded"] ELSE v

Outcome(seen, planned) ==
  LET v == Verdict(seen)
      why == Unbacked(seen, planned)
  IN  IF v.status = "succeeded" /\ why # "none"
      THEN [v EXCEPT !.status = "excluded", !.reason = why] ELSE v

Draft(seen, planned) ==
  LET o == Outcome(seen, planned)
  IN  [status |-> o.status, reason |-> o.reason,
       accounting |-> Accounting(seen.lines, planned, o.remainder)]

=============================================================================
