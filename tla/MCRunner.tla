------------------------------ MODULE MCRunner ------------------------------
(* One home, two commands at a time.  The workloads: another pack's harness; *)
(* two runs of one plan; a run that may die; a recorded run previewed and    *)
(* submitted under two policies, with a crash, lost answers and an expiry;   *)
(* policy edits around a run of an empty home.                               *)
EXTENDS Runner, TLC

CONSTANTS p1, p2, r1, r2, m1, k1

\* Processes are only compared with each other.
Alike == Permutations(Procs)

Priced == [n \in {"per_request_usd", "usd_per_1m_prompt_tokens", "usd_per_1m_completion_tokens"} |->
             IF n = "usd_per_1m_completion_tokens" THEN Null ELSE 1]
Known == [k \in {k1} |-> m1]

MCAsks == {[kind |-> "fixture", prices |-> Priced, context |-> Known],
           [kind |-> "service", prices |-> Priced, context |-> <<>>]}
MCCostModel == [kind |-> "flat_per_request", flat |-> Null, fixture |-> 0, prompt |-> 1,
                needs |-> {"per_request_usd"}]

Budget(k, n) == [left |-> [x \in Kinds |-> IF x \in DOMAIN n THEN n[x] ELSE 0],
                 home |-> k, plan |-> None, recorded |-> IF k = "recorded" THEN {r1} ELSE {}]
Planning == [ask |-> CHOOSE a \in MCAsks : a.kind = "fixture", allowed |-> TRUE, runs |-> {}]

MCWorkload ==
  {Budget("ready", [run |-> 1, stray |-> 1]),
   [Budget("ready", [run |-> 2]) EXCEPT !.plan = Planning],
   [Budget("ready", [run |-> 1, crash |-> 1]) EXCEPT !.plan = Planning],
   Budget("recorded", [preview |-> 3, submit |-> 2, crash |-> 1, lost |-> 1, tick |-> 1]),
   Budget("empty", [init |-> 1, edit |-> 2, plan |-> 1, run |-> 1])}

=============================================================================
