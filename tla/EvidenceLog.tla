----------------------------- MODULE EvidenceLog -----------------------------
(***************************************************************************)
(* What the evidence store promises to everything that reads it: every     *)
(* change to a protocol's candidates is one revision of that protocol, a   *)
(* revision adds at most one run or withdraws some, and a run that is gone *)
(* never returns.  Receipt staleness and the answer cache rest on it.      *)
(***************************************************************************)
EXTENDS Naturals, FiniteSets

CONSTANT Proto

VARIABLES
  revision,   \* evidence.revision
  latest,     \* per protocol, the latest revision that touched it
  cohort      \* per protocol, its candidate rows [id, org, meas, suspect, rev]

logVars == <<revision, latest, cohort>>

Init ==
  /\ revision = 0
  /\ latest = [p \in Proto |-> 0]
  /\ cohort = [p \in Proto |-> {}]

Ids(C) == {<<r.id, r.org, r.meas, r.rev>> : r \in C}

\* One revision that touches the protocols P and no other.
Touch(P) ==
  /\ revision' = revision + 1
  /\ latest' = [p \in Proto |-> IF p \in P THEN revision + 1 ELSE latest[p]]
  /\ \A p \in Proto \ P : cohort'[p] = cohort[p]

\* An accepted run: a new candidate or none; it may flag earlier ones.
Accept(p) ==
  /\ Touch({p})
  /\ Ids(cohort[p]) \subseteq Ids(cohort'[p])
  /\ Cardinality(cohort'[p]) <= Cardinality(cohort[p]) + 1
  /\ \A r \in cohort'[p] : r.rev = revision + 1 \/ <<r.id, r.org, r.meas, r.rev>> \in Ids(cohort[p])

Withdraw(P) ==
  /\ Touch(P)
  /\ \A p \in P : cohort'[p] \subseteq cohort[p]

Next == (\E p \in Proto : Accept(p)) \/ (\E P \in (SUBSET Proto) \ {{}} : Withdraw(P))

Spec == Init /\ [][Next]_logVars
=============================================================================
