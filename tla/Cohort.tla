------------------------------- MODULE Cohort -------------------------------
(***************************************************************************)
(* What a cohort is worth: contributors, the release thresholds and the    *)
(* differencing rule (packages/service/src/modules/cohort/index.ts,        *)
(* modules/aggregate/policy.ts).  A cohort is a finite set of rows         *)
(* [id, org, meas, suspect].                                               *)
(***************************************************************************)
EXTENDS Integers, FiniteSets, FiniteSetsExt

CONSTANTS
  MinOrgs,           \* MIN_ORGS
  MinRuns,           \* MIN_RUNS
  MinOrgDifference   \* MIN_ORG_DIFFERENCE

ASSUME CohortAssumption ==
  MinOrgs \in Nat /\ MinRuns \in Nat /\ MinOrgDifference \in Nat

OrgsOf(C) == {r.org : r \in C}

\* Two organizations of a cohort stand behind one flagged measurement.
SharedSourceOf(C) ==
  {l \in OrgsOf(C) \X OrgsOf(C) :
     \E r, s \in C : /\ r.org = l[1] /\ s.org = l[2]
                     /\ r.suspect /\ s.suspect /\ r.meas = s.meas}

\* contributorOf merges linked organizations: an organization's contributor is
\* the least set of organizations around it that links do not leave, which is
\* what the code's union-find computes.
Contributor(C, o) ==
  {a \in OrgsOf(C) :
     \A S \in SUBSET OrgsOf(C) :
       o \in S /\ (\A l \in SharedSourceOf(C) : l[1] \in S <=> l[2] \in S) => a \in S}

Contributors(C) == {Contributor(C, o) : o \in OrgsOf(C)}

RunsOf(C, unit) == Cardinality({r \in C : r.org \in unit})

\* (Slip: linked organizations count one by one.)
ThresholdReasonsByOrg(C) ==
  (IF Cardinality(OrgsOf(C)) < MinOrgs THEN {"min_orgs"} ELSE {}) \union
  (IF Cardinality(C) < MinRuns THEN {"min_runs"} ELSE {}) \union
  (IF \E o \in OrgsOf(C) : 2 * RunsOf(C, {o}) > Cardinality(C) THEN {"concentration"} ELSE {})

\* thresholdReasons: a contributor may supply at most half of the runs.
ThresholdReasons(C) ==
  (IF Cardinality(Contributors(C)) < MinOrgs THEN {"min_orgs"} ELSE {}) \union
  (IF Cardinality(C) < MinRuns THEN {"min_runs"} ELSE {}) \union
  (IF \E u \in Contributors(C) : 2 * RunsOf(C, u) > Cardinality(C)
   THEN {"concentration"} ELSE {})

\* The bands counts are released as.
RunRange(n) ==
  CASE n < 5 -> "<5" [] n \in 5..10 -> "5-10" [] n \in 11..50 -> "11-50" [] OTHER -> "51+"
OrgRange(n) ==
  CASE n < 3 -> "<3" [] n \in 3..5 -> "3-5" [] n \in 6..10 -> "6-10" [] OTHER -> "11+"

SymmetricDifference(A, B) == (A \ B) \union (B \ A)

\* A repeat is fine; anything else that is near an earlier release is not.
DifferencingConflict(priors, current) ==
  \E prior \in priors :
    /\ prior # current
    /\ Cardinality(SymmetricDifference(prior, current)) < MinOrgDifference
=============================================================================
