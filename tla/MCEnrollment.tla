---------------------------- MODULE MCEnrollment ----------------------------
(* An instance of Enrollment for TLC: the seeded organization and one that   *)
(* the operator creates.                                                     *)
EXTENDS Enrollment, TLC

CONSTANTS r1, r2, seedOrg, acme, ks

RequestSymmetry == Permutations(Requests)

=============================================================================
