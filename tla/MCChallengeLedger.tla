-------------------------- MODULE MCChallengeLedger --------------------------
(* An instance of ChallengeLedger for TLC: one receipt that is older than    *)
(* claim rows, with two findings, and one that a later query releases. *)
EXTENDS ChallengeLedger, TLC

CONSTANTS s1, s2, oA, rOld, rNew, k1, k2, pr, pq

Owners == rOld :> oA @@ rNew :> oA
OneProtocol == rOld :> pq @@ rNew :> pq
Sessions12 == Permutations({s1, s2})
Findings == rOld :> {k1, k2} @@ rNew :> {k1}

=============================================================================
