--------------------------- MODULE MCEvidenceStore ---------------------------
(* Model checking of EvidenceStore: two organizations, one of them with two   *)
(* nodes, and a handful of documents that share measurements.                 *)
EXTENDS EvidenceStore, TLC

CONSTANTS n1, n2, n3, oA, oB, p, q, m1

MCOrgOf == (n1 :> oA) @@ (n2 :> oA) @@ (n3 :> oB)

Run(i, n, pr) ==
  [id |-> i, node |-> n, proto |-> pr, meas |-> m1, fixture |-> FALSE, coop |-> TRUE]

By(o, n, ids) == [org |-> o, node |-> n, ids |-> ids]

\* Organization A twice (two nodes), organization B once, one measurement.
Shared == {Run(1, n1, p), Run(2, n2, p), Run(3, n3, p)}

\* Overlapping withdrawals by A, one by B, and one of a run B does not own.
Overlapping == {By(oA, n2, {1}), By(oA, None, {1, 2}), By(oB, None, {3}), By(oB, n3, {2})}

\* The same, with another content under a known run id, a fixture, and a run of
\* an unregistered protocol.
Mixed == Shared \union {[Run(1, n1, p) EXCEPT !.coop = FALSE],
                       [Run(4, n2, p) EXCEPT !.fixture = TRUE], Run(5, n1, q)}

\* Stored before the migration: three uploads of one measurement by A, of which
\* the first was withdrawn, and one by B.
Old == {Run(1, n1, p), Run(2, n1, p), Run(3, n2, p), Run(4, n3, p), Run(5, n3, p)}
OldGone == {Run(1, n1, p)}
OldUnreadable == {Run(5, n3, p)}
OldPreview == {Run(1, n1, p)}

SessionSymmetry == Permutations(Session)
=============================================================================
