--------------------------- MODULE MCQueryRelease ---------------------------
(* Model checking of QueryRelease: three organizations stand behind protocol *)
(* p, a fourth may join; t is a context filter two of them match.            *)
EXTENDS QueryRelease, TLC

CONSTANTS p, oA, oB, oC, oD, t

Stored(i, o, tags) ==
  [id |-> i, org |-> o, proto |-> p, meas |-> i, tags |-> tags, coop |-> TRUE,
   suspect |-> FALSE, rev |-> i]

ThreeOrgs == {Stored(1, oA, {t}), Stored(2, oB, {t}), Stored(3, oC, {})}

New(i, o, m, coop) ==
  [id |-> i, org |-> o, proto |-> p, meas |-> m, tags |-> {t}, coop |-> coop]

\* One that shares organization B's measurement, and a private one.
Joining == {New(6, oD, 2, TRUE), New(7, oC, 7, FALSE)}

Leaving == {{3}, {1, 2}}

Ask1(o, f, pin) == [org |-> o, proto |-> p, filter |-> f, pin |-> pin]

\* One question of two organizations, one with the filter, and one pinned, at
\* the seeded revision and above it.
Queries == {Ask1(oA, None, None), Ask1(oD, None, None), Ask1(oB, t, None),
            Ask1(oA, None, 3), Ask1(oA, None, 4)}

SessionSymmetry == Permutations(Session)
=============================================================================
