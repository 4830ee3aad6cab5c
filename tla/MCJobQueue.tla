----------------------------- MODULE MCJobQueue -----------------------------
(* Model checking of JobQueue: one job with a handler, one periodic job of a *)
(* kind nobody handles, two workers.                                         *)
EXTENDS JobQueue

CONSTANTS k1, k2, w1, w2

OneJob == {k1}
TwoJobs == {k1, k2}
Periodic == {k2}
TwoWorkers == {w1, w2}
=============================================================================
