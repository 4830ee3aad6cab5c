----------------------------- MODULE MCDataKeys -----------------------------
(* Instances of DataKeys for TLC: three requests over two processes, two of  *)
(* them of one process and one organization; and two requests of one process *)
(* whose pool has just the clients they hold.                                *)
EXTENDS DataKeys, TLC

CONSTANTS p1, p2, s1, s2, s3, oA, oB

TwoProcs == s1 :> p1 @@ s2 :> p1 @@ s3 :> p2
OneProc == s1 :> p1 @@ s2 :> p1
MostlyA == s1 :> oA @@ s2 :> oA @@ s3 :> oA
TwoOrgs == s1 :> oA @@ s2 :> oB

=============================================================================
