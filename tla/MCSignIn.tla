------------------------------ MODULE MCSignIn ------------------------------
(* One browser with two tabs; two organizations that reset their passwords,  *)
(* a node token that is revoked, and an operator token that a restart may    *)
(* take out of the configuration.                                            *)
EXTENDS SignIn, TLC

CONSTANTS o1, o2, x, b1, t1, t2, k1, w1

MCAddressOf == (b1 :> x)
MCBrowserOf == (t1 :> b1) @@ (t2 :> b1)

Alike == {f @@ g : f \in Permutations(Tab), g \in Permutations(Org)}

=============================================================================
