----------------------------- MODULE MCIngress -----------------------------
(***************************************************************************)
(* Small streams for TLC.                                                  *)
(***************************************************************************)
EXTENDS Ingress, TLC

CONSTANTS w1, w2, w3, e1, e2, e3, e4, k1, k2, s1

ThreeWorkers == {w1, w2, w3}

\* Three deliveries of one request and one of another of the session.
FourEntries == {e1, e2, e3, e4}
Repeated == (e1 :> k1) @@ (e2 :> k1) @@ (e3 :> k1) @@ (e4 :> k2)
OneSession == [e \in FourEntries |-> s1]
\* The other one is published second.
InOrder == (e1 :> {}) @@ (e4 :> {e1}) @@ (e2 :> {e1, e4}) @@ (e3 :> {e1, e4, e2})
=============================================================================
