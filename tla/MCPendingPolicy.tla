-------------------------- MODULE MCPendingPolicy --------------------------
(* Small instances of PendingPolicy for TLC: requests of two Threads.        *)
EXTENDS PendingPolicy, TLC

CONSTANTS r1, r2, t1, t2, c1, c2, p1, p2

TwoRequests == {r1, r2}
TwoThreads == (r1 :> t1) @@ (r2 :> t2)
ThreadOrder == <<t1, t2>>
TwoClients == {c1, c2}
TwoPolicies == {p1, p2}
\* No step prefers a client or a policy.
Symmetry == {f @@ g : f \in Permutations(TwoClients), g \in Permutations(TwoPolicies)}
=============================================================================
