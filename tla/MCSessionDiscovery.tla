-------------------------- MODULE MCSessionDiscovery --------------------------
(* The instances of SessionDiscovery that TLC checks. *)
EXTENDS SessionDiscovery, TLC

CONSTANTS p1, p2, p3, r1, r2

ProxySymmetry == Permutations(Proxies) \cup Permutations(Readers)
=============================================================================
