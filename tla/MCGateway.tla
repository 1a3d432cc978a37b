------------------------------- MODULE MCGateway -------------------------------
(* A small instance for TLC of the Gateway's calls and of its tests. *)
EXTENDS GatewayTests, TLC

CONSTANTS g1, g2, k1, k2, k3, m1

\* A connection that retries and one that does not, a model both of them serve.
Pools == k1 :> g1 @@ k2 :> g1 @@ k3 :> g2
ServedByBoth == {<<g1, m1>>, <<g2, m1>>}
===============================================================================
