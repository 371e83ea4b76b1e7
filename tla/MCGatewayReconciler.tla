------------------------- MODULE MCGatewayReconciler -------------------------
(***************************************************************************)
(* Two networks with one pod each, behind one selector that matches both;  *)
(* a Gateway without a network, with a VIP of its CIDR, or with a static   *)
(* address.                                                                *)
(***************************************************************************)
EXTENDS GatewayReconciler

CONSTANTS n1, n2, p1, p2, s1

MCNetworks == {n1, n2}
MCCidrNetworks == {n1}
MCPods == {p1, p2}
MCSelectors == {s1}
MCNetworkOf == [p \in MCPods |-> IF p = p1 THEN n1 ELSE n2]
MCSelects == [s \in MCSelectors |-> MCPods]
MCSpecs == {[network |-> None, static |-> None], [network |-> n1, static |-> None],
            [network |-> n2, static |-> <<"static", n2>>]}

=============================================================================
