----------------------------- MODULE MCPodIPAM -----------------------------
(***************************************************************************)
(* A /28 network whose gateway is .1 and whose only host addresses outside *)
(* the node range are .10 to .14.  VIPs and a gateway CIDR leave .10, .11  *)
(* and .14, so that three pods can exhaust it.                             *)
(***************************************************************************)
EXTENDS PodIPAM, TLC

CONSTANTS a, b, c, d, net

AllPods == {a, b, c, d}
AllNetworks == {net}
Primary == {"pod-network"}
AllTexts == {net, "pod-network", "", "eth0", "eth1", "eth2"}

Iface(n, name) == [network |-> n, name |-> name]
Entry(n, iface, ips) == [name |-> n, iface |-> iface, ips |-> ips]

\* a: one interface; b: two on the same network, one of them already in its Multus
\* annotation without an address; c: brings an address and asks for one more; d: none.
Specs ==
    (a :> [interfaces |-> <<Iface("pod-network", "eth0"), Iface(net, "eth1")>>,
           multus |-> <<>>])
    @@ (b :> [interfaces |-> <<Iface(net, "eth1"), Iface(net, "eth2")>>,
              multus |-> <<Entry(net, "", {})>>])
    @@ (c :> [interfaces |-> <<Iface(net, "eth1"), Iface(net, "eth2")>>,
              multus |-> <<Entry(net, "eth1", {266})>>])
    @@ (d :> [interfaces |-> <<Iface("pod-network", "eth0")>>, multus |-> <<>>])

Nets ==
    (net :> [gateway4 |-> 257, prefixLength4 |-> 28,
             vips |-> {[kind |-> "range", first |-> 268, last |-> 268]},
             cidrs |-> {[kind |-> "cidr", first |-> 269, last |-> 32]}])
=============================================================================
