------------------------ MODULE MCNetworkReconciler ------------------------
(***************************************************************************)
(* A finite instance of NetworkReconciler: two namespaces, a Service in    *)
(* one, and Networks that differ in interface, VIPs and allowlist.         *)
(***************************************************************************)
EXTENDS NetworkReconciler, TLC

CONSTANTS ns1, ns2, svc1, vlan1, vlan2, range1

TwoNamespaces == {ns1, ns2}
OneService == {svc1}
OneHome == svc1 :> ns1

\* A Network with a pool that only ns2 may use; one without a pool on another interface;
\* one whose annotations are wrong; a primary network.
SomeSpecs ==
    {[iface |-> vlan1, mtuValid |-> TRUE, vips |-> range1, allowlist |-> {ns2}],
     [iface |-> vlan2, mtuValid |-> TRUE, vips |-> NoVIPs, allowlist |-> {}],
     [iface |-> vlan1, mtuValid |-> FALSE, vips |-> BadVIPs, allowlist |-> {}],
     [iface |-> NoIface, mtuValid |-> TRUE, vips |-> range1, allowlist |-> {}]}
=============================================================================
