---------------------------- MODULE MCOperations ----------------------------
(***************************************************************************)
(* Finite instances of Operations: a cluster, the admin workstation and    *)
(* two OperationRecord objects, so that a resource is used again while the *)
(* task and the process of its first operation are still there.            *)
(***************************************************************************)
EXTENDS Operations, TLC

CONSTANTS c1, gemAdminWs, r1, r2

TwoNames == {c1, gemAdminWs}
OneName == {gemAdminWs}

\* Create and delete of one cluster beside the two-command teardown of the workstation.
MixedRequests ==
    ClusterRequests(c1) \cup {[type |-> "WORKSTATION_DELETE", name |-> gemAdminWs]}

\* A cluster and an edge router of the same name share an operation id.
SharedNameRequests ==
    {[type |-> "CLUSTER_CREATE", name |-> c1], [type |-> "WORKSTATION_DELETE", name |-> gemAdminWs]}
    \cup EdgeRouterRequests(c1)

\* One resource used again and again, with the shortest pipeline.
TeardownRequests == {[type |-> "WORKSTATION_DELETE", name |-> gemAdminWs]}

\* A build and a teardown of the same resource, of three and of two commands.
BuildAndTeardown == WorkstationRequests

TwoRecords == {r1, r2}
RecordSymmetry == Permutations(TwoRecords)

RealRunner == {FALSE}
AnyRunner == {TRUE, FALSE}
=============================================================================
