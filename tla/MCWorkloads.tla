---------------------------- MODULE MCWorkloads ----------------------------
(***************************************************************************)
(* A finite instance of Workloads: two clusters, one of which may be       *)
(* reached by way of the default kubeconfig, one VM and two pods.          *)
(* GcpTarget, which has no behaviour, is evaluated on a few texts.         *)
(***************************************************************************)
EXTENDS Workloads, GcpTarget, TLC

CONSTANTS c1, c2, vm1, pod1, pod2, node1, node2, net1, net2, sync1, proj1, m1, m2

TwoClusters == {c1, c2}
OneVM == {vm1}
TwoPods == {pod1, pod2}
OnePrimary == {net1}
OneConfigured == {net2}
OneProject == {proj1}
TwoMembers == m1 :> "READY" @@ m2 :> "DEGRADED"
SomeInventory ==
    c1 :> [nodes |-> {node1}, networks |-> {net1}, rootsyncs |-> {sync1}] @@
    c2 :> [nodes |-> {node2}, networks |-> {net1, net2}, rootsyncs |-> {}]

Pod1(e) == [endpoint |-> e, obj |-> pod1, cluster |-> c1]
VM1(e) == [endpoint |-> e, obj |-> vm1, cluster |-> c1]
Read(e) == [endpoint |-> e, obj |-> NoObject, cluster |-> c1]
Gcloud(e) == [endpoint |-> e, obj |-> NoObject, cluster |-> NoCluster]

\* c1 has its own kubeconfig; c2 is the cluster of the default one.
Scenario(calls, inC1, inC2) ==
    [calls |-> calls, present |-> c1 :> inC1 @@ c2 :> inC2, installed |-> {"kubectl", "gcloud"},
     env |-> NoCluster, own |-> {c1}, fallback |-> c2, volatile |-> {}]

PodRaces == <<Pod1("create_pod"), Pod1("delete_pod"), Read("list_pods")>>
VmRaces == <<VM1("deploy_vm"), VM1("stop_vm"), Read("list_vms")>>
Reads == <<Read("get_cluster_status"), Read("list_secondary_networks"), Read("list_rootsyncs")>>
GcloudReads == <<Gcloud("list_projects"), Gcloud("list_clusters"), Gcloud("list_clusters")>>

SomeScenarios ==
    {Scenario(PodRaces, {pod1, pod2}, {}),
     Scenario(<<Pod1("delete_pod"), Pod1("create_pod"), Read("list_pods")>>, {pod1, pod2}, {}),
     Scenario(<<Pod1("create_pod"), Pod1("create_pod"), Pod1("delete_pod")>>, {}, {}),
     Scenario(VmRaces, {}, {}),
     Scenario(<<VM1("delete_vm"), VM1("start_vm"), VM1("deploy_vm")>>, {vm1}, {}),
     Scenario(Reads, {}, {}),
     Scenario(GcloudReads, {}, {}),
     \* the kubeconfig of c1 goes; KUBECONFIG is set; there is no kubeconfig; none but the
     \* default one; no kubectl
     [Scenario(PodRaces, {pod2}, {pod1, pod2}) EXCEPT !.volatile = {c1}],
     [Scenario(PodRaces, {pod2}, {pod1}) EXCEPT !.env = c2],
     [Scenario(PodRaces, {}, {}) EXCEPT !.own = {}, !.fallback = NoCluster],
     [Scenario(Reads, {}, {}) EXCEPT !.own = {}],
     [Scenario(VmRaces, {}, {}) EXCEPT !.installed = {}],
     [Scenario(Reads, {}, {}) EXCEPT !.installed = {}]}

-----------------------------------------------------------------------------
SomeZones == {"us-east5-b", "us-central1-a"}
SomeRegions == {"us-east5", "us-central1"}
SomePlaceholders == {"null"}
SomeProjects == {"gem-project", "gem-default-project"}
SomeEmails == {"sa@gem-project.iam"}
SomeText == SomeZones \cup SomeRegions \cup SomePlaceholders \cup SomeProjects \cup SomeEmails
            \cup {"", "us", " us-east5"}
SomeStrip == [t \in SomeText |-> IF t = " us-east5" THEN "us-east5" ELSE t]
SomeRegionPart ==
    [t \in SomeText |-> CASE t = "us-east5-b" -> "us-east5" [] t = "us-central1-a" -> "us-central1"
                         [] t \in SomeRegions \cup {" us-east5"} -> "us"
                         [] t = "gem-project" -> "us" [] t = "gem-default-project" -> "gem-project"
                         [] t \in SomeEmails -> "us" [] OTHER -> NoText]
SomeLength == [t \in SomeText |-> IF t = "gem-default-project" THEN 19 ELSE 11]
SomeServiceAccount == [t \in SomeText |-> "sa@gem-project.iam"]
SomeStateBucket == [t \in SomeText |-> "gem-project"]

\* The two cases that the theorems set apart do occur: a request with a region and no zone
\* gets a zone of another region; swapped values, which are refused, would be swapped back.
ASSUME TargetCasesOccur ==
    LET defaults == [project |-> "gem-project", zone |-> "us-central1-a"]
        regionOnly == [project |-> NoText, zone |-> "null", region |-> " us-east5", sa |-> NoText]
        swapped == [project |-> "", zone |-> "us-east5", region |-> "us-east5-b", sa |-> NoText]
    IN  /\ Accepts(regionOnly)
        /\ LET context == PrepareGcpContext(Validated(regionOnly), NoText, defaults)
           IN  context.zone = "us-central1-a" /\ context.region = "us-east5"
        /\ ~Accepts(swapped)
        /\ LET context == PrepareGcpContext(swapped, NoText, defaults)
           IN  context.zone = "us-east5-b" /\ context.region = "us-east5"
        /\ ResolveDefault("", "us-east5-b", NoText, FallbackZone) = FallbackZone

=============================================================================
