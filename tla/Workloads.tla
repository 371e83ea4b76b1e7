------------------------------ MODULE Workloads ------------------------------
(***************************************************************************)
(* The endpoints that answer by running kubectl or gcloud:                 *)
(*   api/gem_api/routers/cluster_operations.py, projects.py, clusters.py   *)
(*   api/gem_api/services/k8s_client.py, gcp_client.py, process.py         *)
(*   api/gem_api/manifest.py                                               *)
(*                                                                         *)
(* A handler starts one short-lived process, waits for it with a timeout   *)
(* and turns the outcome into an HTTP answer.  The process, the API server *)
(* of the cluster and the handler run on their own: a request may be       *)
(* served while its process is being killed, or after its client has been  *)
(* told that it failed.                                                    *)
(*                                                                         *)
(* kubectl and the API server are external.  kubectl sends one mutating    *)
(* request; kubectl delete then waits until the object is gone.            *)
(***************************************************************************)
EXTENDS Naturals, FiniteSets

CONSTANTS
    Clusters, VMs, Pods,
    NumRequests,          \* bound on HTTP requests
    Inventory,            \* Inventory[c]: the nodes, networks and rootsyncs of cluster c
    PrimaryNetworks,      \* networks called pod-network or default, or of type L3
    ConfiguredNetworks,   \* secondary_networks of all.yaml
    Projects,             \* projects gcloud lists
    Membership,           \* Membership[m]: the state code of fleet member m
    Scenarios,            \* what clients ask for, and what there is when they do
    NoCluster, NoObject

Objects == VMs \cup Pods
Requests == 1 .. NumRequests

\* The requests that the routes accept.
VmCalls ==
    [endpoint : {"deploy_vm", "start_vm", "stop_vm", "delete_vm"}, obj : VMs, cluster : Clusters]
    \cup [endpoint : {"list_vms"}, obj : {NoObject}, cluster : Clusters]

PodCalls ==
    [endpoint : {"create_pod", "delete_pod"}, obj : Pods, cluster : Clusters]
    \cup [endpoint : {"list_pods"}, obj : {NoObject}, cluster : Clusters]

TelemetryCalls ==
    [endpoint : {"get_cluster_status", "list_secondary_networks", "list_rootsyncs"},
     obj : {NoObject}, cluster : Clusters]

GcloudCalls ==
    [endpoint : {"list_projects", "list_clusters"}, obj : {NoObject}, cluster : {NoCluster}]

AllCalls == VmCalls \cup PodCalls \cup TelemetryCalls \cup GcloudCalls

Creates == {"deploy_vm", "create_pod"}
Deletes == {"delete_vm", "delete_pod"}
Writes == Creates \cup Deletes \cup {"start_vm", "stop_vm"}

ASSUME WorkloadConstants ==
    /\ VMs \cap Pods = {} /\ NoObject \notin Objects /\ NoCluster \notin Clusters
    /\ NumRequests \in Nat
    /\ \A s \in Scenarios :
          /\ s.calls \in [Requests -> AllCalls]
          /\ s.env \in Clusters \cup {NoCluster} /\ s.fallback \in Clusters \cup {NoCluster}
          /\ s.own \subseteq Clusters /\ s.volatile \subseteq Clusters

VARIABLES
    store,        \* store[c][o]: [uid, state], uid 0 if there is no such object
    nextUid,
    req,          \* req[r]: the request, its handler and its process
    installed,    \* the programs that shutil.which finds
    env,          \* the cluster of the file that KUBECONFIG names
    own,          \* the clusters c that have a <c>-kubeconfig file
    fallback,     \* the cluster of the default kubeconfig file or, without one, of what kubectl
                  \* finds by itself (a list in KUBECONFIG, an in-cluster configuration)
    volatile,     \* the clusters whose own kubeconfig file will still come or go
    manifest      \* all.yaml has been loaded and is cached

vars == <<store, nextUid, req, installed, env, own, fallback, volatile, manifest>>
confVars == <<installed, env, fallback>>

Endpoint(r) == req[r].call.endpoint

Absent == [uid |-> 0, state |-> "absent"]

(***************************************************************************)
(* pc       "idle", "waiting" (communicate), "reaping" (wait), "answered"  *)
(* proc     "none", "running", "exited", "gone" (killed),                  *)
(*          "stuck" (killed, but the kernel does not let it go)            *)
(* reply    "none", "pending" (the API server may still act on it), or     *)
(*          what the process prints                                        *)
(* out      what a read returned                                           *)
(* hit      the uid of the object that the request changed (history)       *)
(* before   the requests answered when this one came in (history)          *)
(* owned    the named cluster had its own kubeconfig then (history)        *)
(***************************************************************************)
Awaited(k) ==
    [pc |-> "idle", call |-> k, target |-> NoCluster, proc |-> "none",
     reply |-> "none", out |-> {}, hit |-> 0, answer |-> 0, body |-> {}, before |-> {},
     owned |-> FALSE]

Init ==
    /\ \E s \in Scenarios :
          /\ req = [r \in Requests |-> Awaited(s.calls[r])]
          /\ store = [c \in Clusters |-> [o \in Objects |->
                         IF o \in s.present[c] THEN [uid |-> 1, state |-> "Running"] ELSE Absent]]
          /\ installed = s.installed
          /\ env = s.env /\ own = s.own /\ fallback = s.fallback /\ volatile = s.volatile
    /\ nextUid = 2
    /\ manifest = FALSE

-----------------------------------------------------------------------------
(***************************************************************************)
(* What the code computes.  Definitions whose comment starts with "Wrong:" *)
(* are variants of the definition below them with a plausible bug; no      *)
(* specification uses them.                                                *)
(***************************************************************************)

\* _find_kubeconfig: the first file there is, or whatever kubectl falls back on.
FindKubeconfig(c) == IF env # NoCluster THEN env ELSE IF c \in own THEN c ELSE fallback

Program(e) == IF e \in {"list_projects", "list_clusters"} THEN "gcloud" ELSE "kubectl"

\* Wrong: a timeout is reported with a status of its own.
RaiseForKubectlGatewayTimeout(result, ok, notFound, conflict) ==
    CASE result = "ok" -> ok
      [] result = "missing" -> 503
      [] result = "timeout" -> 504
      [] notFound /\ result = "notfound" -> 404
      [] conflict /\ result = "exists" -> 409
      [] OTHER -> 502

\* Wrong: an object that exists already is as good as created.
RaiseForKubectlIdempotent(result, ok, notFound, conflict) ==
    CASE result = "ok" \/ (conflict /\ result = "exists") -> ok
      [] result = "missing" -> 503
      [] notFound /\ result = "notfound" -> 404
      [] OTHER -> 502

\* Wrong: an object that cannot be deleted in time is taken for deleted.
RaiseForKubectlTimeoutIsSuccess(result, ok, notFound, conflict) ==
    CASE result = "ok" \/ (notFound /\ result = "timeout") -> ok
      [] result = "missing" -> 503
      [] notFound /\ result = "notfound" -> 404
      [] conflict /\ result = "exists" -> 409
      [] OTHER -> 502

\* Wrong: whatever goes wrong with an object that should exist is reported as its absence.
RaiseForKubectlAnyIsNotFound(result, ok, notFound, conflict) ==
    CASE result = "ok" -> ok
      [] result = "missing" -> 503
      [] notFound -> 404
      [] conflict /\ result = "exists" -> 409
      [] OTHER -> 502

\* _raise_for_kubectl, and the status of the route if it does not raise.
RaiseForKubectl(result, ok, notFound, conflict) ==
    CASE result = "ok" -> ok
      [] result = "missing" -> 503
      [] notFound /\ result = "notfound" -> 404
      [] conflict /\ result = "exists" -> 409
      [] OTHER -> 502

DeployVm(result) == RaiseForKubectl(result, 201, FALSE, TRUE)
PowerVm(result) == RaiseForKubectl(result, 200, TRUE, FALSE)
DeleteVm(result) == RaiseForKubectl(result, 200, TRUE, FALSE)
CreatePod(result) == RaiseForKubectl(result, 201, FALSE, TRUE)
DeletePod(result) == RaiseForKubectl(result, 200, TRUE, FALSE)

\* The reads never fail.  connected is true iff there are nodes.  The loops over networks
\* and fleet members keep what they had when an item raised; the others return nothing.
GetClusterStatus(result, out) == IF result = "ok" THEN out ELSE {}
ListVms(result, out) == IF result = "ok" THEN out ELSE {}
ListRootsyncs(result, out) == IF result = "ok" THEN out ELSE {}
ListPods(result, out) == IF result = "ok" THEN out ELSE {}
ListProjects(result, out) == IF result = "ok" THEN out ELSE {}

LiveNetworks(result, out) ==
    IF result \in {"ok", "garbled"} THEN out \ PrimaryNetworks ELSE {}

\* The live secondary networks; without one, or after an exception in the middle of the
\* list, those of all.yaml follow.
AllLive(result, out) == result = "ok" /\ LiveNetworks(result, out) # {}

ListSecondaryNetworks(result, out) ==
    LiveNetworks(result, out) \cup IF AllLive(result, out) THEN {} ELSE ConfiguredNetworks

MapFleetStatus(code) ==
    CASE code \in {"READY", "OK", "RUNNING"} -> "RUNNING"
      [] code \in {"CREATING", "UPDATING", "RECONCILING", "PROVISIONING"} -> "PROVISIONING"
      [] code \in {"DEGRADED", "SERVICE_DEGRADED"} -> "DEGRADED"
      [] code \in {"DELETING", "STOPPING", "STOPPED"} -> "STOPPED"
      [] OTHER -> "ERROR"

ListClusters(result, out) ==
    IF result \in {"ok", "garbled"}
    THEN {m \in out : MapFleetStatus(Membership[m]) = "RUNNING"} ELSE {}

Status(e, result) ==
    CASE e = "deploy_vm" -> DeployVm(result)
      [] e \in {"start_vm", "stop_vm"} -> PowerVm(result)
      [] e = "delete_vm" -> DeleteVm(result)
      [] e = "create_pod" -> CreatePod(result)
      [] e = "delete_pod" -> DeletePod(result)
      [] OTHER -> 200

Body(e, result, out) ==
    CASE e = "get_cluster_status" -> GetClusterStatus(result, out)
      [] e = "list_secondary_networks" -> ListSecondaryNetworks(result, out)
      [] e = "list_vms" -> ListVms(result, out)
      [] e = "list_rootsyncs" -> ListRootsyncs(result, out)
      [] e = "list_pods" -> ListPods(result, out)
      [] e = "list_projects" -> ListProjects(result, out)
      [] e = "list_clusters" -> ListClusters(result, out)
      [] OTHER -> {}

\* load_group_vars: a success is cached for good, a failure is not.
LoadGroupVars(loaded) == (manifest => loaded) /\ manifest' = loaded

\* list_clusters asks for the defaults of all.yaml at once, list_secondary_networks only if
\* it needs them.  Without the file the request ends in an unhandled exception.
NeedsManifest(e, result, out) ==
    \/ e = "list_clusters"
    \/ e = "list_secondary_networks" /\ ~AllLive(result, out)

\* The handler of r, whose state is w, returns or raises.  A write that is on its way to
\* the API server stays on its way, a process that runs goes on running.
Respond(r, w, result) ==
    \E loaded \in BOOLEAN :
       /\ IF NeedsManifest(w.call.endpoint, result, w.out)
          THEN LoadGroupVars(loaded) ELSE loaded /\ UNCHANGED manifest
       /\ req' = [req EXCEPT ![r] = [w EXCEPT
                    !.pc = "answered", !.out = {},
                    !.proc = IF @ = "running" THEN @ ELSE "none",
                    !.reply = IF @ = "pending" /\ w.call.endpoint \in Writes THEN @ ELSE "none",
                    !.answer = IF loaded THEN Status(w.call.endpoint, result) ELSE 500,
                    !.body = IF loaded THEN Body(w.call.endpoint, result, w.out) ELSE {}]]

-----------------------------------------------------------------------------
(***************************************************************************)
(* The handlers                                                            *)
(***************************************************************************)
\* r is the next request to arrive.
Due(r) == \A q \in Requests : (req[q].pc = "idle") <=> q >= r

Arrived(r) ==
    [req[r] EXCEPT
        !.target = IF Program(Endpoint(r)) = "kubectl" THEN FindKubeconfig(req[r].call.cluster) ELSE NoCluster,
        !.owned = req[r].call.cluster \in own,
        !.before = {q \in Requests : req[q].pc = "answered"}]

\* A request arrives and _exec_kubectl, list_projects or list_clusters starts its process.
Exec(r) ==
    /\ Due(r)
    /\ Program(Endpoint(r)) \in installed
    /\ IF Endpoint(r) = "list_clusters" THEN LoadGroupVars(TRUE) ELSE UNCHANGED manifest
    /\ req' = [req EXCEPT ![r] = [Arrived(r) EXCEPT
                 !.pc = "waiting", !.proc = "running", !.reply = "pending"]]
    /\ UNCHANGED <<store, nextUid, own, volatile, confVars>>

\* There is no such program, or it cannot be started (OSError).
ExecFails(r) ==
    /\ Due(r)
    /\ Respond(r, Arrived(r), IF Program(Endpoint(r)) \in installed THEN "error" ELSE "missing")
    /\ UNCHANGED <<store, nextUid, own, volatile, confVars>>

\* communicate() returns.
Complete(r) ==
    /\ req[r].pc = "waiting"
    /\ req[r].proc = "exited"
    /\ Respond(r, req[r], req[r].reply)
    /\ UNCHANGED <<store, nextUid, own, volatile, confVars>>

\* Wrong: wait_for is given up, the child is left alone.
TimesOutWithoutKill(r) ==
    /\ req[r].pc = "waiting"
    /\ req' = [req EXCEPT ![r].pc = "reaping"]
    /\ UNCHANGED <<store, nextUid, own, volatile, confVars, manifest>>

\* The timeout expires, perhaps when the process has just ended: proc.kill().
TimesOut(r) ==
    /\ req[r].pc = "waiting"
    /\ \E p \in {"gone", "stuck"} :
          req' = [req EXCEPT ![r].pc = "reaping", ![r].proc = IF @ = "running" THEN p ELSE @]
    /\ UNCHANGED <<store, nextUid, own, volatile, confVars, manifest>>

\* Wrong: the killed child is awaited without a timeout.
ReapForever(r) ==
    /\ req[r].pc = "reaping"
    /\ req[r].proc # "stuck"
    /\ Respond(r, req[r], "timeout")
    /\ UNCHANGED <<store, nextUid, own, volatile, confVars>>

\* The child has been reaped, or has not gone within _REAP_TIMEOUT.
Reap(r) ==
    /\ req[r].pc = "reaping"
    /\ Respond(r, req[r], "timeout")
    /\ UNCHANGED <<store, nextUid, own, volatile, confVars>>

-----------------------------------------------------------------------------
(***************************************************************************)
(* kubectl, gcloud and the clusters (external).                            *)
(***************************************************************************)
Current(r) == store[req[r].target][req[r].call.obj]

Applies(e, obj) == IF e \in Creates THEN obj = Absent ELSE obj # Absent

After(e, obj) ==
    CASE e \in Creates -> [uid |-> nextUid, state |-> "Running"]
      [] e \in Deletes -> [obj EXCEPT !.state = "terminating"]
      [] e = "start_vm" /\ obj.state # "terminating" -> [obj EXCEPT !.state = "Running"]
      [] e = "stop_vm" /\ obj.state # "terminating" -> [obj EXCEPT !.state = "Stopped"]
      [] OTHER -> obj

\* A process that is still there ends with the given output.
Exited(w, result) ==
    [w EXCEPT !.reply = result, !.proc = IF @ = "running" THEN "exited" ELSE @]

\* The API server gets to a write, whether or not its sender is still alive.
Serve(r) ==
    LET e == Endpoint(r) IN
    /\ req[r].reply = "pending" /\ e \in Writes /\ req[r].target # NoCluster
    /\ IF Applies(e, Current(r))
       THEN /\ store' = [store EXCEPT ![req[r].target][req[r].call.obj] = After(e, @)]
            /\ req' = [req EXCEPT ![r].reply = "ok", ![r].hit = After(e, Current(r)).uid]
       ELSE /\ req' = [req EXCEPT ![r] = Exited(@, IF e \in Creates THEN "exists" ELSE "notfound")]
            /\ UNCHANGED store
    /\ nextUid' = IF store' # store /\ e \in Creates THEN nextUid + 1 ELSE nextUid
    /\ UNCHANGED <<own, volatile, confVars, manifest>>

Listed(kind, c) == {o \in kind : store[c][o] # Absent}

Content(e, c) ==
    CASE e = "get_cluster_status" -> Inventory[c].nodes
      [] e = "list_secondary_networks" -> Inventory[c].networks
      [] e = "list_rootsyncs" -> Inventory[c].rootsyncs
      [] e = "list_vms" -> Listed(VMs, c)
      [] e = "list_pods" -> Listed(Pods, c)
      [] e = "list_projects" -> Projects
      [] e = "list_clusters" -> DOMAIN Membership

\* A read; its output may be empty, not be JSON or be malformed after a first part of the
\* list, although the process succeeds.
ServeRead(r) ==
    LET e == Endpoint(r) IN
    /\ req[r].reply = "pending" /\ req[r].proc = "running"
    /\ e \notin Writes /\ (Program(e) = "kubectl" => req[r].target # NoCluster)
    /\ \/ req' = [req EXCEPT ![r] = [Exited(@, "ok") EXCEPT !.out = Content(e, req[r].target)]]
       \/ \E part \in SUBSET Content(e, req[r].target) :
             req' = [req EXCEPT ![r] = [Exited(@, "garbled") EXCEPT !.out = part]]
    /\ UNCHANGED <<store, nextUid, own, volatile, confVars, manifest>>

\* The process fails before anything was asked of the cluster: no connection, or something
\* else that is "not found" (a namespace, a credential helper).
FailsEarly(r) ==
    /\ req[r].reply = "pending" /\ req[r].proc = "running"
    /\ \E err \in {"error", "notfound"} : req' = [req EXCEPT ![r] = Exited(@, err)]
    /\ UNCHANGED <<store, nextUid, own, volatile, confVars, manifest>>

\* The process of a write that was served ends: kubectl delete once the object is gone, or
\* any of them with an error because the connection broke.
Exit(r) ==
    /\ req[r].proc = "running" /\ req[r].reply = "ok"
    /\ \/ /\ Endpoint(r) \in Deletes => Current(r).uid # req[r].hit
          /\ req' = [req EXCEPT ![r] = Exited(@, "ok")]
       \/ req' = [req EXCEPT ![r] = Exited(@, "error")]
    /\ UNCHANGED <<store, nextUid, own, volatile, confVars, manifest>>

Terminated(c, o) ==
    /\ store[c][o].state = "terminating"
    /\ store' = [store EXCEPT ![c][o] = Absent]
    /\ UNCHANGED <<nextUid, req, own, volatile, confVars, manifest>>

\* The pipelines and administrators write and remove kubeconfig files.
KubeconfigChanges(c) ==
    /\ c \in volatile /\ volatile' = volatile \ {c}
    /\ own' = IF c \in own THEN own \ {c} ELSE own \cup {c}
    /\ UNCHANGED <<store, nextUid, req, confVars, manifest>>

-----------------------------------------------------------------------------
Handler(r) == Complete(r) \/ TimesOut(r) \/ Reap(r)

Next ==
    \/ \E r \in Requests : \/ Exec(r) \/ ExecFails(r) \/ Complete(r) \/ TimesOut(r) \/ Reap(r)
                           \/ Serve(r) \/ ServeRead(r) \/ FailsEarly(r) \/ Exit(r)
    \/ \E c \in Clusters : KubeconfigChanges(c) \/ \E o \in Objects : Terminated(c, o)

Spec == Init /\ [][Next]_vars

\* The event loop runs what is ready and its timers expire.  Nothing is assumed of kubectl,
\* of the clusters or of the death of a killed process.
FairSpec == Spec /\ \A r \in Requests : WF_vars(Handler(r))

-----------------------------------------------------------------------------
Answered(r) == req[r].pc = "answered"
SameObject(r, q) == req[r].target = req[q].target /\ req[r].call.obj = req[q].call.obj

\* What a process may list.
Listable ==
    Objects \cup Projects \cup DOMAIN Membership \cup
    UNION {Inventory[c].nodes \cup Inventory[c].networks \cup Inventory[c].rootsyncs : c \in Clusters}

Phases == {"idle", "waiting", "reaping", "answered"}
ProcStates == {"none", "running", "exited", "gone", "stuck"}
Replies == {"none", "pending", "ok", "garbled", "notfound", "exists", "error"}
StatusCodes == {0, 200, 201, 404, 409, 500, 502, 503}

RequestType ==
    [pc : Phases, call : AllCalls, target : Clusters \cup {NoCluster}, proc : ProcStates,
     reply : Replies, out : SUBSET Listable, hit : Nat, answer : StatusCodes,
     body : SUBSET (Listable \cup ConfiguredNetworks), before : SUBSET Requests, owned : BOOLEAN]

\* Type correctness of the clusters, the requests and the configuration files.
TypeOK ==
    /\ store \in [Clusters -> [Objects -> [uid : Nat, state : {"absent", "Running", "Stopped", "terminating"}]]]
    /\ nextUid \in Nat
    /\ req \in [Requests -> RequestType]
    /\ env \in Clusters \cup {NoCluster} /\ fallback \in Clusters \cup {NoCluster}
    /\ own \subseteq Clusters /\ volatile \subseteq Clusters
    /\ manifest \in BOOLEAN

\* A write that is answered with success took effect, and a deleted object is gone, however
\* its process, its timeout and the API server raced.
SuccessMeansDone ==
    \A r \in Requests :
        Answered(r) /\ Endpoint(r) \in Writes /\ req[r].answer \in {200, 201} =>
            /\ req[r].hit # 0
            /\ Endpoint(r) \in Deletes => Current(r).uid # req[r].hit

\* After 404, 409, 500 or 503 the request has changed nothing and never will; 502 alone
\* leaves the client in doubt.
RefusalIsDefinite ==
    \A r \in Requests :
        req[r].answer \in {404, 409, 500, 503} =>
            req[r].hit = 0 /\ req[r].reply # "pending"

\* A process that outlives its request has been killed (communicate_or_kill).
LeftoverIsKilled == \A r \in Requests : Answered(r) => req[r].proc # "running"

\* A list that shows anything shows every object whose creation had been answered with 201
\* before the list was asked for, of the same cluster, unless a delete reached the object.
ReadYourWrites ==
    \A l, w \in Requests :
        /\ Answered(l) /\ req[l].body # {} /\ w \in req[l].before /\ req[w].answer = 201
        /\ req[l].target = req[w].target
        /\ \/ Endpoint(l) = "list_vms" /\ Endpoint(w) = "deploy_vm"
           \/ Endpoint(l) = "list_pods" /\ Endpoint(w) = "create_pod"
        => \/ req[w].call.obj \in req[l].body
           \/ \E d \in Requests : Endpoint(d) \in Deletes /\ SameObject(d, w) /\ req[d].hit = req[w].hit

\* An object whose deletion has succeeded is there again only because of a create that was
\* not over when the delete came in, or that had been answered with 502.
NoResurrection ==
    \A d \in Requests :
        Answered(d) /\ Endpoint(d) \in Deletes /\ req[d].answer = 200 /\ Current(d) # Absent =>
            \E w \in Requests : /\ Endpoint(w) \in Creates /\ SameObject(w, d)
                                /\ req[w].hit = Current(d).uid
                                /\ w \notin req[d].before \/ req[w].answer = 502

\* Every request is answered in the end, although kubectl may hang and ignore SIGKILL: there
\* comes a time from which no request that was made is open.
EveryRequestAnswered == <>[](\A r \in Requests : req[r].pc # "idle" => Answered(r))
=============================================================================
