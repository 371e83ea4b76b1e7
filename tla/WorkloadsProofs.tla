--------------------------- MODULE WorkloadsProofs ---------------------------
(***************************************************************************)
(* Proofs about Workloads, for any number of requests, clusters and        *)
(* objects: what an answer tells the client, although the process, its     *)
(* timeout and the API server race, and what the objects of a cluster owe  *)
(* their existence to.                                                     *)
(***************************************************************************)
EXTENDS Workloads, TLAPS

\* The state of one request, whatever the clusters contain.
LocalOK(r) ==
    /\ req[r].pc = "idle" =>
          req[r].proc = "none" /\ req[r].reply = "none" /\ req[r].hit = 0 /\ req[r].before = {}
    /\ req[r].pc = "answered" <=> req[r].answer # 0
    /\ req[r].answer = 0 => req[r].body = {}
    /\ req[r].pc = "reaping" => req[r].proc # "running"
    /\ req[r].pc = "answered" => req[r].proc = "none"
    /\ req[r].proc = "exited" => req[r].reply # "pending"
    /\ Endpoint(r) \notin Writes => req[r].hit = 0

\* What the reply, or the answer, says of the object that was changed.
HitOK(r) ==
    /\ req[r].reply = "pending" => req[r].hit = 0 /\ (Answered(r) => req[r].answer = 502)
    /\ ~Answered(r) /\ req[r].reply \in {"none", "notfound", "exists"} => req[r].hit = 0
    /\ Endpoint(r) \in Writes /\ req[r].reply = "ok" => req[r].hit # 0
    /\ Endpoint(r) \in Writes /\ req[r].answer \in {200, 201} => req[r].hit # 0
    /\ req[r].answer \in {404, 409, 500, 503} => req[r].hit = 0

\* Where the request acts.
TargetOK(r) == req[r].hit # 0 => req[r].target \in Clusters

RequestOK == \A r \in Requests : LocalOK(r) /\ HitOK(r) /\ TargetOK(r)

\* An object has a uid of its own, or none.
StoreOK ==
    /\ nextUid >= 2
    /\ \A c \in Clusters, o \in Objects :
          /\ store[c][o].uid < nextUid
          /\ store[c][o].uid = 0 <=> store[c][o] = Absent
          /\ store[c][o].state = "absent" <=> store[c][o] = Absent

\* Where an object has been changed there is that object, a later one or none.
UidOK ==
    \A r \in Requests :
        req[r].hit # 0 =>
            req[r].hit < nextUid /\ (Current(r).uid = 0 \/ Current(r).uid >= req[r].hit)

\* An object that was not there from the start has been created by a request.
CreatedOK ==
    \A c \in Clusters, o \in Objects :
        store[c][o].uid >= 2 =>
            \E w \in Requests : /\ Endpoint(w) \in Creates /\ req[w].target = c /\ req[w].call.obj = o
                                /\ req[w].hit = store[c][o].uid

\* The object of c called o with the given uid was deleted by a request.
DeletedByRequest(c, o, uid) ==
    \E d \in Requests : /\ Endpoint(d) \in Deletes /\ req[d].target = c /\ req[d].call.obj = o
                        /\ req[d].hit = uid

\* An object goes, and is gone, because of a request that deletes it.
EndingOK ==
    \A c \in Clusters, o \in Objects :
        store[c][o].state = "terminating" => DeletedByRequest(c, o, store[c][o].uid)

KeptOK ==
    \A w \in Requests :
        Endpoint(w) \in Creates /\ req[w].hit # 0 =>
            \/ Current(w).uid = req[w].hit
            \/ DeletedByRequest(req[w].target, req[w].call.obj, req[w].hit)

\* A delete that was reported as successful, or will be, has outlived its object.
GoneOK ==
    \A d \in Requests :
        /\ Endpoint(d) \in Deletes
        /\ (req[d].proc = "exited" /\ req[d].reply = "ok") \/ req[d].answer \in {200, 201}
        => Current(d).uid # req[d].hit

\* What a request finds was changed before by those answered before it, unless with 502.
BeforeOK ==
    \A d \in Requests : \A w \in req[d].before :
        /\ Answered(w)
        /\ SameObject(w, d) /\ req[w].answer # 502 /\ req[d].hit # 0 => req[w].hit <= req[d].hit

\* Request w creates objects that request l lists, and was answered with 201 before.
CreatedFor(w, l) ==
    /\ w \in req[l].before /\ req[w].answer = 201 /\ req[l].target = req[w].target
    /\ \/ Endpoint(l) = "list_vms" /\ Endpoint(w) = "deploy_vm"
       \/ Endpoint(l) = "list_pods" /\ Endpoint(w) = "create_pod"

ListOK ==
    \A l, w \in Requests :
        CreatedFor(w, l) =>
            \/ DeletedByRequest(req[w].target, req[w].call.obj, req[w].hit)
            \/ /\ req[l].reply = "ok" => req[w].call.obj \in req[l].out
               /\ req[l].body # {} => req[w].call.obj \in req[l].body

\* The inductive invariant.
WorkloadInv ==
    /\ TypeOK /\ RequestOK
    /\ StoreOK /\ UidOK /\ CreatedOK /\ EndingOK /\ KeptOK
    /\ GoneOK /\ BeforeOK /\ ListOK

-----------------------------------------------------------------------------
\* What the routes accept.
LEMMA CallTypes ==
    ASSUME NEW k \in AllCalls
    PROVE  /\ k.endpoint \in Writes => k.obj \in Objects /\ k.cluster \in Clusters
           /\ k.endpoint = "deploy_vm" => k.obj \in VMs
           /\ k.endpoint = "create_pod" => k.obj \in Pods
           /\ k.endpoint \in Writes \cup {"list_vms", "list_pods", "get_cluster_status", "list_projects",
                              "list_clusters", "list_secondary_networks", "list_rootsyncs"}
           /\ Program(k.endpoint) = "kubectl" => k.cluster \in Clusters
<1> USE DEF Objects, Writes, Creates, Deletes, Program
<1>1. CASE k \in VmCalls BY <1>1 DEF VmCalls
<1>2. CASE k \in PodCalls BY <1>2 DEF PodCalls
<1>3. CASE k \in TelemetryCalls BY <1>3 DEF TelemetryCalls
<1>4. CASE k \in GcloudCalls BY <1>4 DEF GcloudCalls
<1> QED BY <1>1, <1>2, <1>3, <1>4 DEF AllCalls

\* What a status says of the result it was made from, for a request that writes.
Says(status, result) ==
    /\ status \in {200, 201, 404, 409, 502, 503}
    /\ status \in {200, 201} => result = "ok"
    /\ status = 404 => result = "notfound"
    /\ status = 409 => result = "exists"
    /\ status = 503 => result = "missing"
    /\ result \in {"timeout", "pending", "error"} => status = 502

\* The status of an answer, and when it is one of success, of refusal or of doubt.
LEMMA StatusMeaning ==
    ASSUME NEW e, NEW result
    PROVE  /\ e \in Writes => Says(Status(e, result), result)
           /\ e \notin Writes => Status(e, result) = 200
<1>1. Says(RaiseForKubectl(result, 201, FALSE, TRUE), result)
  <2>1. CASE result = "exists"
    <3>1. RaiseForKubectl(result, 201, FALSE, TRUE) = 409 BY <2>1 DEF RaiseForKubectl
    <3>2. Says(409, result) BY <2>1 DEF Says
    <3> QED BY <3>1, <3>2, Zenon
  <2>2. CASE result = "ok"
    <3>1. RaiseForKubectl(result, 201, FALSE, TRUE) = 201 BY <2>2 DEF RaiseForKubectl
    <3>2. Says(201, result) BY <2>2 DEF Says
    <3> QED BY <3>1, <3>2, Zenon
  <2>3. CASE result = "missing"
    <3>1. RaiseForKubectl(result, 201, FALSE, TRUE) = 503 BY <2>3 DEF RaiseForKubectl
    <3>2. Says(503, result) BY <2>3 DEF Says
    <3> QED BY <3>1, <3>2, Zenon
  <2>4. CASE result \notin {"exists", "ok", "missing"}
    <3>1. RaiseForKubectl(result, 201, FALSE, TRUE) = 502 BY <2>4 DEF RaiseForKubectl
    <3>2. Says(502, result) BY <2>4 DEF Says
    <3> QED BY <3>1, <3>2, Zenon
  <2> QED BY <2>1, <2>2, <2>3, <2>4
<1>2. Says(RaiseForKubectl(result, 200, TRUE, FALSE), result)
  <2>1. CASE result = "notfound"
    <3>1. RaiseForKubectl(result, 200, TRUE, FALSE) = 404 BY <2>1 DEF RaiseForKubectl
    <3>2. Says(404, result) BY <2>1 DEF Says
    <3> QED BY <3>1, <3>2, Zenon
  <2>2. CASE result = "ok"
    <3>1. RaiseForKubectl(result, 200, TRUE, FALSE) = 200 BY <2>2 DEF RaiseForKubectl
    <3>2. Says(200, result) BY <2>2 DEF Says
    <3> QED BY <3>1, <3>2, Zenon
  <2>3. CASE result = "missing"
    <3>1. RaiseForKubectl(result, 200, TRUE, FALSE) = 503 BY <2>3 DEF RaiseForKubectl
    <3>2. Says(503, result) BY <2>3 DEF Says
    <3> QED BY <3>1, <3>2, Zenon
  <2>4. CASE result \notin {"notfound", "ok", "missing"}
    <3>1. RaiseForKubectl(result, 200, TRUE, FALSE) = 502 BY <2>4 DEF RaiseForKubectl
    <3>2. Says(502, result) BY <2>4 DEF Says
    <3> QED BY <3>1, <3>2, Zenon
  <2> QED BY <2>1, <2>2, <2>3, <2>4
<1>3. CASE e \in {"deploy_vm", "create_pod"}
  <2>1. Status(e, result) = RaiseForKubectl(result, 201, FALSE, TRUE)
    BY <1>3 DEF Status, DeployVm, CreatePod
  <2> QED BY <1>1, <1>3, <2>1 DEF Writes, Creates
<1>4. CASE e \in {"start_vm", "stop_vm", "delete_vm", "delete_pod"}
  <2>1. Status(e, result) = RaiseForKubectl(result, 200, TRUE, FALSE)
    BY <1>4 DEF Status, PowerVm, DeleteVm, DeletePod
  <2> QED BY <1>2, <1>4, <2>1 DEF Writes, Deletes
<1>5. CASE e \notin {"deploy_vm", "start_vm", "stop_vm", "delete_vm", "create_pod", "delete_pod"}
  BY <1>5 DEF Status, Writes, Creates, Deletes
<1> QED BY <1>3, <1>4, <1>5

\* What an answer contains.
LEMMA BodyMeaning ==
    ASSUME NEW e, NEW result, NEW out, out \subseteq Listable
    PROVE  /\ Body(e, result, out) \subseteq Listable \cup ConfiguredNetworks
           /\ e \in {"list_vms", "list_pods"} => Body(e, result, out) \in {out, {}}
           /\ e \in {"list_vms", "list_pods"} /\ result # "ok" => Body(e, result, out) = {}
<1>1. CASE e \in {"get_cluster_status", "list_vms", "list_rootsyncs", "list_pods", "list_projects"}
  BY <1>1 DEF Body, GetClusterStatus, ListVms, ListRootsyncs, ListPods, ListProjects
<1>2. CASE e = "list_secondary_networks"
  BY <1>2 DEF Body, ListSecondaryNetworks, AllLive, LiveNetworks
<1>3. CASE e = "list_clusters"
  BY <1>3 DEF Body, ListClusters
<1>4. CASE e \notin {"get_cluster_status", "list_vms", "list_rootsyncs", "list_pods", "list_projects",
                      "list_secondary_networks", "list_clusters"}
  BY <1>4 DEF Body
<1> QED BY <1>1, <1>2, <1>3, <1>4

\* What a process reads can be listed.
LEMMA ContentType ==
    ASSUME NEW k \in AllCalls, k.endpoint \notin Writes, NEW c,
           Program(k.endpoint) = "kubectl" => c \in Clusters
    PROVE  Content(k.endpoint, c) \subseteq Listable
<1> DEFINE e == k.endpoint
<1>1. CASE e \in {"get_cluster_status", "list_secondary_networks", "list_rootsyncs"}
  <2>1. c \in Clusters BY <1>1 DEF Program
  <2> QED BY <1>1, <2>1 DEF Content, Listable
<1>2. CASE e \in {"list_vms", "list_pods"} BY <1>2 DEF Content, Listed, Listable, Objects
<1>3. CASE e \in {"list_projects", "list_clusters"} BY <1>3 DEF Content, Listable
<1> QED BY <1>1, <1>2, <1>3, CallTypes

-----------------------------------------------------------------------------
\* Only request r changes, and it is still one afterwards.
Only(r) ==
    /\ req' \in [Requests -> RequestType]
    /\ \A q \in Requests \ {r} : req'[q] = req[q]

\* Of r's record, what only an arrival changes.
SameRequest(r) ==
    /\ req'[r].call = req[r].call
    /\ req'[r].target = req[r].target /\ req'[r].before = req[r].before /\ req'[r].owned = req[r].owned

\* What r has come to be when it arrives.
LEMMA ArrivedShape ==
    ASSUME TypeOK, NEW r \in Requests
    PROVE  /\ Arrived(r) \in RequestType
           /\ Arrived(r).call = req[r].call /\ Arrived(r).hit = req[r].hit
           /\ Arrived(r).proc = req[r].proc /\ Arrived(r).reply = req[r].reply
           /\ Arrived(r).out = req[r].out
           /\ Arrived(r).answer = req[r].answer /\ Arrived(r).body = req[r].body
           /\ Arrived(r).before = {q \in Requests : Answered(q)}
           /\ Arrived(r).owned = (req[r].call.cluster \in own)
           /\ Arrived(r).target = IF Program(Endpoint(r)) = "kubectl"
                                  THEN FindKubeconfig(req[r].call.cluster) ELSE NoCluster
<1> DEFINE t == IF Program(Endpoint(r)) = "kubectl" THEN FindKubeconfig(req[r].call.cluster) ELSE NoCluster
           w == req[r].call.cluster \in own
           b == {q \in Requests : req[q].pc = "answered"}
           v == [req[r] EXCEPT !.target = t, !.owned = w, !.before = b]
<1>1. req[r] \in RequestType BY DEF TypeOK
<1>2. t \in Clusters \cup {NoCluster} /\ w \in BOOLEAN /\ b \in SUBSET Requests BY DEF TypeOK, FindKubeconfig
<1>3. Arrived(r) = v BY DEF Arrived
<1> HIDE DEF t, w, b
<1>4. v \in RequestType BY <1>1, <1>2 DEF RequestType
<1>5. /\ v.call = req[r].call /\ v.hit = req[r].hit /\ v.proc = req[r].proc /\ v.reply = req[r].reply
      /\ v.out = req[r].out /\ v.answer = req[r].answer /\ v.body = req[r].body
      /\ v.before = b /\ v.owned = w /\ v.target = t
  BY <1>1 DEF RequestType
<1> HIDE DEF v
<1> QED BY <1>3, <1>4, <1>5 DEF t, w, b, Answered

\* The record w of request r when it is answered.
Answers(r, w, result) ==
    /\ Only(r)
    /\ req'[r].pc = "answered" /\ req'[r].hit = w.hit /\ req'[r].call = w.call
    /\ req'[r].target = w.target /\ req'[r].before = w.before /\ req'[r].owned = w.owned
    /\ req'[r].proc = (IF w.proc = "running" THEN "running" ELSE "none")
    /\ req'[r].reply \in {"none", w.reply}
    /\ req'[r].reply # "none" => w.reply = "pending" /\ w.call.endpoint \in Writes
    /\ \/ req'[r].answer = Status(w.call.endpoint, result)
       \/ req'[r].answer = 500 /\ w.call.endpoint \notin Writes
    /\ req'[r].body \in {{}, Body(w.call.endpoint, result, w.out)}

LEMMA RespondShape ==
    ASSUME TypeOK, NEW r \in Requests, NEW w \in RequestType, NEW result, Respond(r, w, result)
    PROVE  Answers(r, w, result) /\ manifest' \in BOOLEAN
<1> DEFINE e == w.call.endpoint
<1>1. PICK loaded \in BOOLEAN :
         /\ IF NeedsManifest(e, result, w.out) THEN LoadGroupVars(loaded) ELSE loaded /\ UNCHANGED manifest
         /\ req' = [req EXCEPT ![r] = [w EXCEPT
                      !.pc = "answered", !.out = {},
                      !.proc = IF @ = "running" THEN @ ELSE "none",
                      !.reply = IF @ = "pending" /\ e \in Writes THEN @ ELSE "none",
                      !.answer = IF loaded THEN Status(e, result) ELSE 500,
                      !.body = IF loaded THEN Body(e, result, w.out) ELSE {}]]
  BY DEF Respond
<1>2. loaded \/ e \notin Writes
  BY <1>1 DEF NeedsManifest, Writes, Creates, Deletes
<1>3. manifest' \in BOOLEAN BY <1>1 DEF LoadGroupVars, TypeOK
<1>4. Status(e, result) \in {200, 201, 404, 409, 502, 503}
  BY StatusMeaning DEF Says
<1>5. Body(e, result, w.out) \subseteq Listable \cup ConfiguredNetworks
  BY BodyMeaning DEF RequestType
<1> DEFINE p == IF w.proc = "running" THEN w.proc ELSE "none"
           y == IF w.reply = "pending" /\ e \in Writes THEN w.reply ELSE "none"
           a == IF loaded THEN Status(e, result) ELSE 500
           b == IF loaded THEN Body(e, result, w.out) ELSE {}
           v == [w EXCEPT !.pc = "answered", !.out = {}, !.proc = p, !.reply = y, !.answer = a, !.body = b]
<1>6. /\ v \in RequestType
      /\ v.pc = "answered" /\ v.hit = w.hit /\ v.call = w.call
      /\ v.target = w.target /\ v.before = w.before /\ v.owned = w.owned
      /\ v.proc = p /\ v.reply = y /\ v.answer = a /\ v.body = b
  <2>1. w.proc \in ProcStates /\ w.reply \in Replies BY DEF RequestType
  <2>2. p \in ProcStates /\ y \in Replies /\ "answered" \in Phases BY <2>1 DEF ProcStates, Replies, Phases
  <2>3. a \in StatusCodes BY <1>4 DEF StatusCodes
  <2>4. b \in SUBSET (Listable \cup ConfiguredNetworks) BY <1>5
  <2> HIDE DEF p, y, a, b
  <2>5. v \in RequestType BY <2>2, <2>3, <2>4 DEF RequestType
  <2>6. /\ v.pc = "answered" /\ v.hit = w.hit /\ v.call = w.call
        /\ v.target = w.target /\ v.before = w.before /\ v.owned = w.owned
        /\ v.proc = p /\ v.reply = y /\ v.answer = a /\ v.body = b
    BY DEF RequestType
  <2> QED BY <2>5, <2>6
<1>7. req' = [req EXCEPT ![r] = v] BY <1>1
<1> HIDE DEF v
<1>8. Only(r) /\ req'[r] = v BY <1>6, <1>7 DEF Only, TypeOK
<1> QED BY <1>2, <1>3, <1>6, <1>8 DEF Answers

\* The process of r was started.
Starts(r) ==
    /\ Only(r)
    /\ req'[r].pc = "waiting" /\ req'[r].proc = "running" /\ req'[r].reply = "pending"
    /\ req'[r].call = req[r].call /\ req'[r].hit = req[r].hit
    /\ req'[r].answer = req[r].answer /\ req'[r].body = req[r].body
    /\ req'[r].target = Arrived(r).target /\ req'[r].before = Arrived(r).before
    /\ req'[r].owned = Arrived(r).owned

LEMMA ExecShape ==
    ASSUME TypeOK, NEW r \in Requests, Exec(r)
    PROVE  Starts(r) /\ req[r].pc = "idle"
<1> DEFINE w == Arrived(r)
           v == [w EXCEPT !.pc = "waiting", !.proc = "running", !.reply = "pending"]
<1>1. /\ w \in RequestType /\ w.call = req[r].call /\ w.hit = req[r].hit
      /\ w.answer = req[r].answer /\ w.body = req[r].body
  BY ArrivedShape
<1>2. req' = [req EXCEPT ![r] = v] BY DEF Exec
<1>3. "waiting" \in Phases /\ "running" \in ProcStates /\ "pending" \in Replies
  BY DEF Phases, ProcStates, Replies
<1> HIDE DEF w
<1>4. v \in RequestType BY <1>1, <1>3 DEF RequestType
<1>5. /\ v.pc = "waiting" /\ v.proc = "running" /\ v.reply = "pending"
      /\ v.call = w.call /\ v.hit = w.hit /\ v.answer = w.answer /\ v.body = w.body
      /\ v.target = w.target /\ v.before = w.before /\ v.owned = w.owned
  BY <1>1 DEF RequestType
<1> HIDE DEF v
<1>6. Only(r) /\ req'[r] = v BY <1>2, <1>4 DEF Only, TypeOK
<1>7. req[r].pc = "idle"
  <2>1. r \in Nat BY WorkloadConstants DEF Requests
  <2> QED BY <2>1 DEF Exec, Due
<1> QED BY <1>1, <1>5, <1>6, <1>7 DEF Starts, w

\* Of r's record, what no step of its process changes.
SameHandler(r) ==
    /\ Only(r) /\ SameRequest(r)
    /\ req'[r].answer = req[r].answer /\ req'[r].body = req[r].body

LEMMA TimesOutShape ==
    ASSUME TypeOK, NEW r \in Requests, TimesOut(r)
    PROVE  /\ SameHandler(r)
           /\ req'[r].pc = "reaping" /\ req'[r].hit = req[r].hit /\ req'[r].out = req[r].out
           /\ req'[r].reply = req[r].reply
           /\ req'[r].proc # "running" /\ (req'[r].proc = "exited" => req[r].proc = "exited")
<1> DEFINE w == req[r]
<1>1. PICK k \in {"gone", "stuck"} :
         req' = [req EXCEPT ![r].pc = "reaping", ![r].proc = IF @ = "running" THEN k ELSE @]
  BY DEF TimesOut
<1> DEFINE p == IF w.proc = "running" THEN k ELSE w.proc
           v == [w EXCEPT !.pc = "reaping", !.proc = p]
<1>2. w \in RequestType BY DEF TypeOK
<1>3. req' = [req EXCEPT ![r] = v] BY <1>1, <1>2 DEF TypeOK, RequestType
<1>4. /\ p \in ProcStates /\ "reaping" \in Phases
      /\ p # "running" /\ (p = "exited" => w.proc = "exited")
  BY <1>2 DEF ProcStates, Phases, RequestType
<1> HIDE DEF p, w
<1>5. v \in RequestType BY <1>2, <1>4 DEF RequestType
<1>6. /\ v.pc = "reaping" /\ v.proc = p /\ v.reply = w.reply /\ v.out = w.out
      /\ v.call = w.call /\ v.hit = w.hit /\ v.answer = w.answer /\ v.body = w.body
      /\ v.target = w.target /\ v.before = w.before /\ v.owned = w.owned
  BY <1>2 DEF RequestType
<1> HIDE DEF v
<1>7. Only(r) /\ req'[r] = v BY <1>3, <1>5 DEF Only, TypeOK
<1> QED BY <1>4, <1>6, <1>7 DEF SameHandler, SameRequest, w

\* The process of r has ended with the given output, if it is still there.
Ends(r, result, out) ==
    /\ SameHandler(r)
    /\ req'[r].pc = req[r].pc /\ req'[r].hit = req[r].hit
    /\ req'[r].reply = result /\ req'[r].out = out
    /\ req'[r].proc = IF req[r].proc = "running" THEN "exited" ELSE req[r].proc

LEMMA ExitedShape ==
    ASSUME TypeOK, NEW r \in Requests, NEW result \in Replies, NEW out \in SUBSET Listable,
           req' = [req EXCEPT ![r] = [Exited(req[r], result) EXCEPT !.out = out]]
    PROVE  Ends(r, result, out)
<1> DEFINE w == req[r]
           p == IF w.proc = "running" THEN "exited" ELSE w.proc
           v == [w EXCEPT !.reply = result, !.proc = p, !.out = out]
<1>1. w \in RequestType BY DEF TypeOK
<1>2. p \in ProcStates BY <1>1 DEF ProcStates, RequestType
<1>3. [Exited(w, result) EXCEPT !.out = out] = v BY <1>1 DEF Exited, RequestType
<1> HIDE DEF p, w
<1>4. v \in RequestType BY <1>1, <1>2 DEF RequestType
<1>5. /\ v.pc = w.pc /\ v.proc = p /\ v.reply = result /\ v.out = out
      /\ v.call = w.call /\ v.hit = w.hit /\ v.answer = w.answer /\ v.body = w.body
      /\ v.target = w.target /\ v.before = w.before /\ v.owned = w.owned
  BY <1>1 DEF RequestType
<1> HIDE DEF v
<1>6. Only(r) /\ req'[r] = v BY <1>3, <1>4 DEF Only, TypeOK, w
<1> QED BY <1>5, <1>6 DEF Ends, SameHandler, SameRequest, w, p

\* Without a list of its own, the process leaves what there was.
LEMMA ExitedShapeSilent ==
    ASSUME TypeOK, NEW r \in Requests, NEW result \in Replies,
           req' = [req EXCEPT ![r] = Exited(req[r], result)]
    PROVE  Ends(r, result, req[r].out)
<1>1. req[r] \in RequestType BY DEF TypeOK
<1>2. req[r].out \in SUBSET Listable BY <1>1 DEF RequestType
<1>3. Exited(req[r], result) = [Exited(req[r], result) EXCEPT !.out = req[r].out]
  BY <1>1 DEF Exited, RequestType
<1> QED BY <1>2, <1>3, ExitedShape

-----------------------------------------------------------------------------
ObjectType == [uid : Nat, state : {"absent", "Running", "Stopped", "terminating"}]
StoreType == [Clusters -> [Objects -> ObjectType]]

\* The object of r becomes n, and no other changes.
Puts(r, n) ==
    /\ req[r].target \in Clusters /\ req[r].call.obj \in Objects
    /\ store' \in StoreType
    /\ store'[req[r].target][req[r].call.obj] = n
    /\ \A c \in Clusters, o \in Objects :
          c # req[r].target \/ o # req[r].call.obj => store'[c][o] = store[c][o]

\* r takes effect: n is the object afterwards.
Hits(r, n) ==
    /\ SameHandler(r) /\ Puts(r, n)
    /\ req'[r].pc = req[r].pc /\ req'[r].proc = req[r].proc /\ req'[r].out = req[r].out
    /\ req'[r].reply = "ok" /\ req'[r].hit = n.uid
    /\ \/ /\ Endpoint(r) \in Creates /\ Current(r) = Absent
          /\ n = [uid |-> nextUid, state |-> "Running"] /\ nextUid' = nextUid + 1
       \/ /\ Endpoint(r) \notin Creates /\ Current(r) # Absent
          /\ n \in ObjectType /\ n.uid = Current(r).uid /\ n.state # "absent" /\ nextUid' = nextUid
          /\ n.state = "terminating" => Endpoint(r) \in Deletes \/ Current(r).state = "terminating"

LEMMA AfterShape ==
    ASSUME TypeOK, StoreOK, NEW e \in Writes, NEW obj \in ObjectType,
           obj.uid = 0 <=> obj = Absent, obj.state = "absent" <=> obj = Absent, Applies(e, obj)
    PROVE  /\ After(e, obj) \in ObjectType /\ After(e, obj).uid # 0
           /\ \/ /\ e \in Creates /\ obj = Absent
                 /\ After(e, obj) = [uid |-> nextUid, state |-> "Running"]
              \/ /\ e \notin Creates /\ obj # Absent
                 /\ After(e, obj).uid = obj.uid /\ After(e, obj).state # "absent"
                 /\ After(e, obj).state = "terminating" => e \in Deletes \/ obj.state = "terminating"
<1> USE DEF ObjectType
<1>0. nextUid \in Nat /\ nextUid # 0 BY DEF TypeOK, StoreOK
<1>1. CASE e \in Creates BY <1>0, <1>1 DEF After, Applies, Creates, Deletes
<1>2. CASE e \in Deletes BY <1>2 DEF After, Applies, Creates, Deletes
<1>3. CASE e \in {"start_vm", "stop_vm"} BY <1>3 DEF After, Applies, Creates, Deletes
<1> QED BY <1>1, <1>2, <1>3 DEF Writes

LEMMA ServeShape ==
    ASSUME TypeOK, StoreOK, NEW r \in Requests, Serve(r)
    PROVE  \/ /\ UNCHANGED <<store, nextUid>>
              /\ \E result \in {"exists", "notfound"} : Ends(r, result, req[r].out)
           \/ \E n \in ObjectType : Hits(r, n) /\ n.uid # 0
<1> DEFINE e == Endpoint(r)
           t == req[r].target
           b == req[r].call.obj
           obj == Current(r)
           w == req[r]
<1>0. w \in RequestType /\ w.call \in AllCalls /\ store \in StoreType /\ e \in Writes
  BY DEF TypeOK, RequestType, Serve, StoreType, ObjectType
<1>1. t \in Clusters /\ b \in Objects
  BY <1>0, CallTypes DEF Serve, RequestType, Endpoint
<1>2. obj \in ObjectType /\ (obj.uid = 0 <=> obj = Absent) /\ (obj.state = "absent" <=> obj = Absent)
  BY <1>0, <1>1 DEF Current, StoreOK, StoreType
<1>3. CASE Applies(e, obj)
  <2> DEFINE n == After(e, obj)
             v == [w EXCEPT !.reply = "ok", !.hit = n.uid]
  <2>1. /\ n \in ObjectType /\ n.uid # 0
        /\ \/ /\ e \in Creates /\ obj = Absent /\ n = [uid |-> nextUid, state |-> "Running"]
           \/ /\ e \notin Creates /\ obj # Absent /\ n.uid = obj.uid /\ n.state # "absent"
              /\ n.state = "terminating" => e \in Deletes \/ obj.state = "terminating"
    BY <1>0, <1>2, <1>3, AfterShape
  <2>2. /\ store' = [store EXCEPT ![t][b] = n]
        /\ req' = [req EXCEPT ![r].reply = "ok", ![r].hit = n.uid]
        /\ nextUid' = IF store' # store /\ e \in Creates THEN nextUid + 1 ELSE nextUid
    BY <1>3 DEF Serve, Current
  <2>3. req' = [req EXCEPT ![r] = v] BY <2>2, <1>0 DEF TypeOK, RequestType
  <2> HIDE DEF n, w, e, t, b, obj
  <2>4. n.uid \in Nat /\ "ok" \in Replies BY <2>1 DEF ObjectType, Replies
  <2>5. v \in RequestType BY <1>0, <2>4 DEF RequestType
  <2>6. /\ v.pc = w.pc /\ v.proc = w.proc /\ v.reply = "ok" /\ v.out = w.out
        /\ v.call = w.call /\ v.hit = n.uid /\ v.answer = w.answer /\ v.body = w.body
        /\ v.target = w.target /\ v.before = w.before /\ v.owned = w.owned
    BY <1>0, <2>4 DEF RequestType
  <2> HIDE DEF v
  <2>7. Only(r) /\ req'[r] = v BY <2>3, <2>5 DEF Only, TypeOK
  <2>8. SameHandler(r) BY <2>6, <2>7 DEF SameHandler, SameRequest, w
  <2>9. Puts(r, n)
    <3>1. store' \in StoreType /\ store'[t][b] = n BY <1>0, <1>1, <2>1, <2>2 DEF StoreType
    <3>2. \A c \in Clusters, o \in Objects : c # t \/ o # b => store'[c][o] = store[c][o]
      BY <1>0, <1>1, <2>2 DEF StoreType
    <3> QED BY <3>1, <3>2, <1>1 DEF Puts, t, b
  <2>10. ASSUME e \in Creates, obj = Absent, n = [uid |-> nextUid, state |-> "Running"]
         PROVE  nextUid' = nextUid + 1
    <3>1. n # obj BY <2>1, <2>10, <1>2
    <3>2. store'[t][b] # store[t][b] BY <3>1, <2>9 DEF Puts, Current, obj, t, b
    <3> QED BY <3>2, <2>2, <2>10
  <2>11. Hits(r, n)
    BY <2>1, <2>2, <2>6, <2>7, <2>8, <2>9, <2>10 DEF Hits, e, obj, w
  <2> QED BY <2>1, <2>11
<1>4. CASE ~Applies(e, obj)
  <2> DEFINE result == IF e \in Creates THEN "exists" ELSE "notfound"
  <2>1. UNCHANGED store /\ req' = [req EXCEPT ![r] = Exited(@, result)] BY <1>4 DEF Serve
  <2>2. nextUid' = nextUid BY <2>1 DEF Serve
  <2>3. result \in {"exists", "notfound"} OBVIOUS
  <2>4. result \in Replies BY DEF Replies
  <2>5. Ends(r, result, req[r].out) BY <2>1, <2>4, ExitedShapeSilent
  <2> QED BY <2>1, <2>2, <2>3, <2>5
<1> QED BY <1>3, <1>4

-----------------------------------------------------------------------------
(***************************************************************************)
(* The steps, by what they do to a request.                                *)
(***************************************************************************)
Arrival(r) ==
    /\ req[r].pc = "idle"
    /\ Starts(r) \/ \E result \in {"error", "missing"} : Answers(r, Arrived(r), result)

Finish(r) ==
    \/ req[r].pc = "waiting" /\ req[r].proc = "exited" /\ Answers(r, req[r], req[r].reply)
    \/ req[r].pc = "reaping" /\ Answers(r, req[r], "timeout")

Timeout(r) ==
    /\ SameHandler(r)
    /\ req[r].pc = "waiting" /\ req'[r].pc = "reaping"
    /\ req'[r].hit = req[r].hit /\ req'[r].out = req[r].out /\ req'[r].reply = req[r].reply
    /\ req'[r].proc # "running" /\ (req'[r].proc = "exited" => req[r].proc = "exited")

Refusal(r) ==
    /\ req[r].reply = "pending"
    /\ \E result \in {"exists", "notfound", "error", "garbled"} : \E out : Ends(r, result, out)

ReadIsServed(r) ==
    /\ req[r].reply = "pending" /\ Endpoint(r) \notin Writes
    /\ Ends(r, "ok", Content(Endpoint(r), req[r].target))

WriteIsServed(r) ==
    /\ req[r].reply = "ok" /\ req[r].proc = "running"
    /\ \/ Ends(r, "ok", req[r].out) /\ (Endpoint(r) \in Deletes => Current(r).uid # req[r].hit)
       \/ Ends(r, "error", req[r].out)

QuietMove(r) ==
    /\ UNCHANGED <<store, nextUid>>
    /\ Arrival(r) \/ Finish(r) \/ Timeout(r) \/ Refusal(r) \/ ReadIsServed(r) \/ WriteIsServed(r)

HitMove(r, n) == req[r].reply = "pending" /\ Endpoint(r) \in Writes /\ Hits(r, n) /\ n.uid # 0

Vanishes(c, o) ==
    /\ UNCHANGED <<req, nextUid>>
    /\ store \in StoreType /\ store' \in StoreType
    /\ store[c][o].state = "terminating" /\ store'[c][o] = Absent
    /\ \A x \in Clusters, y \in Objects : x # c \/ y # o => store'[x][y] = store[x][y]

LEMMA StepCases ==
    ASSUME TypeOK, StoreOK, [Next]_vars
    PROVE  /\ env' = env /\ fallback' = fallback
           /\ own' \subseteq Clusters /\ volatile' \subseteq Clusters /\ manifest' \in BOOLEAN
           /\ \/ \E r \in Requests : QuietMove(r)
              \/ \E r \in Requests, n \in ObjectType : HitMove(r, n)
              \/ \E c \in Clusters, o \in Objects : Vanishes(c, o)
              \/ UNCHANGED <<req, store, nextUid>>
<1> DEFINE Rest == /\ env' = env /\ fallback' = fallback
                   /\ own' \subseteq Clusters /\ volatile' \subseteq Clusters /\ manifest' \in BOOLEAN
<1>0. own \subseteq Clusters /\ volatile \subseteq Clusters /\ manifest \in BOOLEAN BY DEF TypeOK
<1>1. ASSUME NEW r \in Requests, Exec(r) PROVE Rest /\ QuietMove(r)
  <2>1. Rest BY <1>0, <1>1 DEF Exec, confVars, LoadGroupVars
  <2> QED BY <1>1, <2>1, ExecShape DEF QuietMove, Arrival, Exec
<1>2. ASSUME NEW r \in Requests, ExecFails(r) PROVE Rest /\ QuietMove(r)
  <2> DEFINE result == IF Program(Endpoint(r)) \in installed THEN "error" ELSE "missing"
  <2>1. Respond(r, Arrived(r), result) BY <1>2 DEF ExecFails
  <2>2. result \in {"error", "missing"} OBVIOUS
  <2>3. req[r].pc = "idle"
    <3>1. r \in Nat BY WorkloadConstants DEF Requests
    <3> QED BY <3>1, <1>2 DEF ExecFails, Due
  <2> HIDE DEF result
  <2>4. Answers(r, Arrived(r), result) /\ manifest' \in BOOLEAN BY <2>1, ArrivedShape, RespondShape
  <2>5. Rest /\ UNCHANGED <<store, nextUid>> BY <1>0, <1>2, <2>4 DEF ExecFails, confVars
  <2> QED BY <2>2, <2>3, <2>4, <2>5 DEF QuietMove, Arrival
<1>3. ASSUME NEW r \in Requests, Complete(r) PROVE Rest /\ QuietMove(r)
  <2>1. req[r] \in RequestType BY DEF TypeOK
  <2>2. Answers(r, req[r], req[r].reply) /\ manifest' \in BOOLEAN
    BY <1>3, <2>1, RespondShape DEF Complete
  <2>3. Rest /\ UNCHANGED <<store, nextUid>> BY <1>0, <1>3, <2>2 DEF Complete, confVars
  <2> QED BY <1>3, <2>2, <2>3 DEF QuietMove, Finish, Complete
<1>4. ASSUME NEW r \in Requests, Reap(r) PROVE Rest /\ QuietMove(r)
  <2>1. req[r] \in RequestType BY DEF TypeOK
  <2>2. Answers(r, req[r], "timeout") /\ manifest' \in BOOLEAN
    BY <1>4, <2>1, RespondShape DEF Reap
  <2>3. Rest /\ UNCHANGED <<store, nextUid>> BY <1>0, <1>4, <2>2 DEF Reap, confVars
  <2> QED BY <1>4, <2>2, <2>3 DEF QuietMove, Finish, Reap
<1>5. ASSUME NEW r \in Requests, TimesOut(r) PROVE Rest /\ QuietMove(r)
  <2>1. Timeout(r) BY <1>5, TimesOutShape DEF Timeout, TimesOut
  <2>2. Rest /\ UNCHANGED <<store, nextUid>> BY <1>0, <1>5 DEF TimesOut, confVars
  <2> QED BY <2>1, <2>2 DEF QuietMove
<1>6. ASSUME NEW r \in Requests, Serve(r)
      PROVE  Rest /\ (QuietMove(r) \/ \E n \in ObjectType : HitMove(r, n))
  <2>1. Rest /\ req[r].reply = "pending" /\ Endpoint(r) \in Writes BY <1>0, <1>6 DEF Serve, confVars
  <2>2. CASE UNCHANGED <<store, nextUid>> /\ \E result \in {"exists", "notfound"} : Ends(r, result, req[r].out)
    BY <2>1, <2>2 DEF QuietMove, Refusal
  <2>3. CASE \E n \in ObjectType : Hits(r, n) /\ n.uid # 0 BY <2>1, <2>3 DEF HitMove
  <2> QED BY <1>6, <2>1, <2>2, <2>3, ServeShape
<1>7. ASSUME NEW r \in Requests, ServeRead(r) PROVE Rest /\ QuietMove(r)
  <2> DEFINE e == Endpoint(r)
             out == Content(e, req[r].target)
  <2>1. Rest /\ req[r].reply = "pending" /\ e \notin Writes /\ UNCHANGED <<store, nextUid>>
    BY <1>0, <1>7 DEF ServeRead, confVars
  <2>2. req[r].call \in AllCalls /\ req[r].target \in Clusters \cup {NoCluster} BY DEF TypeOK, RequestType
  <2>3. out \in SUBSET Listable
    <3>1. Program(e) = "kubectl" => req[r].target \in Clusters BY <1>7, <2>2 DEF ServeRead
    <3> QED BY <2>1, <2>2, <3>1, ContentType DEF Endpoint
  <2>4. "ok" \in Replies /\ "garbled" \in Replies BY DEF Replies
  <2>5. CASE req' = [req EXCEPT ![r] = [Exited(@, "ok") EXCEPT !.out = out]]
    <3> HIDE DEF out
    <3>1. Ends(r, "ok", out) BY <2>3, <2>4, <2>5, ExitedShape
    <3> QED BY <2>1, <3>1 DEF QuietMove, ReadIsServed, out
  <2>6. ASSUME NEW part \in SUBSET out, req' = [req EXCEPT ![r] = [Exited(@, "garbled") EXCEPT !.out = part]]
        PROVE  Rest /\ QuietMove(r)
    <3> HIDE DEF out
    <3>1. Ends(r, "garbled", part) BY <2>3, <2>4, <2>6, ExitedShape
    <3> QED BY <2>1, <3>1 DEF QuietMove, Refusal
  <2> QED BY <1>7, <2>5, <2>6 DEF ServeRead
<1>8. ASSUME NEW r \in Requests, FailsEarly(r) PROVE Rest /\ QuietMove(r)
  <2>1. PICK err \in {"error", "notfound"} : req' = [req EXCEPT ![r] = Exited(@, err)]
    BY <1>8 DEF FailsEarly
  <2>2. err \in Replies BY DEF Replies
  <2>3. Ends(r, err, req[r].out) BY <2>1, <2>2, ExitedShapeSilent
  <2>4. Rest /\ req[r].reply = "pending" /\ UNCHANGED <<store, nextUid>>
    BY <1>0, <1>8 DEF FailsEarly, confVars
  <2> QED BY <2>3, <2>4 DEF QuietMove, Refusal
<1>9. ASSUME NEW r \in Requests, Exit(r) PROVE Rest /\ QuietMove(r)
  <2>1. Rest /\ req[r].reply = "ok" /\ req[r].proc = "running" /\ UNCHANGED <<store, nextUid>>
    BY <1>0, <1>9 DEF Exit, confVars
  <2>2. "ok" \in Replies /\ "error" \in Replies BY DEF Replies
  <2>3. CASE /\ Endpoint(r) \in Deletes => Current(r).uid # req[r].hit
             /\ req' = [req EXCEPT ![r] = Exited(@, "ok")]
    <3>1. Ends(r, "ok", req[r].out) BY <2>2, <2>3, ExitedShapeSilent
    <3> QED BY <2>1, <2>3, <3>1 DEF QuietMove, WriteIsServed
  <2>4. CASE req' = [req EXCEPT ![r] = Exited(@, "error")]
    <3>1. Ends(r, "error", req[r].out) BY <2>2, <2>4, ExitedShapeSilent
    <3> QED BY <2>1, <3>1 DEF QuietMove, WriteIsServed
  <2> QED BY <1>9, <2>3, <2>4 DEF Exit
<1>10. ASSUME NEW c \in Clusters, NEW o \in Objects, Terminated(c, o) PROVE Rest /\ Vanishes(c, o)
  <2>1. store \in StoreType BY DEF TypeOK, StoreType, ObjectType
  <2>2. Absent \in ObjectType BY DEF Absent, ObjectType
  <2>3. store' = [store EXCEPT ![c][o] = Absent] BY <1>10 DEF Terminated
  <2>4. store' \in StoreType /\ store'[c][o] = Absent BY <2>1, <2>2, <2>3 DEF StoreType
  <2>5. \A x \in Clusters, y \in Objects : x # c \/ y # o => store'[x][y] = store[x][y]
    BY <2>1, <2>3 DEF StoreType
  <2> QED BY <1>0, <1>10, <2>1, <2>4, <2>5 DEF Terminated, Vanishes, confVars
<1>11. ASSUME NEW c \in Clusters, KubeconfigChanges(c) PROVE Rest /\ UNCHANGED <<req, store, nextUid>>
  BY <1>0, <1>11 DEF KubeconfigChanges, confVars
<1>12. CASE UNCHANGED vars BY <1>0, <1>12 DEF vars
<1> HIDE DEF Rest
<1>13. /\ Rest
       /\ \/ \E r \in Requests : QuietMove(r)
          \/ \E r \in Requests, n \in ObjectType : HitMove(r, n)
          \/ \E c \in Clusters, o \in Objects : Vanishes(c, o)
          \/ UNCHANGED <<req, store, nextUid>>
  <2>1. CASE Next
    BY <2>1, <1>1, <1>2, <1>3, <1>4, <1>5, <1>6, <1>7, <1>8, <1>9, <1>10, <1>11 DEF Next
  <2> QED BY <2>1, <1>12 DEF Rest
<1> QED BY <1>13 DEF Rest

-----------------------------------------------------------------------------
LEMMA TypeStep ==
    ASSUME TypeOK, StoreOK, [Next]_vars
    PROVE  TypeOK'
<1>1. /\ env' = env /\ fallback' = fallback
      /\ own' \subseteq Clusters /\ volatile' \subseteq Clusters /\ manifest' \in BOOLEAN
  BY StepCases
<1>2. store \in StoreType /\ nextUid \in Nat /\ req \in [Requests -> RequestType]
  BY DEF TypeOK, StoreType, ObjectType
<1>3. store' \in StoreType /\ nextUid' \in Nat /\ req' \in [Requests -> RequestType]
  <2>1. ASSUME NEW r \in Requests, QuietMove(r)
        PROVE  store' \in StoreType /\ nextUid' \in Nat /\ req' \in [Requests -> RequestType]
    <3>1. Only(r)
      BY <2>1 DEF QuietMove, Arrival, Starts, Answers, Finish, Timeout, Refusal, ReadIsServed,
                  WriteIsServed, Ends, SameHandler
    <3> QED BY <1>2, <2>1, <3>1 DEF QuietMove, Only
  <2>2. ASSUME NEW r \in Requests, NEW n, HitMove(r, n)
        PROVE  store' \in StoreType /\ nextUid' \in Nat /\ req' \in [Requests -> RequestType]
    BY <1>2, <2>2 DEF HitMove, Hits, Puts, SameHandler, Only
  <2>3. ASSUME NEW c \in Clusters, NEW o \in Objects, Vanishes(c, o)
        PROVE  store' \in StoreType /\ nextUid' \in Nat /\ req' \in [Requests -> RequestType]
    BY <1>2, <2>3 DEF Vanishes
  <2> QED BY <1>2, <2>1, <2>2, <2>3, StepCases
<1> QED BY <1>1, <1>3 DEF TypeOK, StoreType, ObjectType

\* A request that does not change keeps what is known of it.
LEMMA RequestFrame ==
    ASSUME NEW q \in Requests, LocalOK(q), HitOK(q), TargetOK(q), req'[q] = req[q], env' = env
    PROVE  LocalOK(q)' /\ HitOK(q)' /\ TargetOK(q)'
BY DEF LocalOK, HitOK, TargetOK, Endpoint, Answered

LEMMA ArrivalKeepsRequest ==
    ASSUME TypeOK, NEW r \in Requests, LocalOK(r), HitOK(r), Arrival(r), env' = env
    PROVE  LocalOK(r)' /\ HitOK(r)' /\ TargetOK(r)'
<1>0. req[r] \in RequestType /\ req[r].call \in AllCalls BY DEF TypeOK, RequestType
<1>1. /\ Arrived(r).call = req[r].call /\ Arrived(r).hit = req[r].hit
      /\ Arrived(r).proc = req[r].proc /\ Arrived(r).reply = req[r].reply
      /\ Arrived(r).answer = req[r].answer /\ Arrived(r).body = req[r].body
      /\ Arrived(r).owned = (req[r].call.cluster \in own)
      /\ Arrived(r).target = IF Program(Endpoint(r)) = "kubectl"
                             THEN FindKubeconfig(req[r].call.cluster) ELSE NoCluster
  BY ArrivedShape
<1>2. req[r].proc = "none" /\ req[r].reply = "none" /\ req[r].hit = 0 /\ req[r].pc = "idle"
      /\ req[r].answer = 0 /\ req[r].body = {}
  BY DEF Arrival, LocalOK
<1>3. TargetOK(r)'
  <2>1. req'[r].hit = 0 BY <1>1, <1>2 DEF Arrival, Starts, Answers
  <2> QED BY <2>1 DEF TargetOK
<1>4. CASE Starts(r)
  BY <1>2, <1>3, <1>4 DEF Starts, LocalOK, HitOK, Endpoint, Answered
<1>5. ASSUME NEW result \in {"error", "missing"}, Answers(r, Arrived(r), result)
      PROVE  LocalOK(r)' /\ HitOK(r)' /\ TargetOK(r)'
  <2>1. /\ req'[r].pc = "answered" /\ req'[r].hit = 0 /\ req'[r].call = req[r].call
        /\ req'[r].proc = "none" /\ req'[r].reply = "none"
        /\ \/ req'[r].answer = Status(Endpoint(r), result)
           \/ req'[r].answer = 500 /\ Endpoint(r) \notin Writes
    BY <1>1, <1>2, <1>5 DEF Answers, Endpoint
  <2>2. Endpoint(r) \in Writes => Says(Status(Endpoint(r), result), result) BY StatusMeaning
  <2>3. Endpoint(r) \notin Writes => Status(Endpoint(r), result) = 200 BY StatusMeaning
  <2>4. req'[r].answer # 0 /\ (Endpoint(r) \in Writes => req'[r].answer \notin {200, 201})
    BY <2>1, <2>2, <2>3 DEF Says
  <2> QED BY <1>3, <2>1, <2>4 DEF LocalOK, HitOK, Endpoint, Answered
<1> QED BY <1>4, <1>5 DEF Arrival

LEMMA FinishKeepsRequest ==
    ASSUME TypeOK, NEW r \in Requests, LocalOK(r), HitOK(r), TargetOK(r), Finish(r), env' = env
    PROVE  LocalOK(r)' /\ HitOK(r)' /\ TargetOK(r)'
<1> DEFINE e == Endpoint(r)
<1>1. PICK result :
         /\ Answers(r, req[r], result)
         /\ result = "timeout" \/ (result = req[r].reply /\ req[r].proc = "exited")
  BY DEF Finish
<1>2. /\ req'[r].pc = "answered" /\ req'[r].hit = req[r].hit /\ req'[r].call = req[r].call
      /\ req'[r].target = req[r].target /\ req'[r].owned = req[r].owned
      /\ req'[r].reply \in {"none", req[r].reply}
      /\ req'[r].reply # "none" => req[r].reply = "pending" /\ e \in Writes
      /\ \/ req'[r].answer = Status(e, result)
         \/ req'[r].answer = 500 /\ e \notin Writes
  BY <1>1 DEF Answers, Endpoint
<1>3. req[r].proc # "running" /\ ~Answered(r) BY DEF Finish, LocalOK, Answered
<1>4. req'[r].proc = "none" BY <1>1, <1>3 DEF Answers
<1>5. e \in Writes => Says(Status(e, result), result) BY StatusMeaning
<1>6. e \notin Writes => Status(e, result) = 200 BY StatusMeaning
<1>7. /\ req'[r].answer # 0
      /\ e \in Writes => Says(req'[r].answer, result)
      /\ e \notin Writes => req'[r].answer \in {200, 500}
  BY <1>2, <1>5, <1>6 DEF Says
<1>8. e \notin Writes => req[r].hit = 0 BY DEF LocalOK
<1>9. LocalOK(r)' BY <1>2, <1>4, <1>7, <1>8 DEF LocalOK, Endpoint
<1>10. HitOK(r)'
  <2>1. req'[r].reply = "pending" => /\ req[r].hit = 0 /\ req[r].proc # "exited"
                                     /\ req'[r].answer = 502
    BY <1>1, <1>2, <1>7 DEF HitOK, LocalOK, Says
  <2>2. req'[r].reply # "ok" BY <1>2
  <2>3. e \in Writes /\ req'[r].answer \in {200, 201} => req[r].hit # 0
    BY <1>1, <1>7 DEF Says, HitOK
  <2>4. req'[r].answer \in {404, 409, 500, 503} => req[r].hit = 0
    <3>1. CASE e \notin Writes BY <3>1, <1>8
    <3>2. CASE e \in Writes /\ req'[r].answer \in {404, 409, 500, 503}
      <4>1. result \in {"notfound", "exists", "missing"} BY <1>7, <3>2 DEF Says
      <4>2. req[r].reply \in {"notfound", "exists"}
        BY <4>1, <1>1 DEF TypeOK, RequestType, Replies
      <4> QED BY <4>2, <1>3 DEF HitOK
    <3> QED BY <3>1, <3>2
  <2> QED BY <1>2, <2>1, <2>2, <2>3, <2>4 DEF HitOK, Endpoint, Answered
<1>11. TargetOK(r)' BY <1>2 DEF TargetOK, Endpoint
<1> QED BY <1>9, <1>10, <1>11

\* Timeouts and whatever a process or the API server does.
LEMMA ProcessKeepsRequest ==
    ASSUME TypeOK, NEW r \in Requests, LocalOK(r), HitOK(r), TargetOK(r), env' = env,
           \/ Timeout(r) \/ Refusal(r) \/ ReadIsServed(r) \/ WriteIsServed(r)
           \/ \E n \in ObjectType : HitMove(r, n)
    PROVE  LocalOK(r)' /\ HitOK(r)' /\ TargetOK(r)'
<1> USE DEF Endpoint, Answered, SameHandler, SameRequest
<1>1. CASE Timeout(r) BY <1>1 DEF Timeout, LocalOK, HitOK, TargetOK
<1>2. CASE Refusal(r) BY <1>2 DEF Refusal, Ends, LocalOK, HitOK, TargetOK
<1>3. CASE ReadIsServed(r) BY <1>3 DEF ReadIsServed, Ends, LocalOK, HitOK, TargetOK
<1>4. CASE WriteIsServed(r) BY <1>4 DEF WriteIsServed, Ends, LocalOK, HitOK, TargetOK
<1>5. ASSUME NEW n \in ObjectType, HitMove(r, n) PROVE LocalOK(r)' /\ HitOK(r)' /\ TargetOK(r)'
  <2>1. /\ SameHandler(r) /\ req[r].target \in Clusters
        /\ req'[r].pc = req[r].pc /\ req'[r].proc = req[r].proc
        /\ req'[r].reply = "ok" /\ req'[r].hit # 0 /\ req[r].reply = "pending"
        /\ Endpoint(r) \in Writes
    BY <1>5 DEF HitMove, Hits, Puts
  <2> QED BY <2>1 DEF LocalOK, HitOK, TargetOK
<1> QED BY <1>1, <1>2, <1>3, <1>4, <1>5

LEMMA RequestStep ==
    ASSUME TypeOK, StoreOK, RequestOK, [Next]_vars
    PROVE  RequestOK'
<1> SUFFICES ASSUME NEW q \in Requests PROVE LocalOK(q)' /\ HitOK(q)' /\ TargetOK(q)'
  BY DEF RequestOK
<1>0. env' = env BY StepCases
<1>1. LocalOK(q) /\ HitOK(q) /\ TargetOK(q) BY DEF RequestOK
<1>2. ASSUME NEW r \in Requests, Only(r), r # q PROVE LocalOK(q)' /\ HitOK(q)' /\ TargetOK(q)'
  <2>1. req'[q] = req[q] BY <1>2 DEF Only
  <2> QED BY <2>1, <1>0, <1>1, RequestFrame
<1>3. ASSUME NEW r \in Requests, QuietMove(r) PROVE LocalOK(q)' /\ HitOK(q)' /\ TargetOK(q)'
  <2>1. Only(r)
    BY <1>3 DEF QuietMove, Arrival, Starts, Answers, Finish, Timeout, Refusal, ReadIsServed,
                WriteIsServed, Ends, SameHandler
  <2>2. CASE r = q
    BY <1>0, <1>1, <1>3, <2>2, ArrivalKeepsRequest, FinishKeepsRequest, ProcessKeepsRequest
       DEF QuietMove
  <2> QED BY <1>2, <2>1, <2>2
<1>4. ASSUME NEW r \in Requests, NEW n \in ObjectType, HitMove(r, n)
      PROVE  LocalOK(q)' /\ HitOK(q)' /\ TargetOK(q)'
  <2>1. Only(r) BY <1>4 DEF HitMove, Hits, SameHandler
  <2>2. CASE r = q BY <1>0, <1>1, <1>4, <2>2, ProcessKeepsRequest
  <2> QED BY <1>2, <2>1, <2>2
<1>5. CASE req' = req BY <1>0, <1>1, <1>5, RequestFrame
<1> QED BY <1>3, <1>4, <1>5, StepCases DEF Vanishes

-----------------------------------------------------------------------------
(***************************************************************************)
(* Steps that change no object.                                            *)
(***************************************************************************)

\* What such a step leaves of a request.
Lives(q) ==
    /\ req'[q].call = req[q].call /\ req'[q].hit = req[q].hit
    /\ req[q].pc # "idle" => SameRequest(q)
    /\ req[q].pc = "idle" => req'[q].before \subseteq {w \in Requests : Answered(w)}
    /\ Answered(q) => req'[q].pc = "answered" /\ req'[q].answer = req[q].answer /\ req'[q].body = req[q].body

LEMMA QuietLives ==
    ASSUME TypeOK, RequestOK, NEW r \in Requests, QuietMove(r), NEW q \in Requests
    PROVE  Lives(q)
<1>0. LocalOK(q) BY DEF RequestOK
<1>1. Only(r)
  BY DEF QuietMove, Arrival, Starts, Answers, Finish, Timeout, Refusal, ReadIsServed,
         WriteIsServed, Ends, SameHandler
<1>2. CASE q # r
  <2>1. req'[q] = req[q] BY <1>1, <1>2 DEF Only
  <2> QED BY <2>1, <1>0 DEF Lives, LocalOK, SameRequest, Answered
<1>3. CASE q = r
  <2>0. Arrived(r).call = req[r].call /\ Arrived(r).hit = req[r].hit
        /\ Arrived(r).before = {w \in Requests : Answered(w)}
    BY ArrivedShape
  <2>1. CASE Arrival(r) BY <2>0, <2>1, <1>3 DEF Arrival, Starts, Answers, Lives, Answered
  <2>2. CASE Finish(r) BY <2>2, <1>3 DEF Finish, Answers, Lives, SameRequest, Answered
  <2>3. CASE Timeout(r) \/ Refusal(r) \/ ReadIsServed(r) \/ WriteIsServed(r)
    <3>1. SameHandler(r) /\ req'[r].hit = req[r].hit
      BY <2>3 DEF Timeout, Refusal, ReadIsServed, WriteIsServed, Ends
    <3>2. Answered(r) => req'[r].pc = "answered"
      BY <2>3 DEF Timeout, Refusal, ReadIsServed, WriteIsServed, Ends, Answered
    <3> QED BY <3>1, <3>2, <1>0, <1>3 DEF SameHandler, SameRequest, Lives, LocalOK, Answered
  <2> QED BY <2>1, <2>2, <2>3 DEF QuietMove
<1> QED BY <1>2, <1>3

\* Requests that have changed an object keep it, and where they act.
LEMMA HitLives ==
    ASSUME RequestOK, NEW q \in Requests, Lives(q)
    PROVE  /\ Endpoint(q)' = Endpoint(q) /\ req'[q].call.obj = req[q].call.obj
           /\ req'[q].hit = req[q].hit
           /\ req[q].hit # 0 => req'[q].target = req[q].target
BY DEF RequestOK, LocalOK, Lives, SameRequest, Endpoint

LEMMA DeletedLives ==
    ASSUME RequestOK, \A q \in Requests : Lives(q), NEW c, NEW o, NEW uid, uid # 0,
           DeletedByRequest(c, o, uid)
    PROVE  DeletedByRequest(c, o, uid)'
<1>1. PICK d \in Requests : /\ Endpoint(d) \in Deletes /\ req[d].target = c /\ req[d].call.obj = o
                            /\ req[d].hit = uid
  BY DEF DeletedByRequest
<1>2. Endpoint(d)' \in Deletes /\ req'[d].target = c /\ req'[d].call.obj = o /\ req'[d].hit = uid
  BY <1>1, HitLives
<1> QED BY <1>2 DEF DeletedByRequest

LEMMA QuietHistory ==
    ASSUME RequestOK, StoreOK, UidOK, CreatedOK, EndingOK, KeptOK,
           UNCHANGED <<store, nextUid>>, \A q \in Requests : Lives(q)
    PROVE  StoreOK' /\ UidOK' /\ CreatedOK' /\ EndingOK' /\ KeptOK'
<1>1. StoreOK' BY DEF StoreOK
<1>2. ASSUME NEW q \in Requests, req[q].hit # 0 PROVE Current(q)' = Current(q)
  BY <1>2, HitLives DEF Current
<1>3. UidOK' BY <1>2, HitLives DEF UidOK
<1>4. CreatedOK'
  <2> SUFFICES ASSUME NEW c \in Clusters, NEW o \in Objects, store[c][o].uid >= 2
               PROVE  \E w \in Requests : /\ Endpoint(w)' \in Creates /\ req'[w].target = c
                                          /\ req'[w].call.obj = o /\ req'[w].hit = store[c][o].uid
    BY DEF CreatedOK
  <2>1. PICK w \in Requests : /\ Endpoint(w) \in Creates /\ req[w].target = c /\ req[w].call.obj = o
                              /\ req[w].hit = store[c][o].uid
    BY DEF CreatedOK
  <2>2. req[w].hit # 0 BY <2>1
  <2> QED BY <2>1, <2>2, HitLives
<1>5. EndingOK'
  <2> SUFFICES ASSUME NEW c \in Clusters, NEW o \in Objects, store[c][o].state = "terminating"
               PROVE  DeletedByRequest(c, o, store[c][o].uid)'
    BY DEF EndingOK, DeletedByRequest
  <2>1. DeletedByRequest(c, o, store[c][o].uid) BY DEF EndingOK
  <2>2. store[c][o].uid # 0 BY DEF StoreOK, Absent
  <2> QED BY <2>1, <2>2, DeletedLives
<1>6. KeptOK'
  <2> SUFFICES ASSUME NEW w \in Requests, Endpoint(w)' \in Creates, req'[w].hit # 0,
                      Current(w)'.uid # req'[w].hit
               PROVE  DeletedByRequest(req[w].target, req[w].call.obj, req[w].hit)'
    BY DEF KeptOK
  <2>1. Endpoint(w) \in Creates /\ req[w].hit # 0 BY HitLives
  <2>2. DeletedByRequest(req[w].target, req[w].call.obj, req[w].hit)
    BY <2>1, <1>2, HitLives DEF KeptOK
  <2>3. PICK c, o, uid : c = req[w].target /\ o = req[w].call.obj /\ uid = req[w].hit OBVIOUS
  <2>4. DeletedByRequest(c, o, uid)' BY <2>1, <2>2, <2>3, DeletedLives
  <2>5. req'[w].target = c /\ req'[w].call.obj = o /\ req'[w].hit = uid BY <2>1, <2>3, HitLives
  <2> QED BY <2>4, <2>5 DEF DeletedByRequest
<1> QED BY <1>1, <1>3, <1>4, <1>5, <1>6

LEMMA QuietBefore ==
    ASSUME TypeOK, RequestOK, BeforeOK, \A q \in Requests : Lives(q)
    PROVE  BeforeOK'
<1> SUFFICES ASSUME NEW d \in Requests, NEW w \in req'[d].before
             PROVE  /\ Answered(w)'
                    /\ SameObject(w, d)' /\ req'[w].answer # 502 /\ req'[d].hit # 0
                          => req'[w].hit <= req'[d].hit
  BY DEF BeforeOK
<1>1. CASE req[d].pc = "idle"
  <2>1. w \in Requests /\ Answered(w) /\ req'[d].hit = req[d].hit BY <1>1 DEF Lives
  <2>2. req[d].hit = 0 BY <1>1 DEF RequestOK, LocalOK
  <2> QED BY <2>1, <2>2 DEF Lives, Answered
<1>2. CASE req[d].pc # "idle"
  <2>1. w \in req[d].before /\ SameRequest(d) /\ req'[d].hit = req[d].hit BY <1>2 DEF Lives, SameRequest
  <2>2. Answered(w) /\ (SameObject(w, d) /\ req[w].answer # 502 /\ req[d].hit # 0 => req[w].hit <= req[d].hit)
    BY <2>1 DEF BeforeOK
  <2>3. w \in Requests BY <2>1 DEF TypeOK, RequestType
  <2> QED BY <2>1, <2>2, <2>3 DEF Lives, SameRequest, SameObject, Answered
<1> QED BY <1>1, <1>2

LEMMA QuietGone ==
    ASSUME TypeOK, RequestOK, GoneOK, NEW r \in Requests, QuietMove(r)
    PROVE  GoneOK'
<1> SUFFICES ASSUME NEW d \in Requests, Endpoint(d)' \in Deletes,
                    \/ req'[d].proc = "exited" /\ req'[d].reply = "ok"
                    \/ req'[d].answer \in {200, 201}
             PROVE  Current(d)'.uid # req'[d].hit
  BY DEF GoneOK
<1>0. LocalOK(d) /\ store' = store /\ Lives(d) BY QuietLives DEF RequestOK, QuietMove
<1>1. CASE d # r
  <2>1. req'[d] = req[d]
    BY <1>1 DEF QuietMove, Arrival, Starts, Answers, Finish, Timeout, Refusal, ReadIsServed,
                WriteIsServed, Ends, SameHandler, Only
  <2> QED BY <2>1, <1>0 DEF GoneOK, Endpoint, Current
<1>2. CASE d = r
  <2>0. Endpoint(d) \in Deletes /\ Endpoint(d) \in Writes BY <1>0 DEF Lives, Endpoint, Writes
  <2>1. CASE Arrival(r)
    <3>1. CASE Starts(r) BY <1>0, <1>2, <2>1, <3>1 DEF Starts, Arrival, LocalOK
    <3>2. ASSUME NEW result \in {"error", "missing"}, Answers(r, Arrived(r), result) PROVE FALSE
      <4>1. Arrived(r).call = req[r].call /\ Arrived(r).proc = "none"
        BY <1>0, <1>2, <2>1, ArrivedShape DEF Arrival, LocalOK
      <4>2. req'[r].proc = "none" /\ req'[r].answer = Status(Endpoint(r), result)
        BY <4>1, <3>2, <2>0, <1>2 DEF Answers, Endpoint
      <4>3. Says(Status(Endpoint(r), result), result) BY <2>0, <1>2, StatusMeaning
      <4> QED BY <4>2, <4>3, <1>2 DEF Says
    <3> QED BY <2>1, <3>1, <3>2 DEF Arrival
  <2>2. CASE Finish(r)
    <3>1. PICK result :
             /\ Answers(r, req[r], result)
             /\ result = "timeout" \/ (result = req[r].reply /\ req[r].proc = "exited")
      BY <2>2 DEF Finish
    <3>2. req'[r].proc # "exited" /\ req'[r].answer = Status(Endpoint(r), result) /\ SameRequest(r)
      BY <3>1, <2>0, <1>2 DEF Answers, Endpoint, SameRequest
    <3>3. Says(Status(Endpoint(r), result), result) BY <2>0, <1>2, StatusMeaning
    <3>4. req[r].reply = "ok" /\ req[r].proc = "exited" BY <3>1, <3>2, <3>3, <1>2 DEF Says
    <3> QED BY <3>2, <3>4, <1>0, <1>2, <2>0 DEF GoneOK, Current, SameRequest, Lives
  <2>3. CASE Timeout(r) \/ Refusal(r) \/ ReadIsServed(r) \/ WriteIsServed(r)
    <3>1. Current(r)' = Current(r) /\ req'[r].hit = req[r].hit /\ req'[r].answer = req[r].answer
      BY <2>3, <1>0 DEF Timeout, Refusal, ReadIsServed, WriteIsServed, Ends, SameHandler, SameRequest, Current
    <3>2. \/ req[r].proc = "exited" /\ req[r].reply = "ok"
          \/ req[r].answer \in {200, 201}
          \/ Current(r).uid # req[r].hit
      <4>1. CASE req'[r].answer \in {200, 201} BY <4>1, <3>1
      <4>2. CASE Timeout(r) BY <4>2, <3>1, <1>2 DEF Timeout
      <4>3. CASE Refusal(r) BY <4>3, <3>1, <1>2 DEF Refusal, Ends
      <4>4. CASE ReadIsServed(r) BY <4>4, <2>0, <1>2 DEF ReadIsServed
      <4>5. CASE WriteIsServed(r) BY <4>5, <2>0, <3>1, <1>2 DEF WriteIsServed, Ends
      <4> QED BY <2>3, <4>1, <4>2, <4>3, <4>4, <4>5
    <3> QED BY <3>1, <3>2, <1>2, <2>0 DEF GoneOK
  <2> QED BY <2>1, <2>2, <2>3 DEF QuietMove
<1> QED BY <1>1, <1>2

LEMMA QuietList ==
    ASSUME TypeOK, RequestOK, StoreOK, KeptOK, BeforeOK, ListOK, NEW r \in Requests, QuietMove(r)
    PROVE  ListOK'
<1> SUFFICES ASSUME NEW l \in Requests, NEW w \in Requests, CreatedFor(w, l)'
             PROVE  \/ DeletedByRequest(req[w].target, req[w].call.obj, req[w].hit)'
                    \/ /\ req'[l].reply = "ok" => req'[w].call.obj \in req'[l].out
                       /\ req'[l].body # {} => req'[w].call.obj \in req'[l].body
  BY DEF ListOK
<1>0. \A q \in Requests : LocalOK(q) /\ HitOK(q) /\ Lives(q) BY QuietLives DEF RequestOK
<1>1. req[l] \in RequestType /\ req[w] \in RequestType /\ w \in req'[l].before
  BY DEF TypeOK, CreatedFor
<1>2. Endpoint(l)' = Endpoint(l) /\ Endpoint(w)' = Endpoint(w) BY <1>0 DEF Lives, Endpoint
<1>3. Endpoint(l) \in {"list_vms", "list_pods"} /\ Endpoint(l) \notin Writes
  BY <1>2 DEF CreatedFor, Writes, Creates, Deletes
<1>4. l # r => req'[l] = req[l]
  BY DEF QuietMove, Arrival, Starts, Answers, Finish, Timeout, Refusal, ReadIsServed,
         WriteIsServed, Ends, SameHandler, Only
<1>5. CASE req[l].pc = "idle"
  <2>1. l = r BY <1>0, <1>1, <1>4, <1>5 DEF LocalOK
  <2>2. Arrival(r)
    <3>1. req[r].reply = "none" BY <1>0, <1>5, <2>1 DEF LocalOK
    <3> QED BY <1>5, <2>1, <3>1 DEF QuietMove, Finish, Timeout, Refusal, ReadIsServed, WriteIsServed
  <2>3. req[l].body = {} /\ req[l].reply = "none" BY <1>0, <1>5 DEF LocalOK
  <2>4. CASE Starts(r) BY <2>1, <2>3, <2>4 DEF Starts
  <2>5. ASSUME NEW result \in {"error", "missing"}, Answers(r, Arrived(r), result)
        PROVE  req'[r].reply # "ok" /\ req'[r].body = {}
    <3>1. Arrived(r).call = req[r].call /\ Arrived(r).out \subseteq Listable
      BY ArrivedShape DEF RequestType
    <3>2. Body(Endpoint(r), result, Arrived(r).out) = {} BY <3>1, <1>3, <2>1, BodyMeaning
    <3> QED BY <2>5, <3>1, <3>2 DEF Answers, Endpoint
  <2> QED BY <2>1, <2>2, <2>4, <2>5 DEF Arrival
<1>6. CASE req[l].pc # "idle"
  <2>1. /\ w \in req[l].before /\ Answered(w) /\ req'[l].target = req[l].target
    BY <1>0, <1>1, <1>6 DEF Lives, SameRequest, BeforeOK
  <2>2. SameRequest(w) /\ req'[w].answer = req[w].answer /\ req'[w].hit = req[w].hit
    BY <1>0, <2>1 DEF Lives, Answered
  <2>3. CreatedFor(w, l) BY <1>2, <2>1, <2>2 DEF CreatedFor, SameRequest
  <2>4. Endpoint(w) \in Creates /\ Endpoint(w) \in Writes /\ req[w].answer = 201
    BY <2>3 DEF CreatedFor, Creates, Writes
  <2>5. req[w].hit # 0 BY <1>0, <2>4 DEF HitOK
  <2>6. CASE DeletedByRequest(req[w].target, req[w].call.obj, req[w].hit)
    <3>1. PICK c, o, uid : c = req[w].target /\ o = req[w].call.obj /\ uid = req[w].hit OBVIOUS
    <3>2. DeletedByRequest(c, o, uid)' BY <1>0, <2>5, <2>6, <3>1, DeletedLives
    <3>3. req'[w].target = c /\ req'[w].call.obj = o /\ req'[w].hit = uid
      BY <2>2, <3>1 DEF SameRequest
    <3> QED BY <3>2, <3>3 DEF DeletedByRequest
  <2>7. CASE ~DeletedByRequest(req[w].target, req[w].call.obj, req[w].hit)
    <3> DEFINE b == req[w].call.obj
    <3>1. /\ req[l].reply = "ok" => b \in req[l].out
          /\ req[l].body # {} => b \in req[l].body
      BY <2>3, <2>7 DEF ListOK
    <3>2. req'[w].call.obj = b BY <2>2 DEF SameRequest
    <3> SUFFICES /\ req'[l].reply = "ok" => b \in req'[l].out
                 /\ req'[l].body # {} => b \in req'[l].body
      BY <3>2
    <3>3. CASE l # r BY <1>4, <3>1, <3>3
    <3>4. CASE l = r /\ Finish(r)
      <4>1. PICK result :
               /\ Answers(r, req[r], result)
               /\ result = "timeout" \/ (result = req[r].reply /\ req[r].proc = "exited")
        BY <3>4 DEF Finish
      <4>2. req[r].out \subseteq Listable BY <1>1, <3>4 DEF RequestType
      <4>3. /\ Body(Endpoint(r), result, req[r].out) \in {req[r].out, {}}
            /\ result # "ok" => Body(Endpoint(r), result, req[r].out) = {}
        BY <1>3, <3>4, <4>2, BodyMeaning
      <4>4. req'[r].reply = "none" /\ req'[r].body \in {{}, Body(Endpoint(r), result, req[r].out)}
        BY <1>3, <3>4, <4>1 DEF Answers, Endpoint
      <4> QED BY <3>1, <3>4, <4>1, <4>3, <4>4
    <3>5. CASE l = r /\ (Timeout(r) \/ Refusal(r) \/ WriteIsServed(r))
      BY <3>1, <3>5 DEF Timeout, Refusal, WriteIsServed, Ends, SameHandler
    <3>6. CASE l = r /\ ReadIsServed(r)
      <4>1. req'[l].out = Content(Endpoint(l), req[l].target) /\ req'[l].body = req[l].body
        BY <3>6 DEF ReadIsServed, Ends, SameHandler
      <4>2. Current(w).uid = req[w].hit BY <2>4, <2>5, <2>7 DEF KeptOK
      <4>3. store[req[l].target][b] # Absent
        BY <2>3, <2>5, <4>2 DEF CreatedFor, Current, Absent
      <4>4. CASE Endpoint(l) = "list_vms"
        <5>1. b \in VMs BY <2>3, <4>4, <1>1, CallTypes DEF CreatedFor, RequestType, Endpoint
        <5> QED BY <3>1, <4>1, <4>3, <4>4, <5>1 DEF Content, Listed
      <4>5. CASE Endpoint(l) = "list_pods"
        <5>1. b \in Pods BY <2>3, <4>5, <1>1, CallTypes DEF CreatedFor, RequestType, Endpoint
        <5> QED BY <3>1, <4>1, <4>3, <4>5, <5>1 DEF Content, Listed
      <4> QED BY <1>3, <4>4, <4>5
    <3> QED BY <1>6, <3>3, <3>4, <3>5, <3>6 DEF QuietMove, Arrival
  <2> QED BY <2>6, <2>7
<1> QED BY <1>5, <1>6

-----------------------------------------------------------------------------
(***************************************************************************)
(* Steps that change an object.                                            *)
(***************************************************************************)

\* A request that has changed an object knows where.
LEMMA HitPlace ==
    ASSUME TypeOK, RequestOK, NEW q \in Requests, req[q].hit # 0
    PROVE  /\ req[q].target \in Clusters /\ req[q].call.obj \in Objects
           /\ Current(q) \in ObjectType /\ req[q].hit \in Nat
<1>1. req[q].call \in AllCalls /\ req[q].hit \in Nat BY DEF TypeOK, RequestType
<1>2. req[q].target \in Clusters /\ Endpoint(q) \in Writes BY DEF RequestOK, LocalOK, TargetOK
<1>3. req[q].call.obj \in Objects BY <1>1, <1>2, CallTypes DEF Endpoint
<1> QED BY <1>1, <1>2, <1>3 DEF TypeOK, Current, ObjectType

\* An object that was being deleted is gone.
LEMMA VanishStep ==
    ASSUME WorkloadInv, NEW c \in Clusters, NEW o \in Objects, Vanishes(c, o)
    PROVE  /\ StoreOK' /\ UidOK' /\ CreatedOK' /\ EndingOK' /\ KeptOK'
           /\ GoneOK' /\ BeforeOK' /\ ListOK'
<1> USE DEF WorkloadInv
<1>0. /\ req' = req /\ nextUid' = nextUid /\ nextUid \in Nat /\ nextUid >= 2
      /\ store'[c][o] = Absent /\ Absent.uid = 0 /\ Absent.state = "absent"
      /\ store[c][o].state = "terminating"
      /\ \A x \in Clusters, y \in Objects : x # c \/ y # o => store'[x][y] = store[x][y]
  BY DEF Vanishes, Absent, StoreOK, TypeOK
<1>1. \A x \in Clusters, y \in Objects : store'[x][y] = store[x][y] \/ (x = c /\ y = o /\ store'[x][y] = Absent)
  BY <1>0
<1>2. StoreOK' BY <1>0, <1>1 DEF StoreOK
<1>3. ASSUME NEW q \in Requests, req[q].hit # 0
      PROVE  \/ Current(q)' = Current(q)
             \/ Current(q)'.uid = 0 /\ req[q].target = c /\ req[q].call.obj = o
  BY <1>0, <1>1, <1>3, HitPlace DEF Current
<1>4. UidOK' BY <1>0, <1>3 DEF UidOK
<1>5. CreatedOK'
  <2> SUFFICES ASSUME NEW x \in Clusters, NEW y \in Objects, store'[x][y].uid >= 2
               PROVE  \E w \in Requests : /\ Endpoint(w) \in Creates /\ req[w].target = x
                                          /\ req[w].call.obj = y /\ req[w].hit = store'[x][y].uid
    BY <1>0 DEF CreatedOK, Endpoint
  <2>1. store'[x][y] = store[x][y] BY <1>0, <1>1
  <2> QED BY <2>1 DEF CreatedOK
<1>6. EndingOK'
  <2> SUFFICES ASSUME NEW x \in Clusters, NEW y \in Objects, store'[x][y].state = "terminating"
               PROVE  DeletedByRequest(x, y, store'[x][y].uid)
    BY <1>0 DEF EndingOK, DeletedByRequest, Endpoint
  <2>1. store'[x][y] = store[x][y] BY <1>0, <1>1
  <2> QED BY <2>1 DEF EndingOK
<1>7. KeptOK'
  <2> SUFFICES ASSUME NEW w \in Requests, Endpoint(w) \in Creates, req[w].hit # 0, Current(w)'.uid # req[w].hit
               PROVE  DeletedByRequest(req[w].target, req[w].call.obj, req[w].hit)
    BY <1>0 DEF KeptOK, DeletedByRequest, Endpoint
  <2>1. CASE Current(w)' = Current(w) BY <2>1 DEF KeptOK
  <2>2. CASE req[w].target = c /\ req[w].call.obj = o
    <3>1. DeletedByRequest(c, o, store[c][o].uid) BY <1>0 DEF EndingOK
    <3>2. Current(w) = store[c][o] BY <2>2 DEF Current
    <3> QED BY <2>2, <3>1, <3>2 DEF KeptOK
  <2> QED BY <1>3, <2>1, <2>2
<1>8. GoneOK'
  <2> SUFFICES ASSUME NEW d \in Requests, Endpoint(d) \in Deletes,
                      (req[d].proc = "exited" /\ req[d].reply = "ok") \/ req[d].answer \in {200, 201}
               PROVE  Current(d)'.uid # req[d].hit
    BY <1>0 DEF GoneOK, Endpoint
  <2>1. req[d].hit # 0 BY DEF RequestOK, HitOK, Writes
  <2>2. Current(d).uid # req[d].hit BY DEF GoneOK
  <2> QED BY <1>3, <2>1, <2>2
<1>9. BeforeOK' BY <1>0 DEF BeforeOK, Answered, SameObject
<1>10. ListOK' BY <1>0 DEF ListOK, CreatedFor, DeletedByRequest, Endpoint
<1> QED BY <1>2, <1>4, <1>5, <1>6, <1>7, <1>8, <1>9, <1>10

\* The API server gets to a write: what is known beforehand, and what changes.
LEMMA HitFacts ==
    ASSUME WorkloadInv, NEW r \in Requests, NEW n \in ObjectType, HitMove(r, n)
    PROVE  /\ req[r].hit = 0 /\ req'[r].hit = n.uid /\ n.uid # 0 /\ n.uid \in Nat
           /\ nextUid \in Nat /\ nextUid' \in Nat /\ nextUid' >= nextUid /\ n.uid < nextUid'
           /\ req[r].answer \in {0, 502} /\ req'[r].answer = req[r].answer
           /\ Endpoint(r) \in Writes /\ Endpoint(r)' = Endpoint(r)
           /\ SameRequest(r) /\ req'[r].pc = req[r].pc /\ req'[r].proc = req[r].proc /\ req[r].proc # "exited"
           /\ Current(r)' = n /\ Current(r) \in ObjectType
           /\ req[r].target \in Clusters /\ req[r].call.obj \in Objects
           /\ \A q \in Requests : q # r => req'[q] = req[q]
           /\ \A q \in Requests : q # r /\ req[q].hit # 0 =>
                 \/ Current(q)' = Current(q) /\ ~SameObject(q, r)
                 \/ Current(q)' = n /\ Current(q) = Current(r) /\ SameObject(q, r)
<1> USE DEF WorkloadInv
<1>1. /\ SameHandler(r) /\ Puts(r, n) /\ req[r].reply = "pending" /\ req'[r].hit = n.uid /\ n.uid # 0
      /\ req'[r].pc = req[r].pc /\ req'[r].proc = req[r].proc /\ Endpoint(r) \in Writes
  BY DEF HitMove, Hits
<1>2. LocalOK(r) /\ HitOK(r) BY DEF RequestOK
<1>3. /\ req[r].hit = 0 /\ req[r].proc # "exited" /\ req[r].answer \in {0, 502}
  BY <1>1, <1>2 DEF LocalOK, HitOK, Answered
<1>4. /\ SameRequest(r) /\ Endpoint(r)' = Endpoint(r) /\ req'[r].answer = req[r].answer
      /\ \A q \in Requests : q # r => req'[q] = req[q]
  BY <1>1 DEF SameHandler, SameRequest, Only, Endpoint
<1>5. /\ req[r].target \in Clusters /\ req[r].call.obj \in Objects /\ Current(r)' = n
      /\ Current(r) \in ObjectType
  BY <1>1, <1>4 DEF Puts, Current, SameRequest, TypeOK, ObjectType
<1>6. n.uid \in Nat /\ nextUid \in Nat BY DEF ObjectType, TypeOK
<1>7. nextUid' \in Nat /\ nextUid' >= nextUid /\ n.uid < nextUid'
  <2>1. CASE n = [uid |-> nextUid, state |-> "Running"] /\ nextUid' = nextUid + 1 BY <1>6, <2>1
  <2>2. CASE n.uid = Current(r).uid /\ nextUid' = nextUid
    <3>1. Current(r).uid < nextUid BY <1>5 DEF Current, StoreOK
    <3> QED BY <1>6, <2>2, <3>1
  <2> QED BY <2>1, <2>2 DEF HitMove, Hits
<1>8. ASSUME NEW q \in Requests, q # r, req[q].hit # 0
      PROVE  \/ Current(q)' = Current(q) /\ ~SameObject(q, r)
             \/ Current(q)' = n /\ Current(q) = Current(r) /\ SameObject(q, r)
  <2>1. req[q].target \in Clusters /\ req[q].call.obj \in Objects BY <1>8, HitPlace
  <2>2. req'[q] = req[q] BY <1>4, <1>8
  <2> QED BY <1>1, <2>1, <2>2 DEF Puts, Current, SameObject
<1> QED BY <1>1, <1>3, <1>4, <1>5, <1>6, <1>7, <1>8

\* What a request deleted before the step stays deleted.
LEMMA DeletedStays ==
    ASSUME NEW r \in Requests, req[r].hit = 0, \A q \in Requests : q # r => req'[q] = req[q],
           NEW c, NEW o, NEW uid, uid # 0, DeletedByRequest(c, o, uid)
    PROVE  DeletedByRequest(c, o, uid)'
BY DEF DeletedByRequest, Endpoint

LEMMA HitHistory ==
    ASSUME WorkloadInv, NEW r \in Requests, NEW n \in ObjectType, HitMove(r, n)
    PROVE  StoreOK' /\ UidOK' /\ CreatedOK' /\ EndingOK' /\ KeptOK'
<1> USE DEF WorkloadInv
<1>0. /\ req[r].hit = 0 /\ req'[r].hit = n.uid /\ n.uid # 0 /\ n.uid \in Nat
      /\ nextUid \in Nat /\ nextUid' \in Nat /\ nextUid' >= nextUid /\ n.uid < nextUid'
      /\ Endpoint(r)' = Endpoint(r) /\ SameRequest(r)
      /\ Current(r)' = n /\ Current(r) \in ObjectType
      /\ req[r].target \in Clusters /\ req[r].call.obj \in Objects
      /\ \A q \in Requests : q # r => req'[q] = req[q]
  BY HitFacts
<1>1. \A q \in Requests : q # r /\ req[q].hit # 0 =>
         \/ Current(q)' = Current(q)
         \/ Current(q)' = n /\ Current(q) = Current(r)
  BY HitFacts
<1>2. \/ /\ Endpoint(r) \in Creates /\ Current(r) = Absent
         /\ n.uid = nextUid /\ n.state = "Running" /\ nextUid' = nextUid + 1
      \/ /\ Endpoint(r) \notin Creates /\ Current(r) # Absent
         /\ n.uid = Current(r).uid /\ n.state # "absent" /\ nextUid' = nextUid
         /\ n.state = "terminating" => Endpoint(r) \in Deletes \/ Current(r).state = "terminating"
  BY DEF HitMove, Hits
<1>3. Absent.uid = 0 /\ Absent.state = "absent" BY DEF Absent
<1>4. \A c \in Clusters, o \in Objects :
         \/ store'[c][o] = store[c][o]
         \/ c = req[r].target /\ o = req[r].call.obj /\ store'[c][o] = n /\ store[c][o] = Current(r)
  BY DEF HitMove, Hits, Puts, Current
<1>5. StoreOK'
  <2>1. nextUid' >= 2 BY <1>0 DEF StoreOK
  <2>2. ASSUME NEW c \in Clusters, NEW o \in Objects
        PROVE  /\ store'[c][o].uid < nextUid'
               /\ store'[c][o].uid = 0 <=> store'[c][o] = Absent
               /\ store'[c][o].state = "absent" <=> store'[c][o] = Absent
    <3>1. CASE store'[c][o] = store[c][o]
      <4>1. store[c][o].uid < nextUid /\ store[c][o].uid \in Nat BY DEF StoreOK, TypeOK
      <4> QED BY <3>1, <4>1, <1>0 DEF StoreOK
    <3>2. CASE store'[c][o] = n
      <4>1. n # Absent /\ n.state # "absent" BY <1>0, <1>2, <1>3
      <4> QED BY <3>2, <4>1, <1>0
    <3> QED BY <3>1, <3>2, <1>4
  <2> QED BY <2>1, <2>2 DEF StoreOK
<1>6. UidOK'
  <2> SUFFICES ASSUME NEW q \in Requests, req'[q].hit # 0
               PROVE  req'[q].hit < nextUid' /\ (Current(q)'.uid = 0 \/ Current(q)'.uid >= req'[q].hit)
    BY DEF UidOK
  <2>1. CASE q = r BY <2>1, <1>0
  <2>2. CASE q # r
    <3>1. req'[q] = req[q] /\ req[q].hit # 0 /\ req[q].hit \in Nat /\ Current(q) \in ObjectType
      BY <2>2, <1>0, HitPlace
    <3>2. req[q].hit < nextUid /\ (Current(q).uid = 0 \/ Current(q).uid >= req[q].hit)
      BY <3>1 DEF UidOK
    <3>3. CASE Current(q)' = Current(q) BY <3>1, <3>2, <3>3, <1>0
    <3>4. CASE Current(q)' = n /\ Current(q) = Current(r)
      <4>1. n.uid = nextUid \/ (n.uid = Current(q).uid /\ n.uid # 0) BY <3>4, <1>0, <1>2
      <4> QED BY <3>1, <3>2, <3>4, <4>1, <1>0
    <3> QED BY <2>2, <3>1, <3>3, <3>4, <1>1
  <2> QED BY <2>1, <2>2
<1>7. CreatedOK'
  <2> SUFFICES ASSUME NEW c \in Clusters, NEW o \in Objects, store'[c][o].uid >= 2
               PROVE  \E w \in Requests : /\ Endpoint(w)' \in Creates /\ req'[w].target = c
                                          /\ req'[w].call.obj = o /\ req'[w].hit = store'[c][o].uid
    BY DEF CreatedOK
  <2>1. CASE store'[c][o].uid = store[c][o].uid
    <3>1. PICK w \in Requests : /\ Endpoint(w) \in Creates /\ req[w].target = c /\ req[w].call.obj = o
                                /\ req[w].hit = store[c][o].uid
      BY <2>1 DEF CreatedOK
    <3>2. w # r BY <2>1, <3>1, <1>0
    <3> QED BY <2>1, <3>1, <3>2, <1>0 DEF Endpoint
  <2>2. CASE /\ c = req[r].target /\ o = req[r].call.obj /\ store'[c][o] = n
             /\ Endpoint(r) \in Creates
    BY <2>2, <1>0 DEF SameRequest
  <2> QED BY <2>1, <2>2, <1>2, <1>4
<1>8. EndingOK'
  <2> SUFFICES ASSUME NEW c \in Clusters, NEW o \in Objects, store'[c][o].state = "terminating"
               PROVE  \E d \in Requests : /\ Endpoint(d)' \in Deletes /\ req'[d].target = c
                                          /\ req'[d].call.obj = o /\ req'[d].hit = store'[c][o].uid
    BY DEF EndingOK, DeletedByRequest
  <2>1. CASE store[c][o].state = "terminating" /\ store'[c][o].uid = store[c][o].uid
    <3>1. PICK d \in Requests : /\ Endpoint(d) \in Deletes /\ req[d].target = c /\ req[d].call.obj = o
                                /\ req[d].hit = store[c][o].uid
      BY <2>1 DEF EndingOK, DeletedByRequest
    <3>2. store[c][o].uid # 0 BY <2>1, <1>3 DEF StoreOK
    <3>3. d # r BY <3>1, <3>2, <1>0
    <3> QED BY <2>1, <3>1, <3>3, <1>0 DEF Endpoint
  <2>2. CASE /\ c = req[r].target /\ o = req[r].call.obj /\ store'[c][o] = n
             /\ Endpoint(r) \in Deletes
    BY <2>2, <1>0 DEF SameRequest
  <2>3. CASE store'[c][o] = store[c][o] BY <2>1, <2>3
  <2>4. CASE c = req[r].target /\ o = req[r].call.obj /\ store'[c][o] = n /\ store[c][o] = Current(r)
    BY <2>1, <2>2, <2>4, <1>2
  <2> QED BY <2>3, <2>4, <1>4
<1>9. KeptOK'
  <2> SUFFICES ASSUME NEW w \in Requests, Endpoint(w)' \in Creates, req'[w].hit # 0,
                      Current(w)'.uid # req'[w].hit
               PROVE  DeletedByRequest(req[w].target, req[w].call.obj, req[w].hit)'
    BY DEF KeptOK
  <2>1. w # r BY <1>0
  <2>2. req'[w] = req[w] /\ Endpoint(w) \in Creates /\ req[w].hit # 0 BY <2>1, <1>0 DEF Endpoint
  <2>3. Current(w).uid # req[w].hit
    <3>1. CASE Current(w)' = Current(w) BY <3>1, <2>2
    <3>2. CASE Current(w)' = n /\ Current(w) = Current(r) BY <3>2, <2>2, <1>2, <1>3
    <3> QED BY <3>1, <3>2, <2>1, <2>2, <1>1
  <2>4. DeletedByRequest(req[w].target, req[w].call.obj, req[w].hit) BY <2>2, <2>3 DEF KeptOK
  <2>5. PICK c, o, uid : c = req[w].target /\ o = req[w].call.obj /\ uid = req[w].hit OBVIOUS
  <2>6. DeletedByRequest(c, o, uid)' BY <2>2, <2>4, <2>5, <1>0, DeletedStays
  <2> QED BY <2>2, <2>5, <2>6 DEF DeletedByRequest
<1> QED BY <1>5, <1>6, <1>7, <1>8, <1>9

LEMMA HitAnswers ==
    ASSUME WorkloadInv, NEW r \in Requests, NEW n \in ObjectType, HitMove(r, n)
    PROVE  GoneOK' /\ BeforeOK' /\ ListOK'
<1> USE DEF WorkloadInv
<1>0. /\ req[r].hit = 0 /\ req'[r].hit = n.uid /\ n.uid # 0 /\ n.uid \in Nat /\ nextUid \in Nat
      /\ req[r].answer \in {0, 502} /\ req'[r].answer = req[r].answer
      /\ Endpoint(r) \in Writes /\ Endpoint(r)' = Endpoint(r)
      /\ SameRequest(r) /\ req'[r].pc = req[r].pc /\ req'[r].proc = req[r].proc /\ req[r].proc # "exited"
      /\ Current(r) \in ObjectType
      /\ \A q \in Requests : q # r => req'[q] = req[q]
  BY HitFacts
<1>1. \A q \in Requests : q # r /\ req[q].hit # 0 =>
         \/ Current(q)' = Current(q) /\ ~SameObject(q, r)
         \/ Current(q)' = n /\ Current(q) = Current(r) /\ SameObject(q, r)
  BY HitFacts
<1>2. \/ Current(r) = Absent /\ n.uid = nextUid
      \/ Current(r) # Absent /\ n.uid = Current(r).uid
  BY DEF HitMove, Hits
<1>3. Absent.uid = 0 BY DEF Absent
<1>4. GoneOK'
  <2> SUFFICES ASSUME NEW d \in Requests, Endpoint(d)' \in Deletes,
                      \/ req'[d].proc = "exited" /\ req'[d].reply = "ok"
                      \/ req'[d].answer \in {200, 201}
               PROVE  Current(d)'.uid # req'[d].hit
    BY DEF GoneOK
  <2>1. d # r BY <1>0
  <2>2. req'[d] = req[d] /\ Endpoint(d) \in Deletes BY <2>1, <1>0 DEF Endpoint
  <2>3. req[d].hit # 0 BY <2>2 DEF RequestOK, HitOK, Writes
  <2>4. Current(d).uid # req[d].hit BY <2>2 DEF GoneOK
  <2>5. req[d].hit < nextUid /\ req[d].hit \in Nat BY <2>3, HitPlace DEF UidOK
  <2>6. CASE Current(d)' = Current(d) BY <2>2, <2>4, <2>6
  <2>7. CASE Current(d)' = n /\ Current(d) = Current(r) BY <1>0, <1>2, <2>2, <2>4, <2>5, <2>7
  <2> QED BY <1>1, <2>1, <2>3, <2>6, <2>7
<1>5. BeforeOK'
  <2> SUFFICES ASSUME NEW d \in Requests, NEW w \in req'[d].before
               PROVE  /\ Answered(w)'
                      /\ SameObject(w, d)' /\ req'[w].answer # 502 /\ req'[d].hit # 0
                            => req'[w].hit <= req'[d].hit
    BY DEF BeforeOK
  <2>1. w \in req[d].before BY <1>0 DEF SameRequest
  <2>2. w \in Requests BY <2>1 DEF TypeOK, RequestType
  <2>3. Answered(w) /\ (SameObject(w, d) /\ req[w].answer # 502 /\ req[d].hit # 0 => req[w].hit <= req[d].hit)
    BY <2>1 DEF BeforeOK
  <2>4. Answered(w)' BY <1>0, <2>2, <2>3 DEF Answered
  <2>5. SameObject(w, d)' <=> SameObject(w, d) BY <1>0, <2>2 DEF SameObject, SameRequest
  <2>6. CASE w = r
    <3>1. req[r].answer = 502 BY <2>3, <2>6, <1>0 DEF RequestOK, LocalOK, Answered
    <3> QED BY <2>4, <2>6, <3>1, <1>0
  <2>7. CASE w # r /\ d # r BY <1>0, <2>2, <2>3, <2>4, <2>5, <2>7
  <2>8. CASE w # r /\ d = r
    <3>1. req'[w] = req[w] /\ req[w].hit \in Nat BY <1>0, <2>2, <2>8 DEF TypeOK, RequestType
    <3>2. ASSUME SameObject(w, r), req[w].hit # 0 PROVE req[w].hit <= n.uid
      <4>1. /\ req[w].hit < nextUid
            /\ Current(w).uid = 0 \/ Current(w).uid >= req[w].hit
        BY <2>2, <3>2 DEF UidOK
      <4>2. Current(w) = Current(r) BY <3>2 DEF SameObject, Current
      <4> QED BY <1>0, <1>2, <3>1, <4>1, <4>2
    <3> QED BY <1>0, <2>4, <2>5, <2>8, <3>1, <3>2
  <2> QED BY <2>6, <2>7, <2>8
<1>6. ListOK'
  <2> SUFFICES ASSUME NEW l \in Requests, NEW w \in Requests, CreatedFor(w, l)'
               PROVE  \/ DeletedByRequest(req[w].target, req[w].call.obj, req[w].hit)'
                      \/ /\ req'[l].reply = "ok" => req'[w].call.obj \in req'[l].out
                         /\ req'[l].body # {} => req'[w].call.obj \in req'[l].body
    BY DEF ListOK
  <2>1. l # r BY <1>0 DEF CreatedFor, Writes, Creates, Deletes
  <2>2. w # r BY <1>0 DEF CreatedFor
  <2>3. req'[l] = req[l] /\ req'[w] = req[w] BY <1>0, <2>1, <2>2
  <2>4. CreatedFor(w, l) BY <2>3 DEF CreatedFor, Endpoint
  <2>5. CASE DeletedByRequest(req[w].target, req[w].call.obj, req[w].hit)
    <3>1. req[w].hit # 0 BY <2>4 DEF CreatedFor, RequestOK, HitOK, Writes, Creates
    <3>2. PICK c, o, uid : c = req[w].target /\ o = req[w].call.obj /\ uid = req[w].hit OBVIOUS
    <3>3. DeletedByRequest(c, o, uid)' BY <1>0, <2>5, <3>1, <3>2, DeletedStays
    <3> QED BY <2>3, <3>2, <3>3 DEF DeletedByRequest
  <2> QED BY <2>3, <2>4, <2>5 DEF ListOK
<1> QED BY <1>4, <1>5, <1>6

-----------------------------------------------------------------------------
LEMMA WorkloadInit == Init => WorkloadInv
<1> SUFFICES ASSUME Init PROVE WorkloadInv OBVIOUS
<1>1. PICK s \in Scenarios :
         /\ req = [r \in Requests |-> Awaited(s.calls[r])]
         /\ store = [c \in Clusters |-> [o \in Objects |->
                        IF o \in s.present[c] THEN [uid |-> 1, state |-> "Running"] ELSE Absent]]
         /\ env = s.env /\ own = s.own /\ fallback = s.fallback /\ volatile = s.volatile
  BY DEF Init
<1>2. \A r \in Requests : s.calls[r] \in AllCalls BY WorkloadConstants
<1>3. ASSUME NEW k \in AllCalls
      PROVE  /\ Awaited(k) \in RequestType
             /\ Awaited(k).pc = "idle" /\ Awaited(k).proc = "none" /\ Awaited(k).reply = "none"
             /\ Awaited(k).hit = 0 /\ Awaited(k).answer = 0 /\ Awaited(k).body = {}
             /\ Awaited(k).before = {} /\ Awaited(k).owned = FALSE
  <2>1. "idle" \in Phases /\ "none" \in ProcStates /\ "none" \in Replies /\ 0 \in StatusCodes
    BY DEF Phases, ProcStates, Replies, StatusCodes
  <2> QED BY <2>1 DEF Awaited, RequestType
<1>4. \A r \in Requests :
         /\ req[r] \in RequestType
         /\ req[r].pc = "idle" /\ req[r].proc = "none" /\ req[r].reply = "none"
         /\ req[r].hit = 0 /\ req[r].answer = 0 /\ req[r].body = {}
         /\ req[r].before = {} /\ req[r].owned = FALSE
  BY <1>1, <1>2, <1>3
<1>5. ASSUME NEW c \in Clusters, NEW o \in Objects
      PROVE  store[c][o] \in {[uid |-> 1, state |-> "Running"], Absent}
  BY <1>1
<1>6. nextUid = 2 /\ manifest = FALSE BY DEF Init
<1>7. TypeOK
  <2>1. store \in [Clusters -> [Objects -> [uid : Nat, state : {"absent", "Running", "Stopped", "terminating"}]]]
    BY <1>1 DEF Absent
  <2>2. req \in [Requests -> RequestType] BY <1>1, <1>4
  <2>3. /\ env \in Clusters \cup {NoCluster} /\ fallback \in Clusters \cup {NoCluster}
        /\ own \subseteq Clusters /\ volatile \subseteq Clusters
    BY <1>1, WorkloadConstants
  <2> QED BY <1>6, <2>1, <2>2, <2>3 DEF TypeOK
<1>8. RequestOK BY <1>4 DEF RequestOK, LocalOK, HitOK, TargetOK, Answered
<1>9. StoreOK /\ CreatedOK /\ EndingOK BY <1>5, <1>6 DEF StoreOK, CreatedOK, EndingOK, Absent
<1>10. UidOK /\ KeptOK /\ GoneOK /\ BeforeOK /\ ListOK
  BY <1>4 DEF UidOK, KeptOK, GoneOK, BeforeOK, ListOK, CreatedFor
<1> QED BY <1>7, <1>8, <1>9, <1>10 DEF WorkloadInv

LEMMA WorkloadStep == WorkloadInv /\ [Next]_vars => WorkloadInv'
<1> SUFFICES ASSUME WorkloadInv, [Next]_vars PROVE WorkloadInv' OBVIOUS
<1>1. TypeOK' /\ RequestOK' BY TypeStep, RequestStep DEF WorkloadInv
<1> DEFINE History == StoreOK' /\ UidOK' /\ CreatedOK' /\ EndingOK' /\ KeptOK'
           Answering == GoneOK' /\ BeforeOK' /\ ListOK'
<1>2. ASSUME NEW r \in Requests, QuietMove(r) PROVE History /\ Answering
  <2>1. \A q \in Requests : Lives(q) BY <1>2, QuietLives DEF WorkloadInv
  <2>2. History BY <1>2, <2>1, QuietHistory DEF WorkloadInv, QuietMove
  <2>3. Answering BY <1>2, <2>1, QuietGone, QuietBefore, QuietList DEF WorkloadInv
  <2> QED BY <2>2, <2>3
<1>3. ASSUME NEW r \in Requests, NEW n \in ObjectType, HitMove(r, n) PROVE History /\ Answering
  BY <1>3, HitHistory, HitAnswers
<1>4. ASSUME NEW c \in Clusters, NEW o \in Objects, Vanishes(c, o) PROVE History /\ Answering
  BY <1>4, VanishStep
<1>5. ASSUME UNCHANGED <<req, store, nextUid>> PROVE History /\ Answering
  <2>1. \A q \in Requests : Lives(q)
    BY <1>5 DEF Lives, SameRequest, Answered, WorkloadInv, RequestOK, LocalOK
  <2>2. History BY <1>5, <2>1, QuietHistory DEF WorkloadInv
  <2>3. BeforeOK' BY <2>1, QuietBefore DEF WorkloadInv
  <2>4. GoneOK' BY <1>5 DEF WorkloadInv, GoneOK, Endpoint, Current
  <2>5. ListOK' BY <1>5 DEF WorkloadInv, ListOK, CreatedFor, DeletedByRequest, Endpoint
  <2> QED BY <2>2, <2>3, <2>4, <2>5
<1>6. History /\ Answering
  <2> HIDE DEF History, Answering
  <2> QED BY <1>2, <1>3, <1>4, <1>5, StepCases DEF WorkloadInv
<1> QED BY <1>1, <1>6 DEF WorkloadInv

\* The handlers, their processes, the clusters and the kubeconfig files keep the
\* inductive invariant.
THEOREM WorkloadInvariant == Spec => []WorkloadInv
<1>1. Init => WorkloadInv BY WorkloadInit
<1>2. WorkloadInv /\ [Next]_vars => WorkloadInv' BY WorkloadStep
<1> QED BY <1>1, <1>2, PTL DEF Spec

\* Type correctness of the requests, the clusters and the configuration; an answer is one
\* of the status codes of the routes.
THEOREM WorkloadTypeCorrect == Spec => []TypeOK
<1>1. WorkloadInv => TypeOK BY DEF WorkloadInv
<1> QED BY <1>1, WorkloadInvariant, PTL

\* A write that is answered with 200 or 201 took effect, and what it deleted is gone, for
\* any number of requests racing for an object (_exec_kubectl, _raise_for_kubectl).
THEOREM SuccessIsTrue == Spec => []SuccessMeansDone
<1>1. WorkloadInv => SuccessMeansDone
  BY DEF WorkloadInv, RequestOK, HitOK, GoneOK, SuccessMeansDone
<1> QED BY <1>1, WorkloadInvariant, PTL

\* After 404, 409, 500 or 503 a request has changed nothing and never will.
THEOREM RefusalIsFinal == Spec => []RefusalIsDefinite
<1>1. WorkloadInv => RefusalIsDefinite
  BY DEF WorkloadInv, RequestOK, LocalOK, HitOK, RefusalIsDefinite, Answered
<1> QED BY <1>1, WorkloadInvariant, PTL

\* No process of an answered request runs on without having been killed.
THEOREM LeftoversAreKilled == Spec => []LeftoverIsKilled
<1>1. WorkloadInv => LeftoverIsKilled
  BY DEF WorkloadInv, RequestOK, LocalOK, LeftoverIsKilled, Answered
<1> QED BY <1>1, WorkloadInvariant, PTL

\* A list that shows anything shows what its client had been told was created, unless a
\* request deleted it.
THEOREM WritesAreRead == Spec => []ReadYourWrites
<1>1. WorkloadInv => ReadYourWrites
  <2> SUFFICES ASSUME WorkloadInv, NEW l \in Requests, NEW w \in Requests,
                      CreatedFor(w, l), req[l].body # {}
               PROVE  \/ req[w].call.obj \in req[l].body
                      \/ \E d \in Requests : /\ Endpoint(d) \in Deletes /\ SameObject(d, w)
                                             /\ req[d].hit = req[w].hit
    BY DEF ReadYourWrites, CreatedFor
  <2> QED BY DEF WorkloadInv, ListOK, DeletedByRequest, SameObject
<1> QED BY <1>1, WorkloadInvariant, PTL

\* A deleted object is there again only because of a create that was not over when the
\* delete came in, or that had been answered with 502.
THEOREM NothingIsResurrected == Spec => []NoResurrection
<1>1. WorkloadInv => NoResurrection
  <2> SUFFICES ASSUME WorkloadInv, NEW d \in Requests, Endpoint(d) \in Deletes, req[d].answer = 200,
                      Current(d) # Absent
               PROVE  \E w \in Requests : /\ Endpoint(w) \in Creates /\ SameObject(w, d)
                                          /\ req[w].hit = Current(d).uid
                                          /\ w \notin req[d].before \/ req[w].answer = 502
    BY DEF NoResurrection
  <2>1. req[d].hit # 0 BY DEF WorkloadInv, RequestOK, HitOK, Writes
  <2>2. /\ req[d].target \in Clusters /\ req[d].call.obj \in Objects
        /\ Current(d).uid \in Nat /\ req[d].hit \in Nat
    BY <2>1, HitPlace DEF WorkloadInv, ObjectType
  <2>3. Current(d).uid # 0 BY <2>2 DEF WorkloadInv, StoreOK, Current
  <2>4. Current(d).uid # req[d].hit /\ Current(d).uid >= req[d].hit
    BY <2>1, <2>3 DEF WorkloadInv, GoneOK, UidOK
  <2>5. Current(d).uid >= 2 /\ Current(d).uid > req[d].hit BY <2>1, <2>2, <2>4
  <2>6. PICK w \in Requests : /\ Endpoint(w) \in Creates /\ req[w].target = req[d].target
                              /\ req[w].call.obj = req[d].call.obj /\ req[w].hit = Current(d).uid
    <3>1. CreatedOK BY DEF WorkloadInv
    <3>2. \A c \in Clusters, o \in Objects :
             store[c][o].uid >= 2 =>
               \E w \in Requests : /\ Endpoint(w) \in Creates /\ req[w].target = c
                                   /\ req[w].call.obj = o /\ req[w].hit = store[c][o].uid
      BY <3>1 DEF CreatedOK
    <3>3. store[req[d].target][req[d].call.obj].uid >= 2 BY <2>5 DEF Current
    <3>4. \E w \in Requests : /\ Endpoint(w) \in Creates /\ req[w].target = req[d].target
                             /\ req[w].call.obj = req[d].call.obj
                             /\ req[w].hit = store[req[d].target][req[d].call.obj].uid
      BY <2>2, <3>2, <3>3
    <3> QED BY <3>4 DEF Current
  <2>7. SameObject(w, d) BY <2>6 DEF SameObject
  <2>8. ASSUME w \in req[d].before, req[w].answer # 502 PROVE FALSE
    <3>1. req[w].hit <= req[d].hit BY <2>1, <2>7, <2>8 DEF WorkloadInv, BeforeOK
    <3> QED BY <3>1, <2>2, <2>5, <2>6
  <2> QED BY <2>6, <2>7, <2>8
<1> QED BY <1>1, WorkloadInvariant, PTL
=============================================================================
