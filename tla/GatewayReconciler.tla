-------------------------- MODULE GatewayReconciler --------------------------
(***************************************************************************)
(* The Gateway controller of the GEM network operator:                     *)
(*   operators/gem-network-operator/controllers/gateway_controller.go      *)
(*                                                                         *)
(* One Gateway, the routes that name it, their endpoint selectors, the     *)
(* pods on secondary networks, the Service and the EndpointSlice made for  *)
(* it, and the rewrite rule of CoreDNS.  Gateways of other names have other *)
(* children; a single worker reconciles them one after the other.          *)
(*                                                                         *)
(* Everyone else acts between any two API calls of a reconcile, and any    *)
(* call may fail.  Gateway, routes, selectors and CIDRs are read from the  *)
(* API server; pods come from an informer cache that lags behind.  Unlike  *)
(* the children of a Network, these have no owner reference: what the      *)
(* controller does not delete stays.                                       *)
(***************************************************************************)
EXTENDS Naturals, FiniteSets

CONSTANTS
    Networks, Pods, Selectors,
    CidrNetworks,    \* networks that users may give a GKEGatewayCIDR
    NetworkOf,       \* NetworkOf[p]: the network of p in its network-status annotation
    Selects,         \* Selects[s]: the pods that match the labels of selector s
    Specs,           \* what users may write: [network, static]
    None,
    MaxFaults,       \* bound on failed API calls, operator crashes and drift
    MaxChanges       \* bound on what everyone else does

Children == {"service", "slice"}
NoChild == [ip |-> None, eps |-> {}, ports |-> {}]

ASSUME GatewayConstants ==
    /\ None \notin Networks /\ CidrNetworks \subseteq Networks
    /\ IsFiniteSet(Pods)
    /\ NetworkOf \in [Pods -> Networks]
    /\ Selects \in [Selectors -> SUBSET Pods]
    /\ \A sp \in Specs : DOMAIN sp = {"network", "static"} /\ sp.network \in Networks \cup {None}
    /\ Specs # {}
    /\ MaxFaults \in Nat /\ MaxChanges \in Nat

VARIABLES
    gw,           \* the Gateway: [phase, uid, finalizer, spec, addr, backends]
    cidrs,        \* networks with a GKEGatewayCIDR that has a first host address
    refs,         \* the selectors that the routes of the Gateway refer to
    accepted,     \* the routes carry the Accepted and Ready conditions
    selectors,    \* the GKEEndpointSelectors that exist
    pods,         \* pods[p]: "absent", "starting" or "ready"
    view,         \* the pods as the informer cache has them
    children,     \* children[k]: [ip, eps, ports], or NoChild
    rule,         \* who has the rewrite rule: subset of {"template", "corefile", "renderer"}
    work,         \* the running reconcile: [pc, obj, ip, todo, want, eps]
    leaked,       \* children whose Delete failed when the Gateway was deleted (history)
    faults, changes

envVars == <<cidrs, refs, selectors, pods, view>>
vars == <<gw, cidrs, refs, accepted, selectors, pods, view, children, rule, work, leaked, faults, changes>>

NoGateway(uid) ==
    [phase |-> "absent", uid |-> uid, finalizer |-> FALSE, spec |-> CHOOSE sp \in Specs : TRUE,
     addr |-> None, backends |-> 0]

Reconciling(pc, obj) == [pc |-> pc, obj |-> obj, ip |-> None, todo |-> {}, want |-> {}, eps |-> {}]

Idle == Reconciling("idle", NoGateway(0))

Init ==
    /\ gw = NoGateway(0)
    /\ cidrs \in SUBSET CidrNetworks /\ refs \in SUBSET Selectors
    /\ accepted = FALSE /\ selectors = Selectors
    /\ pods = [p \in Pods |-> "ready"] /\ view = pods
    /\ children = [k \in Children |-> NoChild]
    /\ rule = {}
    /\ work = Idle
    /\ leaked = {}
    /\ faults = 0 /\ changes = 0

-----------------------------------------------------------------------------
At(pc) == work.pc = pc

Goto(pc) == [work EXCEPT !.pc = pc]

\* An API call fails, for a reason of its own.
Fault == faults < MaxFaults /\ faults' = faults + 1

\* The first host address of the CIDR of network n.
FirstAddress(n) == <<"first", n>>

\* determineGatewayIP on the CIDRs that were listed.
GatewayIP(sp, listed) ==
    IF sp.static # None THEN sp.static
    ELSE IF sp.network \in listed THEN FirstAddress(sp.network) ELSE None

\* collectEndpointsForSelector: the ready pods of the target network.
Endpoints(s, n, seen) == {p \in Selects[s] : seen[p] = "ready" /\ NetworkOf[p] = n}

\* writeServiceAndEndpointSlice: what child k should be.
Desired(k) ==
    IF k = "service" THEN [ip |-> work.ip, eps |-> {}, ports |-> work.want]
    ELSE [ip |-> None, eps |-> work.eps, ports |-> work.want]

-----------------------------------------------------------------------------
(***************************************************************************)
(* Reconcile                                                               *)
(***************************************************************************)
Reconcile ==
    /\ At("idle")
    /\ gw.phase # "absent"
    /\ work' = Reconciling(IF gw.phase = "deleting" THEN "delete service" ELSE "finalizer", gw)
    /\ UNCHANGED <<gw, envVars, accepted, children, rule, leaked, faults, changes>>

\* Wrong: an error of the Update is ignored.
EnsureFinalizerBestEffort ==
    /\ At("finalizer")
    /\ gw' = IF gw = work.obj THEN [gw EXCEPT !.finalizer = TRUE] ELSE gw
    /\ work' = [Goto("resolve") EXCEPT !.obj.finalizer = TRUE]
    /\ UNCHANGED <<envVars, accepted, children, rule, leaked, faults, changes>>

\* Update(gw) with the finalizer, if it is missing; an error ends the reconcile.  An Update
\* succeeds on the object as it was read; one that was edited since is a conflict.
EnsureFinalizer ==
    /\ At("finalizer")
    /\ \/ /\ work.obj.finalizer
          /\ work' = Goto("resolve")
          /\ UNCHANGED <<gw, faults>>
       \/ /\ ~work.obj.finalizer /\ gw = work.obj
          /\ gw' = [gw EXCEPT !.finalizer = TRUE]
          /\ work' = [Goto("resolve") EXCEPT !.obj = gw']
          /\ UNCHANGED faults
       \/ /\ ~work.obj.finalizer
          /\ (gw # work.obj /\ UNCHANGED faults) \/ Fault
          /\ work' = Idle
          /\ UNCHANGED gw
    /\ UNCHANGED <<envVars, accepted, children, rule, leaked, changes>>

\* Wrong: a Gateway that has no address yet is not left alone.
DetermineGatewayIPUnchecked ==
    /\ At("resolve")
    /\ work' = IF work.obj.spec.network = None
               THEN Idle ELSE [Goto("routes") EXCEPT !.ip = GatewayIP(work.obj.spec, cidrs)]
    /\ UNCHANGED <<gw, envVars, accepted, children, rule, leaked, faults, changes>>

\* A Gateway without a network, or without an address, is left as it is for now.
DetermineGatewayIP ==
    /\ At("resolve")
    /\ \E listable \in BOOLEAN :
          LET ip == GatewayIP(work.obj.spec, IF listable THEN cidrs ELSE {}) IN
          /\ IF listable THEN UNCHANGED faults ELSE Fault
          /\ work' = IF work.obj.spec.network = None \/ ip = None
                     THEN Idle ELSE [Goto("routes") EXCEPT !.ip = ip]
    /\ UNCHANGED <<gw, envVars, accepted, children, rule, leaked, changes>>

\* reconcileRoutesAndEndpoints; without a list, the children stay as they are.
ListRoutes ==
    /\ At("routes")
    /\ \/ work' = [Goto("endpoints") EXCEPT !.todo = refs, !.want = refs] /\ UNCHANGED faults
       \/ Fault /\ work' = Goto("status")
    /\ UNCHANGED <<gw, envVars, accepted, children, rule, leaked, changes>>

\* A selector that is missing or cannot be read counts as one without endpoints.
CollectEndpoints(s) ==
    /\ At("endpoints")
    /\ s \in work.todo
    /\ \/ /\ work' = [work EXCEPT !.todo = @ \ {s},
                        !.eps = @ \cup IF s \in selectors
                                       THEN Endpoints(s, work.obj.spec.network, view) ELSE {}]
          /\ UNCHANGED faults
       \/ Fault /\ work' = [work EXCEPT !.todo = @ \ {s}]
    /\ UNCHANGED <<gw, envVars, accepted, children, rule, leaked, changes>>

\* The conditions of the routes that were listed.  A route that has changed since keeps
\* its own; errors are ignored.
WriteRouteStatus ==
    /\ At("endpoints")
    /\ work.todo = {}
    /\ \/ accepted' = (accepted \/ refs = work.want) /\ UNCHANGED faults
       \/ Fault /\ UNCHANGED accepted
    /\ work' = Goto(IF work.want # {} THEN "apply service" ELSE "drop service")
    /\ UNCHANGED <<gw, envVars, children, rule, leaked, changes>>

\* Wrong: the endpoints are added to those that are there.
ApplyMerged(k, next) ==
    /\ children' = [children EXCEPT ![k] = [Desired(k) EXCEPT !.eps = @ \cup children[k].eps]]
    /\ leaked' = leaked \ {k}
    /\ work' = Goto(next)
    /\ UNCHANGED faults

\* Wrong: a child that is there is not updated.
ApplyIfAbsent(k, next) ==
    /\ children' = IF children[k] = NoChild THEN [children EXCEPT ![k] = Desired(k)] ELSE children
    /\ leaked' = leaked \ {k}
    /\ work' = Goto(next)
    /\ UNCHANGED faults

\* applyService, applyEndpointSlice.  A conflict that outlives its retries, and an informer
\* cache that does not show the child as it is, are Faults; errors are logged only.
Apply(k, next) ==
    /\ \/ /\ children' = [children EXCEPT ![k] = Desired(k)]
          /\ leaked' = leaked \ {k}
          /\ UNCHANGED faults
       \/ Fault /\ UNCHANGED <<children, leaked>>
    /\ work' = Goto(next)

\* cleanupDynamicResources, one Delete of the two, whose error is ignored.
Drop(k, next) ==
    /\ \/ /\ children' = [children EXCEPT ![k] = NoChild]
          /\ leaked' = leaked \ {k}
          /\ UNCHANGED faults
       \/ /\ Fault /\ children[k] # NoChild /\ UNCHANGED children
          /\ leaked' = IF work.obj.phase = "deleting" THEN leaked \cup {k} ELSE leaked
    /\ work' = Goto(next)

WriteChildren ==
    /\ \/ At("apply service") /\ Apply("service", "apply slice")
       \/ At("apply slice") /\ Apply("slice", "status")
       \/ At("drop service") /\ Drop("service", "drop slice")
       \/ At("drop slice") /\ Drop("slice", "status")
       \/ At("delete service") /\ Drop("service", "delete slice")
       \/ At("delete slice") /\ Drop("slice", "unfinalize")
    /\ UNCHANGED <<gw, envVars, accepted, rule, changes>>

\* Wrong: the finalizer is removed from the copy only.
RemoveFinalizerWithoutUpdate ==
    /\ At("unfinalize")
    /\ work' = Idle
    /\ UNCHANGED <<gw, envVars, accepted, children, rule, leaked, faults, changes>>

\* Update(gw) without the finalizer, after which the object is gone.
RemoveFinalizer ==
    /\ At("unfinalize")
    /\ work' = Idle
    /\ \/ gw = work.obj /\ gw' = NoGateway(gw.uid) /\ UNCHANGED faults
       \/ gw # work.obj /\ UNCHANGED <<gw, faults>>
       \/ Fault /\ UNCHANGED gw
    /\ UNCHANGED <<envVars, accepted, children, rule, leaked, changes>>

\* Address, Accepted and Programmed, with the number of endpoints; errors are ignored.
WriteStatus ==
    /\ At("status")
    /\ work' = Goto("template")
    /\ \/ /\ gw' = IF gw # work.obj THEN gw
                   ELSE [gw EXCEPT !.addr = work.ip, !.backends = Cardinality(work.eps)]
          /\ UNCHANGED faults
       \/ Fault /\ UNCHANGED gw
    /\ UNCHANGED <<envVars, accepted, children, rule, leaked, changes>>

\* reconcileCoreDNSTemplate
ReconcileTemplate ==
    /\ At("template")
    /\ work' = Goto("corefile")
    /\ \/ rule' = rule \cup {"template"} /\ UNCHANGED faults
       \/ Fault /\ UNCHANGED rule
    /\ UNCHANGED <<gw, envVars, accepted, children, leaked, changes>>

\* reconcileCoreDNS; the restart of CoreDNS only makes the change effective sooner.
ReconcileCorefile ==
    /\ At("corefile")
    /\ work' = Idle
    /\ \/ rule' = rule \cup {"corefile"} /\ UNCHANGED faults
       \/ Fault /\ UNCHANGED rule
    /\ UNCHANGED <<gw, envVars, accepted, children, leaked, changes>>

-----------------------------------------------------------------------------
(***************************************************************************)
(* Everyone else (external): users, kubelets, the informer cache, the      *)
(* clusterdns-controller, and crashes of the operator.                     *)
(***************************************************************************)
Change == changes < MaxChanges /\ changes' = changes + 1

CreateGateway(sp) ==
    /\ gw.phase = "absent" /\ Change
    /\ gw' = [NoGateway(gw.uid + 1) EXCEPT !.phase = "live", !.spec = sp]
    /\ UNCHANGED <<envVars, accepted, children, rule, work, leaked, faults>>

EditGateway(sp) ==
    /\ gw.phase = "live" /\ sp # gw.spec /\ Change
    /\ gw' = [gw EXCEPT !.spec = sp]
    /\ UNCHANGED <<envVars, accepted, children, rule, work, leaked, faults>>

\* An object with a finalizer stays until the finalizer is removed.
DeleteGateway ==
    /\ gw.phase = "live" /\ Change
    /\ gw' = IF gw.finalizer THEN [gw EXCEPT !.phase = "deleting"] ELSE NoGateway(gw.uid)
    /\ UNCHANGED <<envVars, accepted, children, rule, work, leaked, faults>>

RoutesChange(r) ==
    /\ r # refs /\ Change
    /\ refs' = r /\ accepted' = FALSE
    /\ UNCHANGED <<gw, cidrs, selectors, pods, view, children, rule, work, leaked, faults>>

SelectorChanges(s) ==
    /\ Change
    /\ selectors' = IF s \in selectors THEN selectors \ {s} ELSE selectors \cup {s}
    /\ UNCHANGED <<gw, cidrs, refs, accepted, pods, view, children, rule, work, leaked, faults>>

CidrChanges(n) ==
    /\ Change
    /\ cidrs' = IF n \in cidrs THEN cidrs \ {n} ELSE cidrs \cup {n}
    /\ UNCHANGED <<gw, refs, accepted, selectors, pods, view, children, rule, work, leaked, faults>>

PodChanges(p) ==
    /\ Change
    /\ \E st \in {"absent", "starting", "ready"} \ {pods[p]} : pods' = [pods EXCEPT ![p] = st]
    /\ UNCHANGED <<gw, cidrs, refs, accepted, selectors, view, children, rule, work, leaked, faults>>

\* The informer cache catches up with pod p.
CacheSync(p) ==
    /\ view[p] # pods[p]
    /\ view' = [view EXCEPT ![p] = pods[p]]
    /\ UNCHANGED <<gw, cidrs, refs, accepted, selectors, pods, children, rule, work, leaked,
                   faults, changes>>

\* Someone deletes a child.
Drift(k) ==
    /\ children[k] # NoChild /\ Fault
    /\ children' = [children EXCEPT ![k] = NoChild]
    /\ leaked' = leaked \ {k}
    /\ UNCHANGED <<gw, envVars, accepted, rule, work, changes>>

\* clusterdns-controller renders the Corefile from the template it read at its start.
Render ==
    /\ Change
    /\ rule' = IF "renderer" \in rule THEN rule \cup {"corefile"} ELSE rule \ {"corefile"}
    /\ UNCHANGED <<gw, envVars, accepted, children, work, leaked, faults>>

ClusterdnsRestarts ==
    /\ Change
    /\ rule' = IF "template" \in rule THEN rule \cup {"renderer"} ELSE rule \ {"renderer"}
    /\ UNCHANGED <<gw, envVars, accepted, children, work, leaked, faults>>

\* The work queue and the running reconcile are lost; a restart lists every Gateway.
OperatorRestarts ==
    /\ ~At("idle") /\ Fault
    /\ work' = Idle
    /\ UNCHANGED <<gw, envVars, accepted, children, rule, leaked, changes>>

\* One worker.  Every result other than that of a deletion asks to be run again after
\* 5 or 30 seconds, an error after a back-off, and a deletion is an event of its own.
ReconcileStep ==
    \/ Reconcile \/ EnsureFinalizer \/ DetermineGatewayIP \/ ListRoutes
    \/ \E s \in Selectors : CollectEndpoints(s)
    \/ WriteRouteStatus \/ WriteChildren \/ RemoveFinalizer \/ WriteStatus
    \/ ReconcileTemplate \/ ReconcileCorefile

Next ==
    \/ ReconcileStep
    \/ \E sp \in Specs : CreateGateway(sp) \/ EditGateway(sp)
    \/ DeleteGateway
    \/ \E r \in SUBSET Selectors : RoutesChange(r)
    \/ \E s \in Selectors : SelectorChanges(s)
    \/ \E n \in CidrNetworks : CidrChanges(n)
    \/ \E p \in Pods : PodChanges(p) \/ CacheSync(p)
    \/ \E k \in Children : Drift(k)
    \/ Render \/ ClusterdnsRestarts \/ OperatorRestarts

Spec == Init /\ [][Next]_vars

FairSpec ==
    /\ Spec
    /\ WF_vars(ReconcileStep)
    /\ \A p \in Pods : WF_vars(CacheSync(p))

-----------------------------------------------------------------------------
(***************************************************************************)
(* Properties                                                              *)
(***************************************************************************)
Pcs == {"idle", "finalizer", "resolve", "routes", "endpoints", "apply service", "apply slice",
        "drop service", "drop slice", "delete service", "delete slice", "unfinalize", "status",
        "template", "corefile"}

Addresses == {sp.static : sp \in Specs} \cup {FirstAddress(n) : n \in Networks} \cup {None}

GatewayType == [phase : {"absent", "live", "deleting"}, uid : Nat, finalizer : BOOLEAN,
                spec : Specs, addr : Addresses, backends : Nat]

ChildType == [ip : Addresses, eps : SUBSET Pods, ports : SUBSET Selectors]

WorkType == [pc : Pcs, obj : GatewayType, ip : Addresses, todo : SUBSET Selectors,
             want : SUBSET Selectors, eps : SUBSET Pods]

\* The type invariant; past "finalizer", the copy of the Gateway that the reconcile works
\* with has the finalizer, and only an address that was found gets as far as the routes.
TypeOK ==
    /\ gw \in GatewayType
    /\ cidrs \subseteq Networks /\ refs \subseteq Selectors /\ selectors \subseteq Selectors
    /\ accepted \in BOOLEAN
    /\ pods \in [Pods -> {"absent", "starting", "ready"}]
    /\ view \in [Pods -> {"absent", "starting", "ready"}]
    /\ children \in [Children -> ChildType]
    /\ rule \subseteq {"template", "corefile", "renderer"}
    /\ leaked \subseteq Children
    /\ work \in WorkType
    /\ work.pc \notin {"idle", "finalizer"} => work.obj.finalizer
    /\ work.pc \notin {"idle", "finalizer", "resolve", "delete service", "delete slice",
                       "unfinalize"} => work.ip # None
    /\ faults \in 0..MaxFaults /\ changes \in 0..MaxChanges

\* A Service or EndpointSlice without owner reference exists only while its Gateway holds
\* the finalizer that brings the controller back to it.  The one exception is a Delete that
\* failed in cleanupDynamicResources, whose error is dropped before the finalizer is removed.
ChildrenGuarded ==
    \A k \in Children : children[k] # NoChild => gw.finalizer \/ k \in leaked

\* The endpoints of a Gateway are pods of one network, whatever was edited meanwhile.
SliceOnOneNetwork ==
    \A p, q \in children["slice"].eps : NetworkOf[p] = NetworkOf[q]

\* A Gateway as its users want it.
Settled ==
    LET ip == GatewayIP(gw.spec, cidrs)
        eps == UNION {Endpoints(s, gw.spec.network, pods) : s \in refs \cap selectors}
    IN  /\ gw.addr = ip
        /\ gw.backends = Cardinality(eps)
        /\ refs # {} =>
              /\ accepted
              /\ children["service"] = [ip |-> ip, eps |-> {}, ports |-> refs]
              /\ children["slice"] = [ip |-> None, eps |-> eps, ports |-> refs]
        /\ refs = {} => \A k \in Children : children[k] = NoChild
        /\ {"template", "corefile"} \subseteq rule

\* Once faults and changes end, a Gateway with a network and an address comes to have the
\* children, the status and the DNS rule that the state of the cluster calls for, and keeps
\* them: reconciles are repeated from a fresh read, whatever they were interrupted at.
Converges ==
    <>[](gw.phase = "live" /\ gw.spec.network # None /\ GatewayIP(gw.spec, cidrs) # None => Settled)

\* A deleted Gateway is let go: no failed or interrupted clean-up leaves it behind its
\* finalizer.
DeletionCompletes == <>[](gw.phase # "deleting")

=============================================================================
