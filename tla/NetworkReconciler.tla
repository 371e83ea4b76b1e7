-------------------------- MODULE NetworkReconciler --------------------------
(***************************************************************************)
(* The Network controller of the GEM network operator:                     *)
(*   operators/gem-network-operator/controllers/network_controller.go      *)
(*                                                                         *)
(* One Network, the children the controller makes for it (a                *)
(* NetworkAttachmentDefinition per namespace, a MetalLB pool and its       *)
(* L2Advertisement), and the Services that ask for its pool.  Networks of  *)
(* other names have other children and do not interfere.                   *)
(*                                                                         *)
(* controller-runtime never runs two reconciles of one object at a time,   *)
(* but users, Ansible, the garbage collector and the namespace controller  *)
(* act between any two API calls of a reconcile, and any call may fail.    *)
(* Network and children are read from the API server, not from a cache:    *)
(* they are unstructured objects.  An Update is refused when the object    *)
(* changed since it was read.                                              *)
(***************************************************************************)
EXTENDS Naturals, FiniteSets

CONSTANTS
    Namespaces,      \* namespaces that may exist
    Services,        \* Services whose networking.gke.io/network names the Network
    NamespaceOf,     \* NamespaceOf[s]: the namespace of Service s
    Specs,           \* what users may write into the Network
    MaxFaults,       \* bound on failed API calls, operator crashes and drift
    MaxChanges       \* bound on what users and Ansible do

PoolName == "pool"   \* IPAddressPool <network>-pool
L2Name == "l2"       \* L2Advertisement l2advertise-<network>
Children == Namespaces \cup {PoolName, L2Name}

\* iface stands for all that the CNI configuration is made from.
NoIface == "no interface"
NoVIPs == "absent"
BadVIPs == "unparsable"

ASSUME NetworkConstants ==
    /\ NamespaceOf \in [Services -> Namespaces]
    /\ {PoolName, L2Name} \cap Namespaces = {}
    /\ \A sp \in Specs : /\ DOMAIN sp = {"iface", "mtuValid", "vips", "allowlist"}
                         /\ sp.mtuValid \in BOOLEAN
                         /\ sp.allowlist \subseteq Namespaces
    /\ Specs # {}
    /\ MaxFaults \in Nat /\ MaxChanges \in Nat

VARIABLES
    net,          \* the Network: [phase, uid, finalizer, spec, ready, dns]
    namespaces,   \* namespaces[n]: "absent", "active", "terminating"
    children,     \* children[k]: [owner, spec], or NoChild
    bound,        \* Services with the annotation that selects the pool
    provisioned,  \* the VLAN is in the gem-provisioned-networks ConfigMap
    dnsRule,      \* the Corefile has the .gkegw.cluster.local rule
    work,         \* the running reconcile: [pc, obj, todo, want, done, errors, hostOK]
    permitted,    \* Services that some version of the Network allowed (history)
    faults, changes

envVars == <<namespaces, provisioned, dnsRule>>
vars == <<net, namespaces, children, bound, provisioned, dnsRule, work, permitted, faults, changes>>

NoChild == [owner |-> 0, spec |-> "none"]

\* No Network; uid is the last one given to a Network of this name.
NoNetwork(uid) ==
    [phase |-> "absent", uid |-> uid, finalizer |-> FALSE, spec |-> CHOOSE sp \in Specs : TRUE,
     ready |-> FALSE, dns |-> FALSE]

\* want and done are history: the children this reconcile has to apply, and has applied.
Reconciling(pc, obj) ==
    [pc |-> pc, obj |-> obj, todo |-> {}, want |-> {}, done |-> {},
     errors |-> FALSE, hostOK |-> FALSE]

Idle == Reconciling("idle", NoNetwork(0))

Init ==
    /\ net = NoNetwork(0)
    /\ namespaces \in [Namespaces -> {"absent", "active"}]
    /\ children = [k \in Children |-> NoChild]
    /\ bound = {}
    /\ provisioned \in BOOLEAN
    /\ dnsRule \in BOOLEAN
    /\ work = Idle
    /\ permitted = {}
    /\ faults = 0
    /\ changes = 0

-----------------------------------------------------------------------------
(***************************************************************************)
(* Definitions whose comment starts with "Wrong:" are variants of the      *)
(* definition below them with a plausible bug.  No specification uses      *)
(* them; PROJECT.json names the property that each one violates.           *)
(***************************************************************************)

\* Wrong: an allowlist without the namespace is taken for no allowlist.
NamespaceAllowedAlways(sp, n) == TRUE

\* namespaceAllowedForNetwork: no allowlist (or "*") allows every namespace.
NamespaceAllowed(sp, n) == sp.allowlist = {} \/ n \in sp.allowlist

\* The Networks that are primary by their name, pod-network and default, behave like one
\* that is always provisioned.
IsPrimaryNetwork(sp) == sp.iface = NoIface

\* The children a Network asks for, given the namespaces that were listed.
Wanted(sp, listed) ==
    (IF sp.iface # NoIface /\ sp.mtuValid THEN listed ELSE {})
    \cup (IF sp.vips \notin {NoVIPs, BadVIPs} THEN {PoolName, L2Name} ELSE {})

\* Wrong: the L2Advertisement has the pool where its interface belongs.
DesiredSpecSwapped(k, sp) == CASE k = PoolName -> sp.vips [] k = L2Name -> PoolName [] OTHER -> sp.iface

DesiredSpec(k, sp) == IF k = PoolName THEN sp.vips ELSE sp.iface

\* A configuration that no reconcile can satisfy.
Invalid(sp) == (sp.iface # NoIface /\ ~sp.mtuValid) \/ sp.vips = BadVIPs

ActiveNamespaces == {n \in Namespaces : namespaces[n] = "active"}

At(pc) == work.pc = pc

\* An API call fails, for a reason of its own.
Fault == faults < MaxFaults /\ faults' = faults + 1

\* Wrong: an object that exists is never updated.
AppliedIfAbsent(k) ==
    IF children[k] # NoChild
    THEN children[k]
    ELSE [owner |-> work.obj.uid, spec |-> DesiredSpec(k, work.obj.spec)]

\* applyOrUpdate, which leaves an object alone, owner reference included, when its spec
\* is already right.
Applied(k) ==
    IF children[k] # NoChild /\ children[k].spec = DesiredSpec(k, work.obj.spec)
    THEN children[k]
    ELSE [owner |-> work.obj.uid, spec |-> DesiredSpec(k, work.obj.spec)]

\* A new object needs a namespace that is not being deleted.
CanApply(k) ==
    k \in Namespaces => children[k] # NoChild \/ namespaces[k] = "active"

\* k is applied, and the reconcile goes on as w, or it is not, and the error is collected.
\* A conflict that outlives its retries, or a child that is deleted between the Get and the
\* Update, is a Fault.
Apply(k, w, failed) ==
    \/ /\ CanApply(k)
       /\ children' = [children EXCEPT ![k] = Applied(k)]
       /\ work' = [w EXCEPT !.done = @ \cup {k}]
       /\ UNCHANGED faults
    \/ /\ Fault \/ (~CanApply(k) /\ UNCHANGED faults)
       /\ work' = [failed EXCEPT !.errors = TRUE]
       /\ UNCHANGED children

-----------------------------------------------------------------------------
(***************************************************************************)
(* Reconcile                                                               *)
(***************************************************************************)

\* The object is read.  A failed Get only delays the reconcile.  If the Network is being
\* deleted, cleanupNetworkChildren lists the namespaces; it goes on without a list.
Reconcile ==
    /\ At("idle")
    /\ net.phase # "absent"
    /\ IF net.phase = "deleting"
       THEN \E listed \in {{n \in Namespaces : namespaces[n] # "absent"}, {}} :
               /\ IF listed = {} /\ (\E n \in Namespaces : namespaces[n] # "absent")
                  THEN Fault ELSE UNCHANGED faults
               /\ work' = [Reconciling("cleanup", net) EXCEPT !.todo = listed \cup {PoolName, L2Name}]
       ELSE work' = Reconciling("finalizer", net) /\ UNCHANGED faults
    /\ UNCHANGED <<net, envVars, children, bound, permitted, changes>>

\* Deletes one child.  Errors are logged only.
CleanupChild(k) ==
    /\ At("cleanup")
    /\ k \in work.todo
    /\ work' = [work EXCEPT !.todo = @ \ {k}]
    /\ \/ children' = [children EXCEPT ![k] = NoChild] /\ UNCHANGED faults
       \/ children[k] # NoChild /\ Fault /\ UNCHANGED children
    /\ UNCHANGED <<net, envVars, bound, permitted, changes>>

\* Wrong: the finalizer is removed from the copy only.
RemoveFinalizerWithoutUpdate ==
    /\ At("cleanup")
    /\ work.todo = {}
    /\ work' = Idle
    /\ UNCHANGED <<net, envVars, children, bound, permitted, faults, changes>>

\* Update(netObj) without the finalizer, after which the object is gone.
RemoveFinalizer ==
    /\ At("cleanup")
    /\ work.todo = {}
    /\ work' = Idle
    /\ \/ net = work.obj /\ net' = NoNetwork(net.uid) /\ UNCHANGED faults
       \/ net # work.obj /\ UNCHANGED <<net, faults>>
       \/ Fault /\ UNCHANGED net
    /\ UNCHANGED <<envVars, children, bound, permitted, changes>>

\* Wrong: an error of the Update is ignored.
EnsureFinalizerBestEffort ==
    /\ At("finalizer")
    /\ net' = IF net = work.obj THEN [net EXCEPT !.finalizer = TRUE] ELSE net
    /\ work' = [work EXCEPT !.pc = "start", !.obj.finalizer = TRUE]
    /\ UNCHANGED <<envVars, children, bound, permitted, faults, changes>>

\* Update(netObj) with the finalizer, if it is missing; an error ends the reconcile.
EnsureFinalizer ==
    /\ At("finalizer")
    /\ \/ /\ work.obj.finalizer
          /\ work' = [work EXCEPT !.pc = "start"]
          /\ UNCHANGED <<net, faults>>
       \/ /\ ~work.obj.finalizer
          /\ net = work.obj
          /\ net' = [net EXCEPT !.finalizer = TRUE]
          /\ work' = [work EXCEPT !.pc = "start", !.obj = net']
          /\ UNCHANGED faults
       \/ /\ ~work.obj.finalizer
          /\ (net # work.obj /\ UNCHANGED faults) \/ Fault
          /\ work' = Idle
          /\ UNCHANGED net
    /\ UNCHANGED <<envVars, children, bound, permitted, changes>>

\* isHostInterfaceProvisioned, then the start of reconcileNetAttachDef: an invalid MTU or
\* a failed namespace list is an error of all its children.
StartChildren ==
    LET sp == work.obj.spec IN
    /\ At("start")
    /\ \E readable, listable \in BOOLEAN :
          /\ IF readable /\ listable THEN UNCHANGED faults ELSE Fault
          /\ LET listed == IF listable THEN ActiveNamespaces ELSE {} IN
             work' = [work EXCEPT
                !.pc = "nads",
                !.hostOK = IsPrimaryNetwork(sp) \/ (readable /\ provisioned),
                !.want = Wanted(sp, ActiveNamespaces),
                !.todo = Wanted(sp, listed) \cap Namespaces,
                !.errors = sp.iface # NoIface /\ (~sp.mtuValid \/ ~listable)]
    /\ UNCHANGED <<net, envVars, children, bound, permitted, changes>>

ReconcileNetAttachDef(n) ==
    /\ At("nads")
    /\ n \in work.todo
    /\ LET w == [work EXCEPT !.todo = @ \ {n}] IN Apply(n, w, w)
    /\ UNCHANGED <<net, envVars, bound, permitted, changes>>

\* The VIP annotation is absent, wrong, or goes to reconcileMetalLB.
NetAttachDefsDone ==
    /\ At("nads")
    /\ work.todo = {}
    /\ work' = [work EXCEPT
                  !.pc = IF PoolName \in work.want THEN "pool" ELSE "services",
                  !.errors = @ \/ work.obj.spec.vips = BadVIPs]
    /\ UNCHANGED <<net, envVars, children, bound, permitted, faults, changes>>

\* reconcileMetalLB: no L2Advertisement without its pool.
ReconcilePool ==
    /\ At("pool")
    /\ Apply(PoolName, [work EXCEPT !.pc = "l2"], [work EXCEPT !.pc = "services"])
    /\ UNCHANGED <<net, envVars, bound, permitted, changes>>

ReconcileL2Advertisement ==
    /\ At("l2")
    /\ LET w == [work EXCEPT !.pc = "services"] IN Apply(L2Name, w, w)
    /\ UNCHANGED <<net, envVars, bound, permitted, changes>>

\* reconcileServices lists the Services; the allowlist is that of the object read.
ListServices ==
    /\ At("services")
    /\ \/ /\ work' = [work EXCEPT !.pc = "bind",
                        !.todo = {s \in Services \ bound :
                                    NamespaceAllowed(work.obj.spec, NamespaceOf[s])}]
          /\ UNCHANGED faults
       \/ Fault /\ work' = [work EXCEPT !.pc = "bind", !.errors = TRUE]
    /\ UNCHANGED <<net, envVars, children, bound, permitted, changes>>

BindService(s) ==
    /\ At("bind")
    /\ s \in work.todo
    /\ \/ bound' = bound \cup {s} /\ work' = [work EXCEPT !.todo = @ \ {s}] /\ UNCHANGED faults
       \/ Fault /\ work' = [work EXCEPT !.todo = @ \ {s}, !.errors = TRUE] /\ UNCHANGED bound
    /\ UNCHANGED <<net, envVars, children, permitted, changes>>

\* Wrong: success is reported whatever failed.
ReadyUnconditionally(w) == w.hostOK

\* The Ready condition.
Ready(w) == w.hostOK /\ ~w.errors

\* updateUnstructuredStatusIfChanged, whose error is ignored: a status that could not be
\* written is left to the next reconcile, thirty seconds later.
WriteStatus ==
    /\ At("bind")
    /\ work.todo = {}
    /\ work' = Idle
    /\ \E readable \in BOOLEAN :
          LET desired == [work.obj EXCEPT !.ready = Ready(work), !.dns = readable /\ dnsRule] IN
          /\ IF readable THEN UNCHANGED faults ELSE Fault
          /\ net' = IF net = work.obj THEN desired ELSE net
    /\ UNCHANGED <<envVars, children, bound, permitted, changes>>

\* The status cannot be written for a reason of its own.
WriteStatusFails ==
    /\ At("bind")
    /\ work.todo = {}
    /\ work' = Idle
    /\ Fault
    /\ UNCHANGED <<net, envVars, children, bound, permitted, changes>>

-----------------------------------------------------------------------------
(***************************************************************************)
(* The rest of the cluster (external).                                     *)
(***************************************************************************)
Change == changes < MaxChanges /\ changes' = changes + 1

AllowedBy(sp) == {s \in Services : sp.allowlist # {} => NamespaceOf[s] \in sp.allowlist}

CreateNetwork(sp) ==
    /\ net.phase = "absent"
    /\ Change
    /\ net' = [phase |-> "live", uid |-> net.uid + 1, finalizer |-> FALSE, spec |-> sp,
               ready |-> FALSE, dns |-> FALSE]
    /\ permitted' = permitted \cup AllowedBy(sp)
    /\ UNCHANGED <<envVars, children, bound, work, faults>>

EditNetwork(sp) ==
    /\ net.phase # "absent"
    /\ sp # net.spec
    /\ Change
    /\ net' = [net EXCEPT !.spec = sp]
    /\ permitted' = permitted \cup AllowedBy(sp)
    /\ UNCHANGED <<envVars, children, bound, work, faults>>

DeleteNetwork ==
    /\ net.phase = "live"
    /\ Change
    /\ net' = IF net.finalizer THEN [net EXCEPT !.phase = "deleting"] ELSE NoNetwork(net.uid)
    /\ UNCHANGED <<envVars, children, bound, work, permitted, faults>>

NamespaceChanges(n) ==      \* created, deleted, or gone with all it contains
    /\ Change
    /\ namespaces' = [namespaces EXCEPT
                        ![n] = CASE @ = "absent"      -> "active"
                                 [] @ = "active"      -> "terminating"
                                 [] @ = "terminating" -> "absent"]
    /\ children' = IF namespaces[n] = "terminating" THEN [children EXCEPT ![n] = NoChild] ELSE children
    /\ UNCHANGED <<net, bound, provisioned, dnsRule, work, permitted, faults>>

\* Ansible publishes the VLAN; the Gateway controller or clusterdns-controller writes the
\* Corefile.
ConfigMapChanges ==
    /\ Change
    /\ \/ provisioned' = TRUE /\ UNCHANGED dnsRule
       \/ dnsRule' = ~dnsRule /\ UNCHANGED provisioned
    /\ UNCHANGED <<net, namespaces, children, bound, work, permitted, faults>>

Drift(k) ==                 \* a child is deleted by hand
    /\ children[k] # NoChild
    /\ Fault
    /\ children' = [children EXCEPT ![k] = NoChild]
    /\ UNCHANGED <<net, envVars, bound, work, permitted, changes>>

Dead(uid) == net.phase = "absent" \/ net.uid # uid

GarbageCollect(k) ==        \* the owner of a child does not exist any more
    /\ children[k] # NoChild
    /\ Dead(children[k].owner)
    /\ children' = [children EXCEPT ![k] = NoChild]
    /\ UNCHANGED <<net, envVars, bound, work, permitted, faults, changes>>

OperatorRestarts ==
    /\ ~At("idle")
    /\ Fault
    /\ work' = Idle
    /\ UNCHANGED <<net, envVars, children, bound, permitted, changes>>

-----------------------------------------------------------------------------
ReconcileStep ==
    \/ Reconcile \/ RemoveFinalizer \/ EnsureFinalizer \/ StartChildren \/ NetAttachDefsDone
    \/ ReconcilePool \/ ReconcileL2Advertisement \/ ListServices \/ WriteStatus \/ WriteStatusFails
    \/ \E k \in Children : CleanupChild(k)
    \/ \E n \in Namespaces : ReconcileNetAttachDef(n)
    \/ \E s \in Services : BindService(s)

Next ==
    \/ ReconcileStep
    \/ \E sp \in Specs : CreateNetwork(sp) \/ EditNetwork(sp)
    \/ \E n \in Namespaces : NamespaceChanges(n)
    \/ \E k \in Children : Drift(k) \/ GarbageCollect(k)
    \/ DeleteNetwork \/ ConfigMapChanges \/ OperatorRestarts

Spec == Init /\ [][Next]_vars

(***************************************************************************)
(* Fairness.  A Network that exists is reconciled again and again: every   *)
(* return of Reconcile either asks for another one after thirty seconds    *)
(* or is an error, which the work queue retries.  The garbage collector is *)
(* Kubernetes' own.                                                        *)
(***************************************************************************)
FairSpec ==
    /\ Spec
    /\ WF_vars(ReconcileStep)
    /\ \A k \in Children : WF_vars(GarbageCollect(k))

-----------------------------------------------------------------------------
NetworkType ==
    [phase : {"absent", "live", "deleting"}, uid : Nat, finalizer : BOOLEAN, spec : Specs,
     ready : BOOLEAN, dns : BOOLEAN]

ChildType ==
    [owner : Nat, spec : {NoChild.spec} \cup {sp.iface : sp \in Specs} \cup {sp.vips : sp \in Specs}]

WorkType ==
    [pc : {"idle", "cleanup", "finalizer", "start", "nads", "pool", "l2", "services", "bind"},
     obj : NetworkType, todo : SUBSET (Children \cup Services), want : SUBSET Children,
     done : SUBSET Children, errors : BOOLEAN, hostOK : BOOLEAN]

\* Type correctness of the Network, its children and the running reconcile.
TypeOK ==
    /\ net \in NetworkType
    /\ namespaces \in [Namespaces -> {"absent", "active", "terminating"}]
    /\ children \in [Children -> ChildType]
    /\ bound \subseteq Services
    /\ provisioned \in BOOLEAN
    /\ dnsRule \in BOOLEAN
    /\ work \in WorkType
    /\ permitted \subseteq Services

\* A Network that owns children has the finalizer, so that deleting it leads to their
\* clean-up, however its creation, edits and deletion interleave with a reconcile.
ChildrenGuarded ==
    \A k \in Children :
        children[k] # NoChild /\ ~Dead(children[k].owner) => net.finalizer

\* A reconcile that still works from an old copy never creates a child of a Network that
\* is gone.
NoPosthumousChild ==
    [][\A k \in Children :
          children'[k] \notin {NoChild, children[k]} => ~Dead(children'[k].owner)]_vars

\* Ready turns True only at the end of a reconcile that applied every child asked for by
\* the Network it read, in every namespace active when it listed them.
ReadyIsEarned ==
    [][~net.ready /\ net'.ready => work.want \subseteq work.done]_vars

\* A Service is bound to the pool only if some version of the Network allowed its
\* namespace.
BoundWasPermitted == bound \subseteq permitted

\* Everything the Network asks for is there and its own, and its conditions say so.
Settled ==
    /\ \A k \in Wanted(net.spec, ActiveNamespaces) :
          children[k] = [owner |-> net.uid, spec |-> DesiredSpec(k, net.spec)]
    /\ AllowedBy(net.spec) \subseteq bound
    /\ net.ready = (~Invalid(net.spec) /\ (IsPrimaryNetwork(net.spec) \/ provisioned))
    /\ net.dns = dnsRule

\* Whatever failed and whatever was changed on the way (API calls, crashes, a Network
\* deleted and created again under its name while its old children are being collected),
\* the cluster ends up as the Network describes it and the status tells the truth.
Converges == <>[](net.phase = "live" => Settled)

\* A Network that is deleted goes, and so do all its children, although errors of
\* cleanupNetworkChildren are ignored.
DeletionCompletes ==
    <>[](/\ net.phase # "deleting"
         /\ net.phase = "absent" => \A k \in Children : children[k] = NoChild)
=============================================================================
