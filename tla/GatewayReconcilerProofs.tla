----------------------- MODULE GatewayReconcilerProofs -----------------------
(***************************************************************************)
(* Proofs about GatewayReconciler, for any networks, pods, selectors and   *)
(* Gateway specifications and any number of faults and changes.            *)
(***************************************************************************)
EXTENDS GatewayReconciler, FiniteSetTheorems, TLAPS

\* A finalizer that the reconcile has seen is still there: only the clean-up, which is a
\* reconcile of its own, removes it.
Held == work.pc # "idle" /\ work.obj.finalizer => gw.finalizer

\* Kubernetes keeps a deleted object only for its finalizers.
PhaseOK == /\ gw.phase = "deleting" => gw.finalizer
           /\ gw.phase = "absent" => ~gw.finalizer

\* A reconcile that is about to add the finalizer has read a Gateway.
Started == work.pc = "finalizer" => work.obj.phase # "absent"

\* A clean-up works for a deleted Gateway, and what it has passed is gone or leaked.
Cleaned ==
    /\ work.pc \in {"delete service", "delete slice", "unfinalize"} => work.obj.phase = "deleting"
    /\ work.pc \in {"delete slice", "unfinalize"} =>
          children["service"] = NoChild \/ "service" \in leaked
    /\ work.pc = "unfinalize" => children["slice"] = NoChild \/ "slice" \in leaked

\* The endpoints collected so far are pods of the network that the reconcile works for.
Collected == \A p \in work.eps : NetworkOf[p] = work.obj.spec.network

GuardInv == /\ TypeOK /\ Started /\ Held /\ PhaseOK /\ Cleaned /\ Collected
            /\ ChildrenGuarded /\ SliceOnOneNetwork

-----------------------------------------------------------------------------
\* The record of no Gateway is well-typed.
LEMMA NoGatewayType ==
    ASSUME NEW u \in Nat
    PROVE  NoGateway(u) \in GatewayType
  <1>1. (CHOOSE sp \in Specs : TRUE) \in Specs
    BY GatewayConstants
  <1>2. None \in Addresses
    BY DEF Addresses
  <1>. QED  BY <1>1, <1>2 DEF NoGateway, GatewayType

\* A new reconcile is well-typed.
LEMMA ReconcilingType ==
    ASSUME NEW obj \in GatewayType, NEW pc \in {"idle", "finalizer", "delete service"}
    PROVE  Reconciling(pc, obj) \in WorkType
  BY DEF Reconciling, WorkType, Pcs, Addresses

\* The state between reconciles is well-typed.
LEMMA IdleType == Idle \in WorkType /\ Idle.pc = "idle" /\ Idle.eps = {}
  <1>1. Idle \in WorkType
    BY ReconcilingType, NoGatewayType DEF Idle
  <1>. QED  BY <1>1 DEF Idle, Reconciling

\* The address of a Gateway is one that it may have.
LEMMA GatewayIPType ==
    ASSUME NEW sp \in Specs, NEW listed \in SUBSET Networks
    PROVE  GatewayIP(sp, listed) \in Addresses
  BY DEF GatewayIP, Addresses

\* The endpoints that are collected are pods of the network.
LEMMA EndpointsOnNetwork ==
    ASSUME NEW s \in Selectors, NEW n, NEW seen
    PROVE  /\ Endpoints(s, n, seen) \subseteq Pods
           /\ \A p \in Endpoints(s, n, seen) : NetworkOf[p] = n
  BY GatewayConstants DEF Endpoints

\* What the controller makes of a child is well-typed.
LEMMA DesiredType ==
    ASSUME work \in WorkType, NEW k \in Children
    PROVE  Desired(k) \in ChildType /\ Desired("slice").eps = work.eps
  BY DEF Desired, ChildType, WorkType, Addresses, Children

\* No child is well-typed.
LEMMA NoChildType == NoChild \in ChildType /\ NoChild.eps = {}
  BY DEF NoChild, ChildType, Addresses

\* The initial state satisfies the invariant.
LEMMA GuardInit == Init => GuardInv
  <1>. SUFFICES ASSUME Init PROVE GuardInv
    OBVIOUS
  <1>1. gw \in GatewayType /\ gw.finalizer = FALSE /\ gw.phase = "absent"
    BY NoGatewayType DEF Init, NoGateway
  <1>2. work \in WorkType /\ work.pc = "idle" /\ work.eps = {}
    BY IdleType DEF Init
  <1>3. children \in [Children -> ChildType] /\ \A k \in Children : children[k] = NoChild
    BY NoChildType DEF Init
  <1>4. 0 \in 0..MaxFaults /\ 0 \in 0..MaxChanges /\ cidrs \subseteq Networks
    BY GatewayConstants DEF Init
  <1>5. TypeOK
    BY <1>1, <1>2, <1>3, <1>4 DEF Init, TypeOK
  <1>6. Started /\ Held /\ PhaseOK /\ Cleaned /\ Collected
    BY <1>1, <1>2 DEF Started, Held, PhaseOK, Cleaned, Collected
  <1>7. ChildrenGuarded /\ SliceOnOneNetwork
    BY <1>3, NoChildType DEF ChildrenGuarded, SliceOnOneNetwork, Children
  <1>. QED  BY <1>5, <1>6, <1>7 DEF GuardInv

-----------------------------------------------------------------------------
\* The counters stay within their bounds.
LEMMA CountersStep ==
    ASSUME faults \in 0..MaxFaults, changes \in 0..MaxChanges
    PROVE  /\ Fault => faults' \in 0..MaxFaults
           /\ Change => changes' \in 0..MaxChanges
  BY GatewayConstants DEF Fault, Change

\* What a reconcile in which only its own state changes has to keep.
WorkKept ==
    /\ work.pc \notin {"idle", "finalizer"} => work.obj.finalizer
    /\ work.pc \notin {"idle", "finalizer", "resolve", "delete service", "delete slice",
                       "unfinalize"} => work.ip # None
    /\ Started

\* A step that changes only the reconcile, the conditions of the routes and the DNS rule.
LEMMA WorkStep ==
    ASSUME GuardInv, UNCHANGED <<gw, envVars, children, leaked, changes>>,
           faults' = faults \/ Fault, accepted' \in BOOLEAN,
           rule' \subseteq {"template", "corefile", "renderer"},
           work' \in WorkType, WorkKept', Held', Cleaned', Collected'
    PROVE  GuardInv'
  <1>1. faults' \in 0..MaxFaults
    BY CountersStep DEF GuardInv, TypeOK
  <1>2. TypeOK'
    BY <1>1 DEF GuardInv, TypeOK, WorkKept, envVars
  <1>3. PhaseOK' /\ ChildrenGuarded' /\ SliceOnOneNetwork'
    BY DEF GuardInv, PhaseOK, ChildrenGuarded, SliceOnOneNetwork
  <1>. QED  BY <1>2, <1>3 DEF GuardInv, WorkKept

\* The reconcile moves on with the same copy of the Gateway, not into or within a clean-up.
LEMMA GotoStep ==
    ASSUME GuardInv, UNCHANGED <<gw, envVars, children, leaked, changes>>,
           faults' = faults \/ Fault, accepted' \in BOOLEAN,
           rule' \subseteq {"template", "corefile", "renderer"},
           work' \in WorkType, work'.obj = work.obj, work'.ip = work.ip,
           work.pc \notin {"idle", "finalizer", "resolve", "delete service", "delete slice",
                          "unfinalize"},
           work'.pc \notin {"finalizer", "delete service", "delete slice", "unfinalize"},
           Collected'
    PROVE  GuardInv'
  <1>1. work.obj.finalizer /\ work.ip # None
    BY DEF GuardInv, TypeOK
  <1>2. WorkKept' /\ Held' /\ Cleaned'
    BY <1>1 DEF GuardInv, WorkKept, Started, Held, Cleaned
  <1>. QED  BY <1>2, WorkStep

\* The reconcile ends.
LEMMA IdleStep ==
    ASSUME GuardInv, UNCHANGED <<gw, envVars, children, leaked, changes>>,
           faults' = faults \/ Fault, accepted' = accepted,
           rule' \subseteq {"template", "corefile", "renderer"}, work' = Idle
    PROVE  GuardInv'
  <1>1. WorkKept' /\ Held' /\ Cleaned' /\ Collected' /\ work' \in WorkType
    BY IdleType DEF WorkKept, Started, Held, Cleaned, Collected
  <1>2. accepted' \in BOOLEAN
    BY DEF GuardInv, TypeOK
  <1>. QED  BY <1>1, <1>2, WorkStep

\* The endpoints stay collected while the reconcile keeps its copy of the Gateway.
LEMMA CollectedStep ==
    ASSUME GuardInv, work'.obj = work.obj, work'.eps = work.eps
    PROVE  Collected'
  BY DEF GuardInv, Collected

\* A reconcile starts from the Gateway as it is.
LEMMA ReconcileKeeps == GuardInv /\ Reconcile => GuardInv'
  <1>. SUFFICES ASSUME GuardInv, Reconcile PROVE GuardInv'
    OBVIOUS
  <1>1. gw \in GatewayType /\ accepted \in BOOLEAN /\ rule \subseteq {"template", "corefile", "renderer"}
    BY DEF GuardInv, TypeOK
  <1>2. \/ gw.phase = "deleting" /\ work' = Reconciling("delete service", gw)
        \/ gw.phase # "deleting" /\ work' = Reconciling("finalizer", gw)
    BY DEF Reconcile
  <1>3. work' \in WorkType
    BY <1>1, <1>2, ReconcilingType
  <1>4. /\ work'.obj = gw /\ work'.eps = {}
        /\ \/ work'.pc = "delete service" /\ gw.phase = "deleting"
           \/ work'.pc = "finalizer"
    <2>1. CASE gw.phase = "deleting" /\ work' = Reconciling("delete service", gw)
      BY <2>1 DEF Reconciling
    <2>2. CASE work' = Reconciling("finalizer", gw)
      BY <2>2 DEF Reconciling
    <2>. QED  BY <1>2, <2>1, <2>2
  <1>5. /\ UNCHANGED <<gw, envVars, accepted, children, rule, leaked, faults, changes>>
        /\ gw.phase # "absent"
    BY DEF Reconcile
  <1>6. WorkKept' /\ Held' /\ Cleaned' /\ Collected'
    BY <1>4, <1>5 DEF GuardInv, PhaseOK, WorkKept, Started, Held, Cleaned, Collected
  <1>. QED  BY <1>1, <1>3, <1>5, <1>6, WorkStep

\* The address is determined on the way from the finalizer to the routes.
LEMMA DetermineGatewayIPKeeps == GuardInv /\ DetermineGatewayIP => GuardInv'
  <1>. SUFFICES ASSUME GuardInv, DetermineGatewayIP PROVE GuardInv'
    OBVIOUS
  <1>1. /\ work \in WorkType /\ work.pc = "resolve" /\ work.obj.spec \in Specs /\ cidrs \in SUBSET Networks
        /\ accepted \in BOOLEAN /\ rule \subseteq {"template", "corefile", "renderer"}
    BY DEF GuardInv, TypeOK, DetermineGatewayIP, At, WorkType, GatewayType
  <1>2. UNCHANGED <<gw, envVars, accepted, children, rule, leaked, changes>>
    BY DEF DetermineGatewayIP
  <1>3. PICK listable \in BOOLEAN :
          LET ip == GatewayIP(work.obj.spec, IF listable THEN cidrs ELSE {}) IN
          /\ IF listable THEN UNCHANGED faults ELSE Fault
          /\ work' = IF work.obj.spec.network = None \/ ip = None
                     THEN Idle ELSE [Goto("routes") EXCEPT !.ip = ip]
    BY DEF DetermineGatewayIP
  <1>. DEFINE ip == GatewayIP(work.obj.spec, IF listable THEN cidrs ELSE {})
  <1>4. faults' = faults \/ Fault
    BY <1>3
  <1>5. CASE work' = Idle
    BY <1>1, <1>2, <1>4, <1>5, IdleStep
  <1>6. CASE ip # None /\ work' = [Goto("routes") EXCEPT !.ip = ip]
    <2>1. ip \in Addresses
      BY <1>1, GatewayIPType
    <2>2. /\ work' \in WorkType /\ work'.pc = "routes" /\ work'.obj = work.obj /\ work'.ip = ip
          /\ work'.eps = work.eps
      BY <1>1, <1>6, <2>1 DEF Goto, WorkType, Pcs
    <2>3. work.obj.finalizer
      BY <1>1 DEF GuardInv, TypeOK
    <2>4. WorkKept' /\ Held' /\ Cleaned' /\ Collected'
      BY <1>1, <1>2, <1>6, <2>2, <2>3 DEF GuardInv, WorkKept, Started, Held, Cleaned, Collected
    <2>. QED  BY <1>1, <1>2, <1>4, <2>2, <2>4, WorkStep
  <1>. QED  BY <1>3, <1>5, <1>6

\* Routes, endpoints and route conditions are collected for one copy of the Gateway.
LEMMA RoutesKeep ==
    GuardInv /\ (ListRoutes \/ (\E s \in Selectors : CollectEndpoints(s)) \/ WriteRouteStatus) => GuardInv'
  <1>1. ASSUME GuardInv, ListRoutes PROVE GuardInv'
    <2>1. /\ work \in WorkType /\ work.pc = "routes" /\ refs \subseteq Selectors
          /\ accepted' \in BOOLEAN /\ rule' \subseteq {"template", "corefile", "renderer"}
      BY <1>1 DEF GuardInv, TypeOK, ListRoutes, At
    <2>2. /\ UNCHANGED <<gw, envVars, children, leaked, changes>> /\ (faults' = faults \/ Fault)
          /\ \/ work' = [Goto("endpoints") EXCEPT !.todo = refs, !.want = refs]
             \/ work' = Goto("status")
      BY <1>1 DEF ListRoutes
    <2>3. /\ work' \in WorkType /\ work'.obj = work.obj /\ work'.ip = work.ip /\ work'.eps = work.eps
          /\ work'.pc \in {"endpoints", "status"}
      BY ZenonT(40), <2>1, <2>2 DEF Goto, WorkType, Pcs
    <2>4. Collected'
      BY <1>1, <2>3, CollectedStep
    <2>. QED  BY <1>1, <2>1, <2>2, <2>3, <2>4, GotoStep
  <1>2. ASSUME GuardInv, NEW s \in Selectors, CollectEndpoints(s) PROVE GuardInv'
    <2>. DEFINE found == IF s \in selectors THEN Endpoints(s, work.obj.spec.network, view) ELSE {}
    <2>1. /\ work \in WorkType /\ work.pc = "endpoints"
          /\ accepted' \in BOOLEAN /\ rule' \subseteq {"template", "corefile", "renderer"}
      BY <1>2 DEF GuardInv, TypeOK, CollectEndpoints, At
    <2>2. /\ UNCHANGED <<gw, envVars, children, leaked, changes>> /\ (faults' = faults \/ Fault)
          /\ \/ work' = [work EXCEPT !.todo = @ \ {s}, !.eps = @ \cup found]
             \/ work' = [work EXCEPT !.todo = @ \ {s}]
      BY <1>2 DEF CollectEndpoints
    <2>3. found \subseteq Pods /\ \A p \in found : NetworkOf[p] = work.obj.spec.network
      BY EndpointsOnNetwork
    <2>4. /\ work' \in WorkType /\ work'.obj = work.obj /\ work'.ip = work.ip
          /\ work'.pc = "endpoints"
          /\ work'.eps \in {work.eps \cup found, work.eps}
      <3>1. CASE work' = [work EXCEPT !.todo = @ \ {s}, !.eps = @ \cup found]
        BY <2>1, <2>3, <3>1 DEF WorkType
      <3>2. CASE work' = [work EXCEPT !.todo = @ \ {s}]
        BY <2>1, <3>2 DEF WorkType
      <3>. QED  BY <2>2, <3>1, <3>2
    <2>5. Collected'
      BY <1>2, <2>3, <2>4 DEF GuardInv, Collected
    <2>. QED  BY <1>2, <2>1, <2>2, <2>4, <2>5, GotoStep
  <1>3. ASSUME GuardInv, WriteRouteStatus PROVE GuardInv'
    <2>1. /\ work \in WorkType /\ work.pc = "endpoints"
          /\ rule' \subseteq {"template", "corefile", "renderer"}
      BY <1>3 DEF GuardInv, TypeOK, WriteRouteStatus, At
    <2>2. accepted' \in BOOLEAN
      BY <1>3 DEF GuardInv, TypeOK, WriteRouteStatus
    <2>3. /\ UNCHANGED <<gw, envVars, children, leaked, changes>> /\ (faults' = faults \/ Fault)
          /\ work' = Goto("apply service") \/ work' = Goto("drop service")
      BY <1>3 DEF WriteRouteStatus
    <2>4. /\ work' \in WorkType /\ work'.obj = work.obj /\ work'.ip = work.ip /\ work'.eps = work.eps
          /\ work'.pc \in {"apply service", "drop service"}
      BY <2>1, <2>3 DEF Goto, WorkType, Pcs
    <2>5. Collected'
      BY <1>3, <2>4, CollectedStep
    <2>. QED  BY <1>3, <2>1, <2>2, <2>3, <2>4, <2>5, GotoStep
  <1>. QED  BY <1>1, <1>2, <1>3

\* The DNS rule, and the end of a reconcile.
LEMMA RuleKeeps ==
    GuardInv /\ (ReconcileTemplate \/ ReconcileCorefile \/ OperatorRestarts) => GuardInv'
  <1>1. ASSUME GuardInv, ReconcileTemplate PROVE GuardInv'
    <2>1. work \in WorkType /\ work.pc = "template" /\ accepted' \in BOOLEAN
      BY <1>1 DEF GuardInv, TypeOK, ReconcileTemplate, At
    <2>2. rule' \subseteq {"template", "corefile", "renderer"}
      BY <1>1 DEF GuardInv, TypeOK, ReconcileTemplate
    <2>3. /\ UNCHANGED <<gw, envVars, children, leaked, changes>> /\ (faults' = faults \/ Fault)
          /\ work' = Goto("corefile")
      BY <1>1 DEF ReconcileTemplate
    <2>4. /\ work' \in WorkType /\ work'.obj = work.obj /\ work'.ip = work.ip /\ work'.eps = work.eps
          /\ work'.pc = "corefile"
      BY <2>1, <2>3 DEF Goto, WorkType, Pcs
    <2>5. Collected'
      BY <1>1, <2>4, CollectedStep
    <2>. QED  BY <1>1, <2>1, <2>2, <2>3, <2>4, <2>5, GotoStep
  <1>2. ASSUME GuardInv, ReconcileCorefile \/ OperatorRestarts PROVE GuardInv'
    <2>1. rule' \subseteq {"template", "corefile", "renderer"}
      BY <1>2 DEF GuardInv, TypeOK, ReconcileCorefile, OperatorRestarts
    <2>2. /\ UNCHANGED <<gw, envVars, children, leaked, changes>> /\ (faults' = faults \/ Fault)
          /\ work' = Idle /\ accepted' = accepted
      BY <1>2 DEF ReconcileCorefile, OperatorRestarts
    <2>. QED  BY <1>2, <2>1, <2>2, IdleStep
  <1>. QED  BY <1>1, <1>2

-----------------------------------------------------------------------------
\* A step that changes only the Gateway and the reconcile.
LEMMA GatewayStep ==
    ASSUME GuardInv, UNCHANGED <<envVars, accepted, children, rule, leaked>>,
           faults' = faults \/ Fault, changes' = changes \/ Change,
           gw' \in GatewayType, work' \in WorkType,
           WorkKept', Held', PhaseOK', Cleaned', Collected', ChildrenGuarded'
    PROVE  GuardInv'
  <1>1. faults' \in 0..MaxFaults /\ changes' \in 0..MaxChanges
    BY CountersStep DEF GuardInv, TypeOK
  <1>2. TypeOK'
    BY <1>1 DEF GuardInv, TypeOK, WorkKept, envVars
  <1>3. SliceOnOneNetwork'
    BY DEF GuardInv, SliceOnOneNetwork
  <1>. QED  BY <1>2, <1>3 DEF GuardInv, WorkKept

\* The finalizer is there before anything else is done for the Gateway.
LEMMA EnsureFinalizerKeeps == GuardInv /\ EnsureFinalizer => GuardInv'
  <1>. SUFFICES ASSUME GuardInv, EnsureFinalizer PROVE GuardInv'
    OBVIOUS
  <1>1. work \in WorkType /\ gw \in GatewayType /\ work.pc = "finalizer" /\ work.obj \in GatewayType
    BY DEF GuardInv, TypeOK, EnsureFinalizer, At, WorkType
  <1>2. /\ UNCHANGED <<envVars, accepted, children, rule, leaked>> /\ changes' = changes
        /\ faults' = faults \/ Fault
    BY DEF EnsureFinalizer
  <1>3. CASE work.obj.finalizer /\ work' = Goto("resolve") /\ gw' = gw
    <2>1. /\ work' \in WorkType /\ work'.pc = "resolve" /\ work'.obj = work.obj /\ work'.eps = work.eps
      BY <1>1, <1>3 DEF Goto, WorkType, Pcs
    <2>2. WorkKept' /\ Held' /\ PhaseOK' /\ Cleaned'
      BY <1>1, <1>3, <2>1 DEF GuardInv, WorkKept, Started, Held, PhaseOK, Cleaned
    <2>3. ChildrenGuarded'
      BY <1>2, <1>3 DEF GuardInv, ChildrenGuarded
    <2>. QED  BY <1>1, <1>2, <1>3, <2>1, <2>2, <2>3, CollectedStep, GatewayStep
  <1>4. CASE /\ ~work.obj.finalizer /\ gw = work.obj
             /\ gw' = [gw EXCEPT !.finalizer = TRUE]
             /\ work' = [Goto("resolve") EXCEPT !.obj = gw']
    <2>1. /\ gw' \in GatewayType /\ gw'.finalizer /\ gw'.phase = gw.phase /\ gw'.spec = work.obj.spec
      BY <1>1, <1>4 DEF GatewayType
    <2>2. /\ work' \in WorkType /\ work'.pc = "resolve" /\ work'.obj = gw' /\ work'.eps = work.eps
      BY <1>1, <1>4, <2>1 DEF Goto, WorkType, Pcs
    <2>3. WorkKept' /\ Held' /\ Cleaned'
      BY <2>1, <2>2 DEF WorkKept, Started, Held, Cleaned
    <2>4. gw.phase # "absent"
      <3>1. gw.phase = work.obj.phase
        BY <1>4
      <3>. QED  BY <1>1, <3>1 DEF GuardInv, Started
    <2>5. PhaseOK' /\ ChildrenGuarded'
      BY <2>1, <2>4 DEF PhaseOK, ChildrenGuarded
    <2>6. Collected'
      BY <2>1, <2>2 DEF GuardInv, Collected
    <2>. QED  BY <1>2, <2>1, <2>2, <2>3, <2>5, <2>6, GatewayStep
  <1>5. CASE work' = Idle /\ gw' = gw
    BY <1>2, <1>5, IdleStep DEF GuardInv, TypeOK
  <1>. QED  BY <1>3, <1>4, <1>5 DEF EnsureFinalizer

\* The finalizer goes when the children are gone or leaked.
LEMMA RemoveFinalizerKeeps == GuardInv /\ RemoveFinalizer => GuardInv'
  <1>. SUFFICES ASSUME GuardInv, RemoveFinalizer PROVE GuardInv'
    OBVIOUS
  <1>1. gw \in GatewayType /\ gw.uid \in Nat /\ work.pc = "unfinalize"
    BY DEF GuardInv, TypeOK, RemoveFinalizer, At, GatewayType
  <1>2. /\ UNCHANGED <<envVars, accepted, children, rule, leaked>> /\ changes' = changes
        /\ faults' = faults \/ Fault
        /\ work' = Idle
        /\ gw' = gw \/ gw' = NoGateway(gw.uid)
    BY DEF RemoveFinalizer
  <1>3. CASE gw' = gw
    BY <1>2, <1>3, IdleStep DEF GuardInv, TypeOK
  <1>4. CASE gw' = NoGateway(gw.uid)
    <2>1. gw' \in GatewayType /\ gw'.phase = "absent" /\ gw'.finalizer = FALSE
      BY <1>1, <1>4, NoGatewayType DEF NoGateway
    <2>2. WorkKept' /\ Held' /\ PhaseOK' /\ Cleaned' /\ Collected' /\ work' \in WorkType
      BY <1>2, <2>1, IdleType DEF WorkKept, Started, Held, PhaseOK, Cleaned, Collected
    <2>3. ChildrenGuarded'
      BY <1>1, <1>2 DEF GuardInv, Cleaned, ChildrenGuarded, Children
    <2>. QED  BY <1>2, <2>1, <2>2, <2>3, GatewayStep
  <1>. QED  BY <1>2, <1>3, <1>4

\* The status is written to the Gateway that was read, or not at all.
LEMMA WriteStatusKeeps == GuardInv /\ WriteStatus => GuardInv'
  <1>. SUFFICES ASSUME GuardInv, WriteStatus PROVE GuardInv'
    OBVIOUS
  <1>1. /\ work \in WorkType /\ gw \in GatewayType /\ work.pc = "status" /\ work.ip \in Addresses
        /\ work.eps \subseteq Pods /\ work.obj.finalizer /\ work.ip # None
    BY DEF GuardInv, TypeOK, WriteStatus, At, WorkType
  <1>2. /\ UNCHANGED <<envVars, accepted, children, rule, leaked>> /\ changes' = changes
        /\ faults' = faults \/ Fault
        /\ work' = Goto("template")
        /\ \/ gw' = gw
           \/ gw' = [gw EXCEPT !.addr = work.ip, !.backends = Cardinality(work.eps)]
    BY DEF WriteStatus
  <1>3. Cardinality(work.eps) \in Nat
    BY <1>1, GatewayConstants, FS_Subset, FS_CardinalityType
  <1>4. gw' \in GatewayType /\ gw'.finalizer = gw.finalizer /\ gw'.phase = gw.phase
    BY <1>1, <1>2, <1>3 DEF GatewayType
  <1>5. /\ work' \in WorkType /\ work'.pc = "template" /\ work'.obj = work.obj /\ work'.ip = work.ip
        /\ work'.eps = work.eps
    BY <1>1, <1>2 DEF Goto, WorkType, Pcs
  <1>6. WorkKept' /\ Held' /\ PhaseOK' /\ Cleaned'
    BY <1>1, <1>4, <1>5 DEF GuardInv, WorkKept, Started, Held, PhaseOK, Cleaned
  <1>7. ChildrenGuarded'
    BY <1>2, <1>4 DEF GuardInv, ChildrenGuarded
  <1>. QED  BY <1>2, <1>4, <1>5, <1>6, <1>7, CollectedStep, GatewayStep

\* Users create, edit and delete the Gateway, at any point of a reconcile.
LEMMA UsersKeep ==
    GuardInv /\ ((\E sp \in Specs : CreateGateway(sp) \/ EditGateway(sp)) \/ DeleteGateway) => GuardInv'
  <1>. SUFFICES ASSUME GuardInv, (\E sp \in Specs : CreateGateway(sp) \/ EditGateway(sp)) \/ DeleteGateway
                PROVE  GuardInv'
    OBVIOUS
  <1>1. work \in WorkType /\ gw \in GatewayType /\ gw.uid \in Nat /\ WorkKept
    BY DEF GuardInv, TypeOK, GatewayType, WorkKept, Started
  <1>2. /\ UNCHANGED <<envVars, accepted, children, rule, leaked>> /\ work' = work /\ faults' = faults
        /\ Change
    BY DEF CreateGateway, EditGateway, DeleteGateway
  <1>3. /\ gw' \in GatewayType
        /\ gw'.finalizer = gw.finalizer
        /\ gw'.phase = "deleting" => gw.finalizer
        /\ gw'.phase = "absent" => ~gw.finalizer
    <2>1. ASSUME NEW sp \in Specs, CreateGateway(sp) PROVE <1>3!:
      <3>1. NoGateway(gw.uid + 1) \in GatewayType /\ NoGateway(gw.uid + 1).finalizer = FALSE
        BY <1>1, NoGatewayType DEF NoGateway
      <3>2. gw' = [NoGateway(gw.uid + 1) EXCEPT !.phase = "live", !.spec = sp] /\ gw.phase = "absent"
        BY <2>1 DEF CreateGateway
      <3>3. gw' \in GatewayType /\ gw'.finalizer = FALSE /\ gw'.phase = "live"
        BY <3>1, <3>2 DEF GatewayType
      <3>4. gw.finalizer = FALSE
        BY <1>1, <3>2 DEF GuardInv, PhaseOK, GatewayType
      <3>. QED  BY <3>3, <3>4
    <2>2. ASSUME NEW sp \in Specs, EditGateway(sp) PROVE <1>3!:
      BY <1>1, <2>2 DEF EditGateway, GatewayType
    <2>3. CASE DeleteGateway
      <3>1. CASE gw.finalizer
        BY <1>1, <2>3, <3>1 DEF DeleteGateway, GatewayType
      <3>2. CASE ~gw.finalizer
        <4>1. gw' = NoGateway(gw.uid) /\ gw.finalizer = FALSE
          BY <1>1, <2>3, <3>2 DEF DeleteGateway, GatewayType
        <4>2. gw' \in GatewayType /\ gw'.finalizer = FALSE /\ gw'.phase = "absent"
          BY <1>1, <4>1, NoGatewayType DEF NoGateway
        <4>. QED  BY <4>1, <4>2
      <3>. QED  BY <3>1, <3>2
    <2>. QED  BY <2>1, <2>2, <2>3
  <1>4. WorkKept' /\ Held' /\ PhaseOK' /\ Cleaned' /\ Collected' /\ ChildrenGuarded'
    BY <1>1, <1>2, <1>3 DEF GuardInv, WorkKept, Started, Held, PhaseOK, Cleaned, Collected, ChildrenGuarded
  <1>. QED  BY <1>1, <1>2, <1>3, <1>4, GatewayStep

-----------------------------------------------------------------------------
\* A step that changes only the children and the reconcile, which keeps its copy of the
\* Gateway; a child that is neither gone nor leaked finds the finalizer.
LEMMA ChildrenStep ==
    ASSUME GuardInv, UNCHANGED <<gw, envVars, accepted, rule, changes>>,
           faults' = faults \/ Fault,
           children' \in [Children -> ChildType], leaked' \subseteq Children,
           work' \in WorkType, work'.obj = work.obj, work'.eps = work.eps,
           WorkKept', Held', Cleaned', ChildrenGuarded',
           \/ children'["slice"].eps \subseteq children["slice"].eps
           \/ children'["slice"].eps = work.eps
    PROVE  GuardInv'
  <1>1. faults' \in 0..MaxFaults
    BY CountersStep DEF GuardInv, TypeOK
  <1>2. TypeOK'
    BY <1>1 DEF GuardInv, TypeOK, WorkKept, envVars
  <1>3. PhaseOK' /\ Collected'
    BY DEF GuardInv, PhaseOK, Collected
  <1>4. SliceOnOneNetwork'
    BY DEF GuardInv, SliceOnOneNetwork, Collected
  <1>. QED  BY <1>2, <1>3, <1>4 DEF GuardInv, WorkKept

\* The reconcile moves on within the writing of the children.
LEMMA ChildrenGoto ==
    ASSUME GuardInv, NEW next \in Pcs, work' = Goto(next)
    PROVE  /\ work' \in WorkType /\ work'.pc = next /\ work'.obj = work.obj
           /\ work'.ip = work.ip /\ work'.eps = work.eps
  <1>1. work \in WorkType
    BY DEF GuardInv, TypeOK
  <1>. QED  BY <1>1 DEF Goto, WorkType

\* applyService and applyEndpointSlice.
LEMMA ApplyKeeps ==
    ASSUME GuardInv, NEW k \in Children, NEW next \in {"apply slice", "status"}, Apply(k, next),
           work.pc \in {"apply service", "apply slice"},
           UNCHANGED <<gw, envVars, accepted, rule, changes>>
    PROVE  GuardInv'
  <1>1. /\ work' \in WorkType /\ work'.pc = next /\ work'.obj = work.obj
        /\ work'.ip = work.ip /\ work'.eps = work.eps
    BY ChildrenGoto DEF Apply, Pcs
  <1>2. /\ faults' = faults \/ Fault
        /\ \/ children' = [children EXCEPT ![k] = Desired(k)] /\ leaked' = leaked \ {k}
           \/ children' = children /\ leaked' = leaked
    BY DEF Apply
  <1>3. work \in WorkType /\ children \in [Children -> ChildType] /\ leaked \subseteq Children
    BY DEF GuardInv, TypeOK
  <1>4. work.obj.finalizer /\ work.ip # None
    BY DEF GuardInv, TypeOK
  <1>5. gw.finalizer
    BY <1>4 DEF GuardInv, Held
  <1>6. WorkKept' /\ Held' /\ Cleaned'
    BY <1>1, <1>4, <1>5 DEF WorkKept, Started, Held, Cleaned
  <1>7. ChildrenGuarded'
    BY <1>5 DEF ChildrenGuarded
  <1>8. /\ children' \in [Children -> ChildType] /\ leaked' \subseteq Children
        /\ \/ children'["slice"].eps \subseteq children["slice"].eps
           \/ children'["slice"].eps = work.eps
    <2>1. Desired(k) \in ChildType /\ Desired("slice").eps = work.eps
      BY <1>3, DesiredType
    <2>2. CASE children' = [children EXCEPT ![k] = Desired(k)] /\ leaked' = leaked \ {k}
      <3>1. CASE k = "slice"
        BY <1>3, <2>1, <2>2, <3>1
      <3>2. CASE k # "slice"
        BY <1>3, <2>1, <2>2, <3>2 DEF Children
      <3>. QED  BY <3>1, <3>2
    <2>3. CASE children' = children /\ leaked' = leaked
      BY <1>3, <2>3
    <2>. QED  BY <1>2, <2>2, <2>3
  <1>. QED  BY <1>1, <1>2, <1>6, <1>7, <1>8, ChildrenStep

\* One Delete: the child is gone, or it stays, and is leaked if the Gateway is being deleted.
LEMMA DropResult ==
    ASSUME GuardInv, NEW k \in Children, NEW next, Drop(k, next)
    PROVE  /\ work' = Goto(next)
           /\ faults' = faults \/ Fault
           /\ children' \in [Children -> ChildType] /\ leaked' \subseteq Children
           /\ children'["slice"].eps \subseteq children["slice"].eps
           /\ \A j \in Children \ {k} : children'[j] = children[j] /\ (j \in leaked' <=> j \in leaked)
           /\ \/ children'[k] = NoChild
              \/ children'[k] = children[k] /\ (k \in leaked => k \in leaked')
           /\ work.obj.phase = "deleting" => children'[k] = NoChild \/ k \in leaked'
  <1>1. children \in [Children -> ChildType] /\ leaked \subseteq Children /\ "slice" \in Children
    BY DEF GuardInv, TypeOK, Children
  <1>2. CASE /\ children' = [children EXCEPT ![k] = NoChild] /\ leaked' = leaked \ {k}
             /\ UNCHANGED faults /\ work' = Goto(next)
    BY <1>1, <1>2, NoChildType
  <1>3. CASE /\ Fault /\ UNCHANGED children /\ work' = Goto(next)
             /\ leaked' = IF work.obj.phase = "deleting" THEN leaked \cup {k} ELSE leaked
    BY <1>1, <1>3
  <1>. QED  BY <1>2, <1>3 DEF Drop

\* cleanupDynamicResources, for a Gateway without routes and for a deleted one.
LEMMA DropKeeps ==
    ASSUME GuardInv, NEW k \in Children, NEW next \in Pcs, Drop(k, next),
           \/ work.pc = "drop service" /\ next = "drop slice"
           \/ work.pc = "drop slice" /\ next = "status"
           \/ work.pc = "delete service" /\ next = "delete slice" /\ k = "service"
           \/ work.pc = "delete slice" /\ next = "unfinalize" /\ k = "slice",
           UNCHANGED <<gw, envVars, accepted, rule, changes>>
    PROVE  GuardInv'
  <1>1. /\ work' = Goto(next) /\ (faults' = faults \/ Fault)
        /\ children' \in [Children -> ChildType] /\ leaked' \subseteq Children
        /\ children'["slice"].eps \subseteq children["slice"].eps
        /\ \A j \in Children \ {k} : children'[j] = children[j] /\ (j \in leaked' <=> j \in leaked)
        /\ \/ children'[k] = NoChild
           \/ children'[k] = children[k] /\ (k \in leaked => k \in leaked')
        /\ work.obj.phase = "deleting" => children'[k] = NoChild \/ k \in leaked'
    BY DropResult
  <1>2. /\ work' \in WorkType /\ work'.pc = next /\ work'.obj = work.obj
        /\ work'.ip = work.ip /\ work'.eps = work.eps
    BY <1>1, ChildrenGoto
  <1>3. /\ work.obj.finalizer
        /\ work.pc \in {"drop service", "drop slice"} => work.ip # None
    BY DEF GuardInv, TypeOK
  <1>4. gw.finalizer
    BY <1>3 DEF GuardInv, Held
  <1>5. WorkKept' /\ Held' /\ ChildrenGuarded'
    BY <1>2, <1>3, <1>4 DEF WorkKept, Started, Held, ChildrenGuarded
  <1>6. Cleaned'
    <2>1. CASE work.pc \in {"drop service", "drop slice"}
      BY <1>2, <2>1 DEF Cleaned
    <2>2. CASE work.pc \in {"delete service", "delete slice"}
      <3>1. work.obj.phase = "deleting"
        BY <2>2 DEF GuardInv, Cleaned
      <3>. QED  BY <1>1, <1>2, <2>2, <3>1 DEF GuardInv, Cleaned, Children
    <2>. QED  BY <2>1, <2>2
  <1>. QED  BY <1>1, <1>2, <1>5, <1>6, ChildrenStep

\* Every write of the children.
LEMMA WriteChildrenKeeps == GuardInv /\ WriteChildren => GuardInv'
  <1>. SUFFICES ASSUME GuardInv, WriteChildren PROVE GuardInv'
    OBVIOUS
  <1>. USE DEF At
  <1>1. UNCHANGED <<gw, envVars, accepted, rule, changes>>
    BY DEF WriteChildren
  <1>2. CASE At("apply service") /\ Apply("service", "apply slice")
    BY <1>1, <1>2, ApplyKeeps DEF Children
  <1>3. CASE At("apply slice") /\ Apply("slice", "status")
    BY <1>1, <1>3, ApplyKeeps DEF Children
  <1>4. CASE At("drop service") /\ Drop("service", "drop slice")
    BY <1>1, <1>4, DropKeeps DEF Children, Pcs
  <1>5. CASE At("drop slice") /\ Drop("slice", "status")
    BY <1>1, <1>5, DropKeeps DEF Children, Pcs
  <1>6. CASE At("delete service") /\ Drop("service", "delete slice")
    BY <1>1, <1>6, DropKeeps DEF Children, Pcs
  <1>7. CASE At("delete slice") /\ Drop("slice", "unfinalize")
    BY <1>1, <1>7, DropKeeps DEF Children, Pcs
  <1>. QED  BY <1>2, <1>3, <1>4, <1>5, <1>6, <1>7 DEF WriteChildren

\* A child that someone else deletes.
LEMMA DriftKeeps ==
    ASSUME GuardInv, NEW k \in Children, Drift(k)
    PROVE  GuardInv'
  <1>1. /\ children' = [children EXCEPT ![k] = NoChild] /\ leaked' = leaked \ {k}
        /\ UNCHANGED <<gw, envVars, accepted, rule, changes>> /\ work' = work /\ Fault
    BY DEF Drift
  <1>2. /\ work \in WorkType /\ children \in [Children -> ChildType] /\ leaked \subseteq Children
        /\ "slice" \in Children /\ "service" \in Children
    BY DEF GuardInv, TypeOK, Children
  <1>3. /\ children' \in [Children -> ChildType] /\ leaked' \subseteq Children
        /\ children'["slice"].eps \subseteq children["slice"].eps
        /\ \A j \in Children : children'[j] = NoChild \/ (children'[j] = children[j] /\ (j \in leaked => j \in leaked'))
    BY <1>1, <1>2, NoChildType
  <1>4. WorkKept' /\ Held'
    BY <1>1 DEF GuardInv, TypeOK, WorkKept, Started, Held
  <1>5. Cleaned' /\ ChildrenGuarded'
    BY <1>1, <1>2, <1>3 DEF GuardInv, Cleaned, ChildrenGuarded
  <1>. QED  BY <1>1, <1>2, <1>3, <1>4, <1>5, ChildrenStep

\* What happens elsewhere in the cluster.
LEMMA ElsewhereKeeps ==
    ASSUME GuardInv,
           \/ \E r \in SUBSET Selectors : RoutesChange(r)
           \/ \E s \in Selectors : SelectorChanges(s)
           \/ \E n \in CidrNetworks : CidrChanges(n)
           \/ \E p \in Pods : PodChanges(p) \/ CacheSync(p)
           \/ Render \/ ClusterdnsRestarts
           \/ UNCHANGED vars
    PROVE  GuardInv'
  <1>1. UNCHANGED <<gw, children, work, leaked, faults>> /\ (changes' = changes \/ Change)
    BY DEF RoutesChange, SelectorChanges, CidrChanges, PodChanges, CacheSync, Render,
           ClusterdnsRestarts, vars
  <1>2. changes' \in 0..MaxChanges
    BY <1>1, CountersStep DEF GuardInv, TypeOK
  <1>3. /\ cidrs' \subseteq Networks /\ refs' \subseteq Selectors /\ selectors' \subseteq Selectors
        /\ accepted' \in BOOLEAN
    BY GatewayConstants DEF GuardInv, TypeOK, RoutesChange, SelectorChanges, CidrChanges, PodChanges, CacheSync, Render,
           ClusterdnsRestarts, vars, envVars
  <1>4. /\ pods' \in [Pods -> {"absent", "starting", "ready"}]
        /\ view' \in [Pods -> {"absent", "starting", "ready"}]
    BY ZenonT(40) DEF GuardInv, TypeOK, RoutesChange, SelectorChanges, CidrChanges, PodChanges, CacheSync, Render,
           ClusterdnsRestarts, vars, envVars
  <1>5. rule' \subseteq {"template", "corefile", "renderer"}
    BY DEF GuardInv, TypeOK, RoutesChange, SelectorChanges, CidrChanges, PodChanges, CacheSync, Render,
           ClusterdnsRestarts, vars, envVars
  <1>6. TypeOK'
    BY <1>1, <1>2, <1>3, <1>4, <1>5 DEF GuardInv, TypeOK
  <1>. QED
    BY <1>1, <1>6 DEF GuardInv, Started, Held, PhaseOK, Cleaned, Collected, ChildrenGuarded, SliceOnOneNetwork

\* Every step keeps the invariant.
LEMMA GuardStep == GuardInv /\ [Next]_vars => GuardInv'
  <1>. SUFFICES ASSUME GuardInv, [Next]_vars PROVE GuardInv'
    OBVIOUS
  <1>1. CASE ReconcileStep
    BY <1>1, ReconcileKeeps, EnsureFinalizerKeeps, DetermineGatewayIPKeeps, RoutesKeep,
       WriteChildrenKeeps, RemoveFinalizerKeeps, WriteStatusKeeps, RuleKeeps DEF ReconcileStep
  <1>2. CASE ~ReconcileStep
    BY <1>2, UsersKeep, DriftKeeps, ElsewhereKeeps, RuleKeeps DEF Next
  <1>. QED  BY <1>1, <1>2

\* The invariant holds in every reachable state.
THEOREM GatewayInvariant == Spec => []GuardInv
  BY GuardInit, GuardStep, PTL DEF Spec

\* Type correctness of the Gateway, its children and the running reconcile.
THEOREM GatewayTypeCorrect == Spec => []TypeOK
  <1>1. GuardInv => TypeOK
    BY DEF GuardInv
  <1>. QED  BY <1>1, GatewayInvariant, PTL

\* A Service or EndpointSlice is never left without a Gateway whose finalizer brings the
\* controller back to it, except by a Delete that failed during the clean-up.
THEOREM GatewayChildrenGuarded == Spec => []ChildrenGuarded
  <1>1. GuardInv => ChildrenGuarded
    BY DEF GuardInv
  <1>. QED  BY <1>1, GatewayInvariant, PTL

\* The endpoints of a Gateway are always pods of one network.
THEOREM GatewaySliceOnOneNetwork == Spec => []SliceOnOneNetwork
  <1>1. GuardInv => SliceOnOneNetwork
    BY DEF GuardInv
  <1>. QED  BY <1>1, GatewayInvariant, PTL

=============================================================================
