----------------------- MODULE NetworkReconcilerProofs -----------------------
(***************************************************************************)
(* Proofs about NetworkReconciler, for every set of namespaces, Services   *)
(* and Network configurations and any number of faults and changes.        *)
(***************************************************************************)
EXTENDS NetworkReconciler, TLAPS

\* The Network that the reconcile read still exists and has the finalizer.
Held == net.phase # "absent" /\ net.uid = work.obj.uid /\ net.finalizer

Applying == {"start", "nads", "pool", "l2", "services", "bind"}

\* Past the finalizer a reconcile works for the Network that exists: the finalizer keeps it
\* there, and only a clean-up, which is another reconcile, removes it.
HeldOK ==
    /\ work.pc \in Applying => Held
    /\ work.pc = "finalizer" => work.obj.phase # "absent" /\ (work.obj.finalizer => Held)

\* Kubernetes keeps a deleted object only for its finalizers.
DeletingOK == net.phase = "deleting" => net.finalizer

\* No child is older than its name's last Network: a new one starts without children.
OwnersOK == \A k \in Children : children[k] # NoChild => children[k].owner <= net.uid

GuardInv == TypeOK /\ HeldOK /\ DeletingOK /\ OwnersOK /\ ChildrenGuarded

-----------------------------------------------------------------------------
\* The record of no Network is well-typed.
LEMMA NoNetworkType ==
    ASSUME NEW u \in Nat
    PROVE  NoNetwork(u) \in NetworkType
<1>1. (CHOOSE sp \in Specs : TRUE) \in Specs BY NetworkConstants
<1> QED BY <1>1 DEF NoNetwork, NetworkType

\* A new reconcile is well-typed.
LEMMA ReconcilingType ==
    ASSUME NEW obj \in NetworkType,
           NEW pc \in {"idle", "cleanup", "finalizer"}
    PROVE  Reconciling(pc, obj) \in WorkType
BY DEF Reconciling, WorkType

\* The state between reconciles is well-typed.
LEMMA IdleType == Idle \in WorkType
BY ReconcilingType, NoNetworkType DEF Idle

\* The initial state satisfies the invariant.
LEMMA GuardInit == Init => GuardInv
<1> SUFFICES ASSUME Init PROVE GuardInv OBVIOUS
<1>1. net \in NetworkType BY NoNetworkType DEF Init
<1>2. work \in WorkType BY IdleType DEF Init
<1>3. children \in [Children -> ChildType] BY DEF Init, ChildType, NoChild
<1>4. TypeOK BY <1>1, <1>2, <1>3 DEF Init, TypeOK
<1>5. HeldOK /\ DeletingOK
  BY DEF Init, HeldOK, Held, DeletingOK, Idle, Reconciling, Applying, NoNetwork
<1>6. OwnersOK /\ ChildrenGuarded BY DEF Init, OwnersOK, ChildrenGuarded
<1> QED BY <1>4, <1>5, <1>6 DEF GuardInv

\* What applyOrUpdate leaves behind: the child as it was, or one of the Network read.
LEMMA AppliedType ==
    ASSUME TypeOK, NEW k \in Children
    PROVE  /\ Applied(k) \in ChildType
           /\ Applied(k) = children[k] \/ Applied(k).owner = work.obj.uid
<1>1. work.obj \in NetworkType BY DEF TypeOK, WorkType
<1>2. work.obj.uid \in Nat /\ work.obj.spec \in Specs BY <1>1 DEF NetworkType
<1>3. [owner |-> work.obj.uid, spec |-> DesiredSpec(k, work.obj.spec)] \in ChildType
  BY <1>2 DEF ChildType, DesiredSpec
<1> QED BY <1>3 DEF Applied, TypeOK

\* applyOrUpdate touches one child and keeps the reconcile well-typed.
LEMMA ApplyType ==
    ASSUME TypeOK, NEW k \in Children, NEW w \in WorkType, NEW failed \in WorkType,
           Apply(k, w, failed)
    PROVE  /\ children' \in [Children -> ChildType]
           /\ work' \in WorkType
           /\ work'.pc \in {w.pc, failed.pc}
           /\ work'.obj \in {w.obj, failed.obj}
           /\ children' = children \/ children' = [children EXCEPT ![k] = Applied(k)]
<1>1. CASE /\ children' = [children EXCEPT ![k] = Applied(k)]
           /\ work' = [w EXCEPT !.done = @ \cup {k}]
  BY <1>1, AppliedType DEF TypeOK, WorkType
<1>2. CASE children' = children /\ work' = [failed EXCEPT !.errors = TRUE]
  BY <1>2 DEF TypeOK, WorkType
<1> QED BY <1>1, <1>2 DEF Apply

\* Every step keeps the state well-typed.
LEMMA NetworkTypeStep ==
    ASSUME TypeOK, [Next]_vars
    PROVE  TypeOK'
<1> USE DEF envVars
<1>a. work \in WorkType /\ net \in NetworkType /\ work.obj \in NetworkType /\ net.uid \in Nat
  BY DEF TypeOK, WorkType, NetworkType
<1>b. {PoolName, L2Name} \subseteq Children /\ Namespaces \subseteq Children BY DEF Children
<1>1. CASE Reconcile
  <2>1. \/ work' = Reconciling("finalizer", net)
        \/ \E listed \in SUBSET Namespaces :
              work' = [Reconciling("cleanup", net) EXCEPT !.todo = listed \cup {PoolName, L2Name}]
    BY <1>1 DEF Reconcile
  <2>2. work' \in WorkType
    <3>1. CASE work' = Reconciling("finalizer", net) BY <3>1, <1>a, ReconcilingType
    <3>2. ASSUME NEW listed \in SUBSET Namespaces,
                 work' = [Reconciling("cleanup", net) EXCEPT !.todo = listed \cup {PoolName, L2Name}]
          PROVE  work' \in WorkType
      <4>1. Reconciling("cleanup", net) \in WorkType BY <1>a, ReconcilingType
      <4>2. listed \cup {PoolName, L2Name} \in SUBSET (Children \cup Services) BY <1>b
      <4> QED BY <3>2, <4>1, <4>2 DEF WorkType
    <3> QED BY <2>1, <3>1, <3>2
  <2> QED BY <2>2, <1>1 DEF Reconcile, TypeOK
<1>2. ASSUME NEW k \in Children, CleanupChild(k) PROVE TypeOK'
  <2>1. work' \in WorkType BY <1>2, <1>a DEF CleanupChild, WorkType
  <2>2. NoChild \in ChildType BY DEF NoChild, ChildType
  <2>3. children' \in [Children -> ChildType] BY <1>2, <2>2 DEF CleanupChild, TypeOK
  <2> QED BY <2>1, <2>3, <1>2 DEF CleanupChild, TypeOK
<1>3. CASE RemoveFinalizer
  <2>1. net' \in NetworkType BY <1>3, <1>a, NoNetworkType DEF RemoveFinalizer
  <2>2. work' \in WorkType BY <1>3, IdleType DEF RemoveFinalizer
  <2> QED BY <2>1, <2>2, <1>3 DEF RemoveFinalizer, TypeOK
<1>4. CASE EnsureFinalizer
  <2>1. net' \in NetworkType
    <3>1. net' = net \/ net' = [net EXCEPT !.finalizer = TRUE] BY <1>4 DEF EnsureFinalizer
    <3> QED BY <3>1, <1>a DEF NetworkType
  <2>2. work' \in WorkType
    <3>1. \/ work' = [work EXCEPT !.pc = "start"]
          \/ work' = [work EXCEPT !.pc = "start", !.obj = net']
          \/ work' = Idle
      BY <1>4 DEF EnsureFinalizer
    <3> QED BY <3>1, <2>1, <1>a, IdleType DEF WorkType
  <2> QED BY <2>1, <2>2, <1>4 DEF EnsureFinalizer, TypeOK
<1>5. CASE StartChildren
  <2>1. PICK readable \in BOOLEAN, listable \in BOOLEAN :
          work' = [work EXCEPT
             !.pc = "nads",
             !.hostOK = IsPrimaryNetwork(work.obj.spec) \/ (readable /\ provisioned),
             !.want = Wanted(work.obj.spec, ActiveNamespaces),
             !.todo = Wanted(work.obj.spec, IF listable THEN ActiveNamespaces ELSE {}) \cap Namespaces,
             !.errors = work.obj.spec.iface # NoIface /\ (~work.obj.spec.mtuValid \/ ~listable)]
    BY <1>5 DEF StartChildren
  <2>2. /\ Wanted(work.obj.spec, ActiveNamespaces) \in SUBSET Children
        /\ Wanted(work.obj.spec, IF listable THEN ActiveNamespaces ELSE {}) \cap Namespaces
             \in SUBSET (Children \cup Services)
    BY <1>b DEF Wanted, ActiveNamespaces
  <2>3. /\ (IsPrimaryNetwork(work.obj.spec) \/ (readable /\ provisioned)) \in BOOLEAN
        /\ (work.obj.spec.iface # NoIface /\ (~work.obj.spec.mtuValid \/ ~listable)) \in BOOLEAN
    OBVIOUS
  <2>4. work' \in WorkType BY <2>1, <2>2, <2>3, <1>a DEF WorkType
  <2> QED BY <2>4, <1>5 DEF StartChildren, TypeOK
<1>6. ASSUME NEW n \in Namespaces, ReconcileNetAttachDef(n) PROVE TypeOK'
  <2>1. [work EXCEPT !.todo = @ \ {n}] \in WorkType BY <1>a DEF WorkType
  <2>2. children' \in [Children -> ChildType] /\ work' \in WorkType
    BY <1>6, <1>b, <2>1, ApplyType DEF ReconcileNetAttachDef
  <2> QED BY <2>2, <1>6 DEF ReconcileNetAttachDef, TypeOK
<1>7. CASE NetAttachDefsDone
  <2>1. work' \in WorkType BY <1>7, <1>a DEF NetAttachDefsDone, WorkType
  <2> QED BY <2>1, <1>7 DEF NetAttachDefsDone, TypeOK
<1>8. CASE ReconcilePool \/ ReconcileL2Advertisement
  <2>1. \A p \in {"l2", "services"} : [work EXCEPT !.pc = p] \in WorkType BY <1>a DEF WorkType
  <2>2. children' \in [Children -> ChildType] /\ work' \in WorkType
    BY <1>8, <1>b, <2>1, ApplyType DEF ReconcilePool, ReconcileL2Advertisement
  <2> QED BY <2>2, <1>8 DEF ReconcilePool, ReconcileL2Advertisement, TypeOK
<1>9. CASE ListServices
  <2>1. work' \in WorkType BY ZenonT(40), <1>9, <1>a DEF ListServices, WorkType
  <2> QED BY <2>1, <1>9 DEF ListServices, TypeOK
<1>10. ASSUME NEW sv \in Services, BindService(sv) PROVE TypeOK'
  <2>1. work' \in WorkType BY ZenonT(40), <1>10, <1>a DEF BindService, WorkType
  <2> QED BY <2>1, <1>10 DEF BindService, TypeOK
<1>11. CASE WriteStatus \/ WriteStatusFails \/ OperatorRestarts
  <2>1. work' \in WorkType BY <1>11, IdleType DEF WriteStatus, WriteStatusFails, OperatorRestarts
  <2>2. net' \in NetworkType
    <3>1. CASE WriteStatus
      <4>1. PICK readable \in BOOLEAN :
              \/ net' = net
              \/ net' = [work.obj EXCEPT !.ready = Ready(work), !.dns = readable /\ dnsRule]
        BY <3>1 DEF WriteStatus
      <4>2. Ready(work) \in BOOLEAN /\ (readable /\ dnsRule) \in BOOLEAN BY DEF Ready
      <4> QED BY <4>1, <4>2, <1>a DEF NetworkType
    <3> QED BY <3>1, <1>a, <1>11 DEF WriteStatusFails, OperatorRestarts
  <2> QED BY <2>1, <2>2, <1>11 DEF WriteStatus, WriteStatusFails, OperatorRestarts, TypeOK
<1>12. ASSUME NEW sp \in Specs, CreateNetwork(sp) \/ EditNetwork(sp) PROVE TypeOK'
  <2>1. net' \in NetworkType
    <3>1. CASE CreateNetwork(sp) BY <3>1, <1>a DEF CreateNetwork, NetworkType
    <3>2. CASE EditNetwork(sp)
      <4>1. net' = [net EXCEPT !.spec = sp] BY <3>2 DEF EditNetwork
      <4> QED BY <4>1, <1>a, <1>12 DEF NetworkType
    <3> QED BY <3>1, <3>2, <1>12
  <2>2. permitted' \subseteq Services
    BY <1>12 DEF CreateNetwork, EditNetwork, AllowedBy, TypeOK
  <2> QED BY <2>1, <2>2, <1>12 DEF CreateNetwork, EditNetwork, TypeOK
<1>13. CASE DeleteNetwork
  <2>1. net' \in NetworkType BY <1>13, <1>a, NoNetworkType DEF DeleteNetwork, NetworkType
  <2> QED BY <2>1, <1>13 DEF DeleteNetwork, TypeOK
<1>14. ASSUME NEW n \in Namespaces, NamespaceChanges(n) PROVE TypeOK'
  <2>1. NoChild \in ChildType BY DEF NoChild, ChildType
  <2>2. children' \in [Children -> ChildType] BY <1>14, <2>1, <1>b DEF NamespaceChanges, TypeOK
  <2>3. namespaces' \in [Namespaces -> {"absent", "active", "terminating"}]
    BY <1>14 DEF NamespaceChanges, TypeOK
  <2> QED BY <2>2, <2>3, <1>14 DEF NamespaceChanges, TypeOK
<1>15. CASE ConfigMapChanges
  BY <1>15 DEF ConfigMapChanges, TypeOK
<1>16. ASSUME NEW k \in Children, Drift(k) \/ GarbageCollect(k) PROVE TypeOK'
  <2>1. NoChild \in ChildType BY DEF NoChild, ChildType
  <2>2. children' \in [Children -> ChildType] BY <1>16, <2>1 DEF Drift, GarbageCollect, TypeOK
  <2> QED BY <2>2, <1>16 DEF Drift, GarbageCollect, TypeOK
<1>17. CASE UNCHANGED vars
  BY <1>17 DEF vars, TypeOK
<1> QED
  BY <1>1, <1>2, <1>3, <1>4, <1>5, <1>6, <1>7, <1>8, <1>9, <1>10, <1>11, <1>12, <1>13, <1>14,
     <1>15, <1>16, <1>17
  DEF Next, ReconcileStep

-----------------------------------------------------------------------------
\* A child the reconcile applies belongs to the Network that exists, and that Network has
\* the finalizer: what the three steps that apply children have in common.
LEMMA ApplyGuarded ==
    ASSUME GuardInv, NEW k \in Children, NEW w \in WorkType, NEW failed \in WorkType,
           work.pc \in Applying, {w.pc, failed.pc} \subseteq Applying,
           w.obj = work.obj, failed.obj = work.obj,
           Apply(k, w, failed), net' = net
    PROVE  HeldOK' /\ DeletingOK' /\ OwnersOK' /\ ChildrenGuarded'
<1>1. TypeOK BY DEF GuardInv
<1>2. /\ work'.pc \in Applying
      /\ work'.obj = work.obj
      /\ children' = children \/ children' = [children EXCEPT ![k] = Applied(k)]
  BY <1>1, ApplyType
<1>3. net.phase # "absent" /\ net.uid = work.obj.uid /\ net.finalizer
  BY DEF GuardInv, HeldOK, Held
<1>4. net.uid \in Nat BY <1>1 DEF TypeOK, NetworkType
<1>5. HeldOK' /\ DeletingOK' BY <1>2, <1>3 DEF HeldOK, Held, DeletingOK, Applying
<1>6. ASSUME NEW c \in Children
      PROVE  children'[c] = children[c] \/ children'[c].owner = net.uid
  <2>1. children \in [Children -> ChildType] BY <1>1 DEF TypeOK
  <2> QED BY <1>1, <1>2, <1>3, <2>1, AppliedType
<1>7. OwnersOK'
  <2> SUFFICES ASSUME NEW c \in Children, children'[c] # NoChild
               PROVE  children'[c].owner <= net.uid
    BY DEF OwnersOK
  <2> QED BY <1>6, <1>4 DEF GuardInv, OwnersOK
<1>8. ChildrenGuarded' BY <1>3 DEF ChildrenGuarded
<1> QED BY <1>5, <1>7, <1>8

\* A step that creates no child and keeps the Network's identity keeps the children guarded.
LEMMA NoNewChild ==
    ASSUME GuardInv, net'.uid = net.uid,
           net'.phase # "absent" => net.phase # "absent" /\ (net.finalizer => net'.finalizer),
           \A k \in Children : children'[k] \in {NoChild, children[k]}
    PROVE  OwnersOK' /\ ChildrenGuarded'
<1>1. OwnersOK' BY DEF GuardInv, OwnersOK
<1>2. ChildrenGuarded'
  <2> SUFFICES ASSUME NEW k \in Children, children'[k] # NoChild,
                      net'.phase # "absent", net'.uid = children'[k].owner
               PROVE  net'.finalizer
    BY DEF ChildrenGuarded, Dead
  <2>1. children'[k] = children[k] OBVIOUS
  <2> QED BY <2>1 DEF GuardInv, ChildrenGuarded, Dead
<1> QED BY <1>1, <1>2

\* Every step keeps the invariant.
LEMMA GuardStep ==
    ASSUME GuardInv, [Next]_vars
    PROVE  GuardInv'
<1> USE DEF envVars
<1>t. TypeOK BY DEF GuardInv
<1>t2. TypeOK' BY <1>t, NetworkTypeStep
<1>a. work \in WorkType /\ net \in NetworkType /\ net.uid \in Nat
  BY <1>t DEF TypeOK, NetworkType
<1> DEFINE Goal == HeldOK' /\ DeletingOK' /\ OwnersOK' /\ ChildrenGuarded'
<1> SUFFICES Goal BY <1>t2 DEF GuardInv
<1>h. ASSUME work' = work, Held => Held' PROVE HeldOK'
  BY <1>h DEF GuardInv, HeldOK
<1>i. ASSUME work' = Idle PROVE HeldOK'
  BY <1>i DEF HeldOK, Idle, Reconciling, Applying
<1>1. CASE Reconcile
  <2>1. work'.pc \in {"cleanup", "finalizer"} /\ work'.obj = net
    <3>1. \/ work' = Reconciling("finalizer", net)
          \/ \E listed \in SUBSET Namespaces :
                work' = [Reconciling("cleanup", net) EXCEPT !.todo = listed \cup {PoolName, L2Name}]
      BY <1>1 DEF Reconcile
    <3> QED BY <3>1 DEF Reconciling
  <2>2. net' = net /\ children' = children /\ net.phase # "absent" BY <1>1 DEF Reconcile
  <2>3. HeldOK' /\ DeletingOK' BY <2>1, <2>2 DEF HeldOK, Held, DeletingOK, GuardInv, Applying
  <2> QED BY <2>2, <2>3, NoNewChild
<1>2. ASSUME NEW k \in Children, CleanupChild(k) PROVE Goal
  <2>1. work'.pc = "cleanup" /\ net' = net
    BY <1>2, <1>a DEF CleanupChild, At, WorkType
  <2>2. \A c \in Children : children'[c] \in {NoChild, children[c]}
    BY <1>2, <1>t DEF CleanupChild, TypeOK
  <2>3. HeldOK' /\ DeletingOK' BY <2>1 DEF HeldOK, DeletingOK, GuardInv, Applying
  <2> QED BY <2>1, <2>2, <2>3, NoNewChild
<1>3. CASE RemoveFinalizer
  <2>1. work' = Idle /\ children' = children /\ (net' = net \/ net' = NoNetwork(net.uid))
    BY <1>3 DEF RemoveFinalizer
  <2>2. DeletingOK' BY <2>1 DEF DeletingOK, NoNetwork, GuardInv
  <2>3. net'.uid = net.uid /\ (net'.phase # "absent" => net' = net)
    BY <2>1 DEF NoNetwork
  <2> QED BY <1>i, <2>1, <2>2, <2>3, NoNewChild
<1>4. CASE EnsureFinalizer
  <2>1. children' = children /\ work.pc = "finalizer" BY <1>4 DEF EnsureFinalizer, At
  <2>2. net' = net \/ net' = [net EXCEPT !.finalizer = TRUE] BY <1>4 DEF EnsureFinalizer
  <2>3. net'.uid = net.uid /\ net'.phase = net.phase /\ (net.finalizer => net'.finalizer)
    BY <2>2, <1>a DEF NetworkType
  <2>4. DeletingOK' BY <2>3 DEF DeletingOK, GuardInv
  <2>5. HeldOK'
    <3>1. CASE work.obj.finalizer /\ work' = [work EXCEPT !.pc = "start"]
      <4>1. Held /\ work'.obj = work.obj /\ work'.pc = "start"
        BY <2>1, <3>1, <1>a DEF GuardInv, HeldOK, WorkType
      <4> QED BY <4>1, <2>3 DEF HeldOK, Held
    <3>2. CASE /\ net = work.obj
               /\ net' = [net EXCEPT !.finalizer = TRUE]
               /\ work' = [work EXCEPT !.pc = "start", !.obj = net']
      <4>1. net.phase # "absent" BY <2>1, <3>2 DEF GuardInv, HeldOK
      <4>2. net'.finalizer BY <3>2, <1>a DEF NetworkType
      <4>3. work'.obj = net' /\ work'.pc = "start" BY <3>2, <1>a DEF WorkType
      <4> QED BY <4>1, <4>2, <4>3, <2>3 DEF HeldOK, Held
    <3> QED BY <1>4, <1>i, <3>1, <3>2 DEF EnsureFinalizer
  <2> QED BY <2>1, <2>3, <2>4, <2>5, NoNewChild
<1>5. CASE StartChildren \/ NetAttachDefsDone \/ ListServices
  <2>1. net' = net /\ children' = children
    BY <1>5 DEF StartChildren, NetAttachDefsDone, ListServices
  <2>2. work.pc \in Applying
    BY <1>5 DEF StartChildren, NetAttachDefsDone, ListServices, At, Applying
  <2>3. work'.pc \in Applying /\ work'.obj = work.obj
    <3>1. CASE StartChildren BY <3>1, <1>a DEF StartChildren, WorkType, Applying
    <3>2. CASE NetAttachDefsDone BY <3>2, <1>a DEF NetAttachDefsDone, WorkType, Applying
    <3>3. CASE ListServices BY <3>3, <1>a DEF ListServices, WorkType, Applying
    <3> QED BY <1>5, <3>1, <3>2, <3>3
  <2>4. HeldOK' /\ DeletingOK'
    BY <2>1, <2>2, <2>3 DEF HeldOK, Held, DeletingOK, GuardInv, Applying
  <2> QED BY <2>1, <2>4, NoNewChild
<1>6. ASSUME NEW n \in Namespaces, ReconcileNetAttachDef(n) PROVE Goal
  <2> DEFINE w == [work EXCEPT !.todo = @ \ {n}]
  <2>1. w \in WorkType /\ w.pc = work.pc /\ w.obj = work.obj BY <1>a DEF WorkType
  <2>2. work.pc \in Applying /\ net' = net /\ Apply(n, w, w)
    BY <1>6 DEF ReconcileNetAttachDef, At, Applying
  <2>3. n \in Children BY DEF Children
  <2> HIDE DEF w
  <2> QED BY <2>1, <2>2, <2>3, ApplyGuarded
<1>7. CASE ReconcilePool
  <2> DEFINE w == [work EXCEPT !.pc = "l2"]
             f == [work EXCEPT !.pc = "services"]
  <2>1. w \in WorkType /\ f \in WorkType /\ w.pc = "l2" /\ f.pc = "services"
    BY <1>a DEF WorkType
  <2>2. w.obj = work.obj /\ f.obj = work.obj BY <1>a DEF WorkType
  <2>3. work.pc = "pool" /\ net' = net /\ Apply(PoolName, w, f)
    BY <1>7 DEF ReconcilePool, At
  <2>4. PoolName \in Children BY DEF Children
  <2>5. {work.pc, w.pc, f.pc} \subseteq Applying BY <2>1, <2>3 DEF Applying
  <2> HIDE DEF w, f
  <2> QED BY <2>1, <2>2, <2>3, <2>4, <2>5, ApplyGuarded
<1>8. CASE ReconcileL2Advertisement
  <2> DEFINE w == [work EXCEPT !.pc = "services"]
  <2>1. w \in WorkType /\ w.pc = "services" /\ w.obj = work.obj BY <1>a DEF WorkType
  <2>2. work.pc = "l2" /\ net' = net /\ Apply(L2Name, w, w)
    BY <1>8 DEF ReconcileL2Advertisement, At
  <2>3. L2Name \in Children BY DEF Children
  <2>4. {work.pc, w.pc} \subseteq Applying BY <2>1, <2>2 DEF Applying
  <2> HIDE DEF w
  <2> QED BY <2>1, <2>2, <2>3, <2>4, ApplyGuarded
<1>9. ASSUME NEW s \in Services, BindService(s) PROVE Goal
  <2>1. net' = net /\ children' = children /\ work.pc = "bind" BY <1>9 DEF BindService, At
  <2>2. work'.pc = work.pc /\ work'.obj = work.obj BY <1>9, <1>a DEF BindService, WorkType
  <2>3. HeldOK' /\ DeletingOK' BY <2>1, <2>2 DEF HeldOK, Held, DeletingOK, GuardInv
  <2> QED BY <2>1, <2>3, NoNewChild
<1>10. CASE WriteStatus \/ WriteStatusFails \/ OperatorRestarts
  <2>1. work' = Idle /\ children' = children
    BY <1>10 DEF WriteStatus, WriteStatusFails, OperatorRestarts
  <2>2. net'.uid = net.uid /\ net'.phase = net.phase /\ net'.finalizer = net.finalizer
    <3>1. CASE WriteStatus
      <4>1. PICK readable \in BOOLEAN :
              \/ net' = net
              \/ net' = [net EXCEPT !.ready = Ready(work), !.dns = readable /\ dnsRule]
        BY <3>1 DEF WriteStatus
      <4> QED BY <4>1, <1>a DEF NetworkType
    <3> QED BY <1>10, <3>1 DEF WriteStatusFails, OperatorRestarts
  <2>3. DeletingOK' BY <2>2 DEF DeletingOK, GuardInv
  <2> QED BY <1>i, <2>1, <2>2, <2>3, NoNewChild
<1>11. ASSUME NEW sp \in Specs, CreateNetwork(sp) PROVE Goal
  <2>1. /\ net.phase = "absent" /\ net'.phase = "live" /\ net'.uid = net.uid + 1
        /\ children' = children /\ work' = work
    BY <1>11 DEF CreateNetwork
  <2>2. HeldOK' /\ DeletingOK' BY <2>1, <1>h DEF Held, DeletingOK
  <2>3. \A k \in Children : children[k] # NoChild => children[k].owner \in Nat
    BY <1>t DEF TypeOK, ChildType
  <2>4. OwnersOK' BY <2>1, <2>3, <1>a DEF OwnersOK, GuardInv
  <2>5. \A k \in Children : children[k] # NoChild => children[k].owner # net.uid + 1
    BY <2>3, <1>a DEF OwnersOK, GuardInv
  <2>6. ChildrenGuarded' BY <2>1, <2>5 DEF ChildrenGuarded, Dead
  <2> QED BY <2>2, <2>4, <2>6
<1>12. ASSUME NEW sp \in Specs, EditNetwork(sp) PROVE Goal
  <2>1. net' = [net EXCEPT !.spec = sp] /\ children' = children /\ work' = work
    BY <1>12 DEF EditNetwork
  <2>2. net'.uid = net.uid /\ net'.phase = net.phase /\ net'.finalizer = net.finalizer
    BY <2>1, <1>a DEF NetworkType
  <2>3. HeldOK' BY <1>h, <2>1, <2>2 DEF Held
  <2>4. DeletingOK' BY <2>2 DEF DeletingOK, GuardInv
  <2> QED BY <2>1, <2>2, <2>3, <2>4, NoNewChild
<1>13. CASE DeleteNetwork
  <2>1. /\ children' = children /\ work' = work /\ net.phase = "live"
        /\ net' = IF net.finalizer THEN [net EXCEPT !.phase = "deleting"] ELSE NoNetwork(net.uid)
    BY <1>13 DEF DeleteNetwork
  <2>2. CASE net.finalizer
    <3>1. net'.uid = net.uid /\ net'.phase = "deleting" /\ net'.finalizer
      BY <2>1, <2>2, <1>a DEF NetworkType
    <3>2. HeldOK' BY <1>h, <2>1, <3>1 DEF Held
    <3>3. DeletingOK' BY <3>1 DEF DeletingOK
    <3> QED BY <2>1, <3>1, <3>2, <3>3, NoNewChild
  <2>3. CASE ~net.finalizer
    <3>1. net'.uid = net.uid /\ net'.phase = "absent" BY <2>1, <2>3 DEF NoNetwork
    <3>2. HeldOK' BY <1>h, <2>1, <2>3 DEF Held
    <3>3. DeletingOK' BY <3>1 DEF DeletingOK
    <3> QED BY <2>1, <3>1, <3>2, <3>3, NoNewChild
  <2> QED BY <2>2, <2>3
<1>14. CASE \/ \E n \in Namespaces : NamespaceChanges(n)
            \/ \E k \in Children : Drift(k) \/ GarbageCollect(k)
            \/ ConfigMapChanges
            \/ UNCHANGED vars
  <2>1. net' = net /\ work' = work
    BY <1>14 DEF NamespaceChanges, Drift, GarbageCollect, ConfigMapChanges, vars
  <2>2. \A c \in Children : children'[c] \in {NoChild, children[c]}
    BY <1>14, <1>t DEF NamespaceChanges, Drift, GarbageCollect, ConfigMapChanges, vars, TypeOK
  <2>3. HeldOK' BY <1>h, <2>1 DEF Held
  <2>4. DeletingOK' BY <2>1 DEF DeletingOK, GuardInv
  <2> QED BY <2>1, <2>2, <2>3, <2>4, NoNewChild
<1> QED
  BY <1>1, <1>2, <1>3, <1>4, <1>5, <1>6, <1>7, <1>8, <1>9, <1>10, <1>11, <1>12, <1>13, <1>14
  DEF Next, ReconcileStep

\* A step that makes a child, or changes one, makes it a child of the Network that exists.
LEMMA NewChildIsOwned ==
    ASSUME GuardInv, [Next]_vars, NEW k \in Children,
           children'[k] \notin {NoChild, children[k]}
    PROVE  ~Dead(children'[k].owner)
<1> USE DEF envVars
<1>t. TypeOK BY DEF GuardInv
<1>a. work \in WorkType /\ children \in [Children -> ChildType] BY <1>t DEF TypeOK
<1>b. {PoolName, L2Name} \subseteq Children /\ Namespaces \subseteq Children BY DEF Children
<1>1. ASSUME NEW c \in Children, work.pc \in Applying,
             children' = children \/ children' = [children EXCEPT ![c] = Applied(c)]
      PROVE  ~Dead(children'[k].owner)
  <2>1. children'[k] = Applied(k) BY <1>1, <1>a
  <2>2. children'[k].owner = work.obj.uid BY <2>1, <1>t, AppliedType
  <2> QED BY <1>1, <2>2 DEF GuardInv, HeldOK, Held, Dead
<1>2. ASSUME NEW n \in Namespaces, ReconcileNetAttachDef(n) PROVE ~Dead(children'[k].owner)
  <2>1. work.pc \in Applying BY <1>2 DEF ReconcileNetAttachDef, At, Applying
  <2>2. children' = children \/ children' = [children EXCEPT ![n] = Applied(n)]
    BY <1>2 DEF ReconcileNetAttachDef, Apply
  <2> QED BY <1>1, <1>b, <2>1, <2>2
<1>3. CASE ReconcilePool \/ ReconcileL2Advertisement
  <2>1. work.pc \in Applying
    BY <1>3 DEF ReconcilePool, ReconcileL2Advertisement, At, Applying
  <2>2. PICK c \in {PoolName, L2Name} :
          children' = children \/ children' = [children EXCEPT ![c] = Applied(c)]
    BY <1>3 DEF ReconcilePool, ReconcileL2Advertisement, Apply
  <2> QED BY <1>1, <1>b, <2>1, <2>2
<1>4. ASSUME NEW c \in Children, CleanupChild(c) \/ Drift(c) \/ GarbageCollect(c) PROVE FALSE
  BY <1>4, <1>a DEF CleanupChild, Drift, GarbageCollect
<1>5. ASSUME NEW n \in Namespaces, NamespaceChanges(n) PROVE FALSE
  BY <1>5, <1>a DEF NamespaceChanges
<1>6. CASE children' = children BY <1>6
<1>7. CASE UNCHANGED vars BY <1>6, <1>7 DEF vars
<1> QED
  BY <1>2, <1>3, <1>4, <1>5, <1>6, <1>7
  DEF Next, ReconcileStep, Reconcile, RemoveFinalizer, EnsureFinalizer, StartChildren,
      NetAttachDefsDone, ListServices, WriteStatus, WriteStatusFails, BindService,
      CreateNetwork, EditNetwork, DeleteNetwork, ConfigMapChanges, OperatorRestarts

\* In every behaviour of the controller and its cluster: a reconcile past the finalizer
\* works for the Network that exists, and that Network is guarded by its finalizer.
THEOREM GuardInvariant == Spec => []GuardInv
<1>1. Init => GuardInv BY GuardInit
<1>2. GuardInv /\ [Next]_vars => GuardInv' BY GuardStep
<1> QED BY <1>1, <1>2, PTL DEF Spec

\* The state of the Network, its children and the reconcile is always well-typed.
THEOREM NetworkTypeCorrect == Spec => []TypeOK
<1>1. GuardInv => TypeOK BY DEF GuardInv
<1> QED BY <1>1, GuardInvariant, PTL

\* A Network that owns children has the finalizer, so that its deletion leads to their
\* clean-up, whatever fails and whoever acts between two API calls of Reconcile.
THEOREM ChildrenAreGuarded == Spec => []ChildrenGuarded
<1>1. GuardInv => ChildrenGuarded BY DEF GuardInv
<1> QED BY <1>1, GuardInvariant, PTL

\* Reconcile, working from a copy read earlier, never creates or changes a child on behalf
\* of a Network that is gone.
THEOREM NoChildOutlivesItsNetwork == Spec => NoPosthumousChild
<1>1. ASSUME GuardInv, [Next]_vars
      PROVE  [\A k \in Children :
                 children'[k] \notin {NoChild, children[k]} => ~Dead(children'[k].owner)]_vars
  BY <1>1, NewChildIsOwned
<1> QED BY <1>1, GuardInvariant, PTL DEF Spec, NoPosthumousChild

-----------------------------------------------------------------------------
(***************************************************************************)
(* The allowlist.                                                          *)
(***************************************************************************)

\* The copy of a reconcile is a version the Network had, and the Services it goes on to
\* bind are the ones that version allows.
PermitInv ==
    /\ BoundWasPermitted
    /\ net.phase # "absent" => AllowedBy(net.spec) \subseteq permitted
    /\ work.pc # "idle" => AllowedBy(work.obj.spec) \subseteq permitted
    /\ work.pc \in {"pool", "l2", "services"} => work.todo = {}
    /\ work.pc = "bind" => work.todo \subseteq permitted

\* Every step keeps the bound Services among the permitted ones.
LEMMA PermitStep ==
    ASSUME TypeOK, PermitInv, [Next]_vars
    PROVE  PermitInv'
<1> USE DEF envVars
<1>a. work \in WorkType /\ net \in NetworkType BY DEF TypeOK
<1>b. bound \subseteq permitted BY DEF PermitInv, BoundWasPermitted
<1>i. ASSUME work' = Idle, bound' = bound, permitted' = permitted,
             net'.phase # "absent" => net'.spec = net.spec /\ net.phase # "absent"
      PROVE  PermitInv'
  BY <1>i DEF PermitInv, BoundWasPermitted, Idle, Reconciling, AllowedBy
\* A step of a reconcile in which neither the Network's configuration nor the copy changes.
<1>w. ASSUME bound' = bound, permitted' = permitted, work.pc # "idle",
             net'.phase = net.phase, net'.spec = net.spec, work'.obj.spec = work.obj.spec,
             work'.pc \in {"pool", "l2", "services"} => work'.todo = {},
             work'.pc = "bind" => work'.todo \subseteq permitted
      PROVE  PermitInv'
  BY <1>w DEF PermitInv, BoundWasPermitted, AllowedBy
<1>1. CASE Reconcile
  <2>1. work'.pc \in {"cleanup", "finalizer"} /\ work'.obj = net
    <3>1. \/ work' = Reconciling("finalizer", net)
          \/ \E listed \in SUBSET Namespaces :
                work' = [Reconciling("cleanup", net) EXCEPT !.todo = listed \cup {PoolName, L2Name}]
      BY <1>1 DEF Reconcile
    <3> QED BY <3>1 DEF Reconciling
  <2>2. net' = net /\ bound' = bound /\ permitted' = permitted /\ net.phase # "absent"
    BY <1>1 DEF Reconcile
  <2> QED BY <2>1, <2>2 DEF PermitInv, BoundWasPermitted, AllowedBy
<1>2. ASSUME NEW k \in Children, CleanupChild(k) PROVE PermitInv'
  <2>1. work.pc = "cleanup" /\ work'.pc = "cleanup" /\ work'.obj = work.obj
    BY <1>2, <1>a DEF CleanupChild, At, WorkType
  <2> QED BY <1>2, <1>w, <2>1 DEF CleanupChild
<1>3. CASE RemoveFinalizer
  BY <1>3, <1>i DEF RemoveFinalizer, NoNetwork
<1>4. CASE EnsureFinalizer
  <2>1. CASE work' = Idle /\ net' = net BY <1>4, <1>i, <2>1 DEF EnsureFinalizer
  <2>2. CASE work' = [work EXCEPT !.pc = "start"] /\ net' = net
    <3>1. work'.pc = "start" /\ work'.obj = work.obj BY <2>2, <1>a DEF WorkType
    <3> QED BY <1>4, <1>w, <2>2, <3>1 DEF EnsureFinalizer, At
  <2>3. CASE /\ net = work.obj
             /\ net' = [net EXCEPT !.finalizer = TRUE]
             /\ work' = [work EXCEPT !.pc = "start", !.obj = net']
    <3>1. net'.phase = net.phase /\ net'.spec = net.spec BY <2>3, <1>a DEF NetworkType
    <3>2. work'.pc = "start" /\ work'.obj = net' BY <2>3, <1>a DEF WorkType
    <3> QED BY <1>4, <1>w, <2>3, <3>1, <3>2 DEF EnsureFinalizer, At
  <2> QED BY <1>4, <2>1, <2>2, <2>3 DEF EnsureFinalizer
<1>5. CASE StartChildren
  <2>1. work.pc = "start" /\ work'.pc = "nads" /\ work'.obj = work.obj
    BY <1>5, <1>a DEF StartChildren, At, WorkType
  <2> QED BY <1>5, <1>w, <2>1 DEF StartChildren
<1>6. ASSUME NEW n \in Namespaces, ReconcileNetAttachDef(n) PROVE PermitInv'
  <2>1. work.pc = "nads" /\ work'.pc = "nads" /\ work'.obj = work.obj
    BY <1>6, <1>a DEF ReconcileNetAttachDef, Apply, At, WorkType
  <2> QED BY <1>6, <1>w, <2>1 DEF ReconcileNetAttachDef
<1>7. CASE NetAttachDefsDone
  <2>1. /\ work.pc = "nads" /\ work'.pc \in {"pool", "services"} /\ work'.obj = work.obj
        /\ work'.todo = {}
    BY <1>7, <1>a DEF NetAttachDefsDone, At, WorkType
  <2> QED BY <1>7, <1>w, <2>1 DEF NetAttachDefsDone
<1>8. CASE ReconcilePool \/ ReconcileL2Advertisement
  <2>1. /\ work.pc \in {"pool", "l2"} /\ work'.pc \in {"l2", "services"}
        /\ work'.obj = work.obj /\ work'.todo = work.todo
    BY <1>8, <1>a DEF ReconcilePool, ReconcileL2Advertisement, Apply, At, WorkType
  <2>2. work'.todo = {} BY <2>1 DEF PermitInv
  <2> QED BY <1>8, <1>w, <2>1, <2>2 DEF ReconcilePool, ReconcileL2Advertisement
<1>9. CASE ListServices
  <2>1. work.pc = "services" /\ work'.pc = "bind" /\ work'.obj = work.obj
    BY <1>9, <1>a DEF ListServices, At, WorkType
  <2>2. \/ work'.todo = work.todo
        \/ work'.todo = {s \in Services \ bound :
                           NamespaceAllowed(work.obj.spec, NamespaceOf[s])}
    BY <1>9, <1>a DEF ListServices, WorkType
  <2>3. work'.todo \subseteq AllowedBy(work.obj.spec)
    BY <2>1, <2>2 DEF PermitInv, NamespaceAllowed, AllowedBy
  <2>4. work'.todo \subseteq permitted BY <2>1, <2>3 DEF PermitInv
  <2> QED BY <1>9, <1>w, <2>1, <2>4 DEF ListServices
<1>10. ASSUME NEW s \in Services, BindService(s) PROVE PermitInv'
  <2>1. /\ work.pc = "bind" /\ work'.pc = "bind" /\ work'.obj = work.obj
        /\ work'.todo \subseteq work.todo
    BY <1>10, <1>a DEF BindService, At, WorkType
  <2>2. s \in permitted /\ work'.todo \subseteq permitted
    BY <1>10, <2>1 DEF BindService, PermitInv
  <2>3. bound' \subseteq permitted BY <1>10, <1>b, <2>2 DEF BindService
  <2> QED
    BY <1>10, <2>1, <2>2, <2>3 DEF BindService, PermitInv, BoundWasPermitted, AllowedBy
<1>11. CASE WriteStatus \/ WriteStatusFails \/ OperatorRestarts
  <2>1. net'.spec = net.spec /\ net'.phase = net.phase
    <3>1. CASE WriteStatus
      <4>1. PICK readable \in BOOLEAN :
              \/ net' = net
              \/ net' = [net EXCEPT !.ready = Ready(work), !.dns = readable /\ dnsRule]
        BY <3>1 DEF WriteStatus
      <4> QED BY <4>1, <1>a DEF NetworkType
    <3> QED BY <1>11, <3>1 DEF WriteStatusFails, OperatorRestarts
  <2> QED BY <1>11, <1>i, <2>1 DEF WriteStatus, WriteStatusFails, OperatorRestarts
<1>12. ASSUME NEW sp \in Specs, CreateNetwork(sp) \/ EditNetwork(sp) PROVE PermitInv'
  <2>1. /\ net'.spec = sp /\ permitted' = permitted \cup AllowedBy(sp)
        /\ bound' = bound /\ work' = work
    <3>1. CASE CreateNetwork(sp) BY <3>1 DEF CreateNetwork
    <3>2. CASE EditNetwork(sp) BY <3>2, <1>a DEF EditNetwork, NetworkType
    <3> QED BY <1>12, <3>1, <3>2
  <2> QED BY <2>1 DEF PermitInv, BoundWasPermitted, AllowedBy
<1>13. CASE DeleteNetwork
  <2>1. net'.phase # "absent" => net'.spec = net.spec
    BY <1>13, <1>a DEF DeleteNetwork, NoNetwork, NetworkType
  <2>2. bound' = bound /\ permitted' = permitted /\ work' = work /\ net.phase # "absent"
    BY <1>13 DEF DeleteNetwork
  <2> QED BY <2>1, <2>2 DEF PermitInv, BoundWasPermitted, AllowedBy
<1>14. CASE \/ \E n \in Namespaces : NamespaceChanges(n)
            \/ \E k \in Children : Drift(k) \/ GarbageCollect(k)
            \/ ConfigMapChanges
            \/ UNCHANGED vars
  <2>1. net' = net /\ work' = work /\ bound' = bound /\ permitted' = permitted
    BY <1>14 DEF NamespaceChanges, Drift, GarbageCollect, ConfigMapChanges, vars
  <2> QED BY <2>1 DEF PermitInv, BoundWasPermitted, AllowedBy
<1> QED
  BY <1>1, <1>2, <1>3, <1>4, <1>5, <1>6, <1>7, <1>8, <1>9, <1>10, <1>11, <1>12, <1>13, <1>14
  DEF Next, ReconcileStep

\* reconcileServices binds a Service to the Network's pool only if some version of the
\* Network allowed the Service's namespace, however old the copy it works from.
THEOREM BindingIsPermitted == Spec => []BoundWasPermitted
<1>1. Init => PermitInv
  BY DEF Init, PermitInv, BoundWasPermitted, NoNetwork, Idle, Reconciling
<1>2. TypeOK /\ PermitInv /\ [Next]_vars => PermitInv' BY PermitStep
<1>3. PermitInv => BoundWasPermitted BY DEF PermitInv
<1> QED BY <1>1, <1>2, <1>3, NetworkTypeCorrect, PTL DEF Spec

-----------------------------------------------------------------------------
(***************************************************************************)
(* The Ready condition.                                                    *)
(***************************************************************************)

\* As long as a reconcile has met no error, the children it has not applied yet are those
\* it will still come to, and an L2Advertisement is wanted with its pool only.
EarnedOK(w) ==
    /\ w.pc \in {"nads", "pool", "l2", "services", "bind"} => (L2Name \in w.want => PoolName \in w.want)
    /\ w.pc = "nads" /\ ~w.errors => w.want \ w.done \subseteq w.todo \cup {PoolName, L2Name}
    /\ w.pc = "pool" /\ ~w.errors => w.want \ w.done \subseteq {PoolName, L2Name}
    /\ w.pc = "l2" /\ ~w.errors => w.want \ w.done \subseteq {L2Name}
    /\ w.pc \in {"services", "bind"} /\ ~w.errors => w.want \subseteq w.done

\* Every step keeps it.
LEMMA EarnedStep ==
    ASSUME TypeOK, EarnedOK(work), [Next]_vars
    PROVE  EarnedOK(work')
<1> USE DEF envVars
<1>a. work \in WorkType BY DEF TypeOK
\* Before the children there is nothing to say, and after an error nothing more.
<1>i. ASSUME work'.pc \in {"idle", "cleanup", "finalizer", "start"} PROVE EarnedOK(work')
  BY <1>i DEF EarnedOK
<1>f. ASSUME work'.pc \in {"nads", "pool", "l2", "services", "bind"}, work'.errors,
             work.pc \in {"nads", "pool", "l2", "services", "bind"}, work'.want = work.want
      PROVE  EarnedOK(work')
  BY <1>f DEF EarnedOK
<1>1. CASE Reconcile
  <2>1. \/ work' = Reconciling("finalizer", net)
        \/ \E listed \in SUBSET Namespaces :
              work' = [Reconciling("cleanup", net) EXCEPT !.todo = listed \cup {PoolName, L2Name}]
    BY <1>1 DEF Reconcile
  <2>2. work'.pc \in {"finalizer", "cleanup"} BY <2>1 DEF Reconciling
  <2> QED BY <2>2, <1>i
<1>2. ASSUME NEW k \in Children, CleanupChild(k) PROVE EarnedOK(work')
  <2>1. work'.pc = "cleanup" BY <1>2, <1>a DEF CleanupChild, At, WorkType
  <2> QED BY <2>1, <1>i
<1>3. CASE EnsureFinalizer
  <2>1. work' = Idle \/ work'.pc = "start" BY <1>3, <1>a DEF EnsureFinalizer, WorkType
  <2> QED BY <2>1, <1>i DEF Idle, Reconciling
<1>4. CASE RemoveFinalizer \/ WriteStatus \/ WriteStatusFails \/ OperatorRestarts
  <2>1. work' = Idle
    BY <1>4 DEF RemoveFinalizer, WriteStatus, WriteStatusFails, OperatorRestarts
  <2> QED BY <2>1, <1>i DEF Idle, Reconciling
<1>5. CASE StartChildren
  <2> DEFINE sp == work.obj.spec
  <2>1. PICK listable \in BOOLEAN :
          /\ work'.pc = "nads"
          /\ work'.want = Wanted(sp, ActiveNamespaces)
          /\ work'.todo = Wanted(sp, IF listable THEN ActiveNamespaces ELSE {}) \cap Namespaces
          /\ work'.errors = (sp.iface # NoIface /\ (~sp.mtuValid \/ ~listable))
    BY <1>5, <1>a DEF StartChildren, WorkType
  <2>2. ActiveNamespaces \subseteq Namespaces /\ {PoolName, L2Name} \cap Namespaces = {}
    BY NetworkConstants DEF ActiveNamespaces
  <2>3. L2Name \in work'.want => PoolName \in work'.want BY <2>1, <2>2 DEF Wanted
  <2>4. ~work'.errors => work'.want \subseteq work'.todo \cup {PoolName, L2Name}
    BY <2>1, <2>2 DEF Wanted
  <2> QED BY <2>1, <2>3, <2>4 DEF EarnedOK
<1>6. ASSUME NEW n \in Namespaces, ReconcileNetAttachDef(n) PROVE EarnedOK(work')
  <2>1. work.pc = "nads" /\ work'.pc = "nads" /\ work'.want = work.want
    BY <1>6, <1>a DEF ReconcileNetAttachDef, Apply, At, WorkType
  <2>2. \/ work'.errors
        \/ /\ work'.todo = work.todo \ {n} /\ work'.done = work.done \cup {n}
           /\ work'.errors = work.errors
    BY <1>6, <1>a DEF ReconcileNetAttachDef, Apply, WorkType
  <2> QED BY <1>f, <2>1, <2>2 DEF EarnedOK
<1>7. CASE NetAttachDefsDone
  <2>1. /\ work.pc = "nads" /\ work.todo = {} /\ work'.want = work.want /\ work'.done = work.done
        /\ work'.pc = IF PoolName \in work.want THEN "pool" ELSE "services"
        /\ work.errors => work'.errors
    BY <1>7, <1>a DEF NetAttachDefsDone, At, WorkType
  <2>2. CASE PoolName \in work.want BY <2>1, <2>2 DEF EarnedOK
  <2>3. CASE PoolName \notin work.want BY <2>1, <2>3 DEF EarnedOK
  <2> QED BY <2>2, <2>3
<1>8. CASE ReconcilePool
  <2>1. work.pc = "pool" /\ work'.want = work.want
    BY <1>8, <1>a DEF ReconcilePool, Apply, At, WorkType
  <2>2. \/ work'.pc = "services" /\ work'.errors
        \/ /\ work'.pc = "l2" /\ work'.done = work.done \cup {PoolName}
           /\ work'.errors = work.errors
    BY <1>8, <1>a DEF ReconcilePool, Apply, WorkType
  <2> QED BY <1>f, <2>1, <2>2 DEF EarnedOK
<1>9. CASE ReconcileL2Advertisement
  <2>1. work.pc = "l2" /\ work'.pc = "services" /\ work'.want = work.want
    BY <1>9, <1>a DEF ReconcileL2Advertisement, Apply, At, WorkType
  <2>2. \/ work'.errors
        \/ work'.done = work.done \cup {L2Name} /\ work'.errors = work.errors
    BY <1>9, <1>a DEF ReconcileL2Advertisement, Apply, WorkType
  <2> QED BY <1>f, <2>1, <2>2 DEF EarnedOK
<1>10. CASE ListServices \/ \E s \in Services : BindService(s)
  <2>1. /\ work.pc \in {"services", "bind"} /\ work'.pc = "bind"
        /\ work'.want = work.want /\ work'.done = work.done
        /\ work.errors => work'.errors
    BY <1>10, <1>a DEF ListServices, BindService, At, WorkType
  <2> QED BY <2>1 DEF EarnedOK
<1>11. CASE \/ \E sp \in Specs : CreateNetwork(sp) \/ EditNetwork(sp)
            \/ \E n \in Namespaces : NamespaceChanges(n)
            \/ \E k \in Children : Drift(k) \/ GarbageCollect(k)
            \/ DeleteNetwork \/ ConfigMapChanges
            \/ UNCHANGED vars
  <2>1. work' = work
    BY <1>11 DEF CreateNetwork, EditNetwork, NamespaceChanges, Drift, GarbageCollect, DeleteNetwork,
       ConfigMapChanges, vars
  <2> QED BY <2>1
<1> QED
  BY <1>1, <1>2, <1>3, <1>4, <1>5, <1>6, <1>7, <1>8, <1>9, <1>10, <1>11 DEF Next, ReconcileStep

\* Only WriteStatus makes a Network Ready.
LEMMA ReadyIsWritten ==
    ASSUME TypeOK, [Next]_vars, ~net.ready, net'.ready
    PROVE  work.pc = "bind" /\ ~work.errors
<1> USE DEF envVars
<1>a. work \in WorkType /\ net \in NetworkType BY DEF TypeOK
<1>1. CASE WriteStatus
  <2>1. PICK readable \in BOOLEAN :
          \/ net' = net
          \/ net' = [net EXCEPT !.ready = Ready(work), !.dns = readable /\ dnsRule]
    BY <1>1 DEF WriteStatus
  <2>2. Ready(work) BY <2>1, <1>a DEF NetworkType
  <2> QED BY <1>1, <2>2 DEF WriteStatus, At, Ready
<1>2. CASE EnsureFinalizer
  <2>1. net' = net \/ net' = [net EXCEPT !.finalizer = TRUE] BY <1>2 DEF EnsureFinalizer
  <2> QED BY <2>1, <1>a DEF NetworkType
<1>3. CASE RemoveFinalizer BY <1>3 DEF RemoveFinalizer, NoNetwork
<1>4. CASE DeleteNetwork
  <2>1. net' = [net EXCEPT !.phase = "deleting"] \/ net' = NoNetwork(net.uid)
    BY <1>4 DEF DeleteNetwork
  <2> QED BY <2>1, <1>a DEF NetworkType, NoNetwork
<1>5. ASSUME NEW sp \in Specs, CreateNetwork(sp) \/ EditNetwork(sp) PROVE FALSE
  <2>1. CASE CreateNetwork(sp) BY <2>1 DEF CreateNetwork
  <2>2. CASE EditNetwork(sp) BY <2>2, <1>a DEF EditNetwork, NetworkType
  <2> QED BY <1>5, <2>1, <2>2
<1>6. CASE \/ Reconcile \/ StartChildren \/ NetAttachDefsDone \/ ReconcilePool
           \/ ReconcileL2Advertisement \/ ListServices \/ WriteStatusFails
           \/ \E k \in Children : CleanupChild(k)
           \/ \E n \in Namespaces : ReconcileNetAttachDef(n)
           \/ \E s \in Services : BindService(s)
           \/ \E n \in Namespaces : NamespaceChanges(n)
           \/ \E k \in Children : Drift(k) \/ GarbageCollect(k)
           \/ ConfigMapChanges \/ OperatorRestarts \/ UNCHANGED vars
  <2>1. net' = net
    BY <1>6 DEF Reconcile, StartChildren, NetAttachDefsDone, ReconcilePool, ReconcileL2Advertisement,
       ListServices, WriteStatusFails, CleanupChild, ReconcileNetAttachDef, BindService,
       NamespaceChanges, Drift, GarbageCollect, ConfigMapChanges, OperatorRestarts, vars
  <2> QED BY <2>1
<1> QED BY <1>1, <1>2, <1>3, <1>4, <1>5, <1>6 DEF Next, ReconcileStep

\* Ready turns True only at the end of a reconcile that applied every child the Network it
\* read asks for: no error of reconcileNetAttachDef or reconcileMetalLB gets lost on the way.
THEOREM ReadyMeansApplied == Spec => ReadyIsEarned
<1>1. Init => EarnedOK(work) BY DEF Init, Idle, Reconciling, EarnedOK
<1>2. TypeOK /\ EarnedOK(work) /\ [Next]_vars => EarnedOK(work)' BY EarnedStep
<1>3. ASSUME TypeOK, EarnedOK(work), [Next]_vars
      PROVE  [~net.ready /\ net'.ready => work.want \subseteq work.done]_vars
  BY <1>3, ReadyIsWritten DEF EarnedOK
<1> QED BY <1>1, <1>2, <1>3, NetworkTypeCorrect, PTL DEF Spec, ReadyIsEarned
=============================================================================
