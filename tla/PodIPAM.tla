------------------------------- MODULE PodIPAM -------------------------------
(***************************************************************************)
(* The pod admission webhook of the GEM network operator, which gives      *)
(* secondary-network addresses to pods:                                    *)
(*   operators/gem-network-operator/controllers/pod_mutator.go             *)
(*                                                                         *)
(* Every admission request runs in a goroutine of its own and reads pods   *)
(* through the manager's client, that is from an informer cache which      *)
(* follows the API server with a delay.  The address chosen exists only in *)
(* the admission response until the API server stores the pod.             *)
(*                                                                         *)
(* Addresses are unsigned integers, as ipToUint32 makes them.              *)
(***************************************************************************)
EXTENDS Naturals, Sequences, FiniteSetsExt, SequencesExt

CONSTANTS
    Pods,             \* pod identities (UIDs); a recreated pod is another one
    Networks,         \* names of Network resources
    PrimaryNetworks,  \* "", "pod-network", "default"
    Texts,            \* names in annotations, of networks and of interfaces
    PodSpec,          \* PodSpec[p]: [interfaces, multus], the two annotations
    NetworkSpec       \* NetworkSpec[n]: [gateway4, prefixLength4, vips, cidrs]

DefaultPrefixLength == 24
NoIP == 0             \* no address: an error of allocateSecondaryIP

\* An interface a pod asks for, and an entry of its Multus annotation.
GKEInterfaceSpec == [network : Texts, name : Texts]
MultusNetworkSpec == [name : Texts, iface : Texts, ips : SUBSET Nat]

\* What a VIP annotation or a GKEGatewayCIDR contains.
Block == [kind : {"range", "cidr"}, first : Nat, last : Nat]

ASSUME IPAMConstants ==
    /\ PodSpec \in [Pods -> [interfaces : Seq(GKEInterfaceSpec), multus : Seq(MultusNetworkSpec)]]
    /\ \A n \in Networks :
          /\ DOMAIN NetworkSpec[n] = {"gateway4", "prefixLength4", "vips", "cidrs"}
          /\ NetworkSpec[n].gateway4 \in Nat
          /\ NetworkSpec[n].prefixLength4 \in Nat
          /\ NetworkSpec[n].vips \cup NetworkSpec[n].cidrs \subseteq Block
    /\ Networks \cap PrimaryNetworks = {}

VARIABLES
    pods,     \* pods[p]: the pod in the API server, [phase, multus]
    cache,    \* cache[p]: the same in the operator's informer cache
    work,     \* work[p]: the locals of the running handler, [todo, multus, inUse]
    dynamic,  \* dynamic[p]: what the running handler allocated, [network, ip, cidrs],
              \* where cidrs are the gateway CIDRs it had listed (history)
    unseen    \* unseen[p]: pods that the running handler may not know of: the cache
              \* lacked them when it started or they were stored since (history)

vars == <<pods, cache, work, dynamic, unseen>>

-----------------------------------------------------------------------------
(***************************************************************************)
(* allocateSecondaryIP                                                     *)
(***************************************************************************)
HostBits(n) ==
    LET len == NetworkSpec[n].prefixLength4
    IN  32 - (IF len \in 1..32 THEN len ELSE DefaultPrefixLength)

SubnetStart(n) == NetworkSpec[n].gateway4 - (NetworkSpec[n].gateway4 % 2^HostBits(n))

Broadcast(n) == SubnetStart(n) + 2^HostBits(n) - 1

\* excludeIPRangeOrCIDR: "first-last" (nothing if reversed), "first/last" (the whole
\* block the prefix length selects), or one address, which is a range of itself.
ExcludedBy(b) ==
    IF b.kind = "cidr"
    THEN LET size == 2^(32 - b.last)
             low == b.first - (b.first % size)
         IN  low..(low + size - 1)
    ELSE b.first..b.last

(***************************************************************************)
(* Definitions whose comment starts with "Wrong:" are variants of the      *)
(* definition below them with a plausible bug.  No specification uses      *)
(* them; PROJECT.json names the property that each one violates.           *)
(***************************************************************************)

\* Wrong: the last node address is off by one.
ReservedOffByOne(n, cidrs) ==
    {SubnetStart(n), Broadcast(n), NetworkSpec[n].gateway4}
    \cup {u \in (SubnetStart(n) + 2)..(SubnetStart(n) + 8) : u < Broadcast(n)}
    \cup UNION {ExcludedBy(b) : b \in NetworkSpec[n].vips \cup cidrs}

\* Infrastructure addresses: network, broadcast, gateway, node interfaces (.2 to .9),
\* MetalLB VIPs and the gateway CIDRs that were listed.
Reserved(n, cidrs) ==
    {SubnetStart(n), Broadcast(n), NetworkSpec[n].gateway4}
    \cup {u \in (SubnetStart(n) + 2)..(SubnetStart(n) + 9) : u < Broadcast(n)}
    \cup UNION {ExcludedBy(b) : b \in NetworkSpec[n].vips \cup cidrs}

\* Addresses of network n in the Multus annotation m.
AddressesOn(m, n) == UNION {m[i].ips : i \in {j \in DOMAIN m : m[j].name = n}}

\* Wrong: other pods are forgotten.
InUseNobody(view, n) == {}

\* Pods that finished or have a deletion timestamp do not count.
InUse(view, n) ==
    UNION {AddressesOn(view[q].multus, n) : q \in {r \in Pods : view[r].phase = "active"}}

\* What c.List may return for the gateway CIDRs of n: an error of it is ignored.
ListedCIDRs(n) == {NetworkSpec[n].cidrs, {}}

\* The result, given the pods in view and the gateway CIDRs listed.
AllocateSecondaryIP(view, n, cidrs, inUseSet) ==
    LET free == ((SubnetStart(n) + 1)..(Broadcast(n) - 1))
                \ (Reserved(n, cidrs) \cup InUse(view, n) \cup inUseSet)
    IN  IF NetworkSpec[n].gateway4 = 0 \/ free = {} THEN NoIP ELSE Min(free)

-----------------------------------------------------------------------------
(***************************************************************************)
(* MutatePodInterfacesWithContext                                          *)
(***************************************************************************)
Idle == [todo |-> <<>>, multus |-> <<>>, inUse |-> {}]

Secondary(p) == SelectSeq(PodSpec[p].interfaces, LAMBDA i : i.network \notin PrimaryNetworks)

\* The Multus entry an interface refers to: same network, compatible interface name.
MatchingEntry(multus, sec) ==
    SelectInSeq(multus, LAMBDA e : /\ e.name = sec.network
                                   /\ (e.iface = sec.name \/ "" \in {e.iface, sec.name}))

Init ==
    /\ pods = [p \in Pods |-> [phase |-> "new", multus |-> PodSpec[p].multus]]
    /\ cache = pods
    /\ work = [p \in Pods |-> Idle]
    /\ dynamic = [p \in Pods |-> {}]
    /\ unseen = [p \in Pods |-> {}]

SetPhase(p, phase) == pods' = [pods EXCEPT ![p].phase = phase]

\* The handler returns: its locals and its history are gone.
Return(p) == work' = [work EXCEPT ![p] = Idle] /\ dynamic' = [dynamic EXCEPT ![p] = {}]

\* p is stored: the handlers that are running may have looked before it was there.
UnseenWith(p) ==
    [q \in Pods |-> IF pods[q].phase = "admitting" /\ q # p THEN unseen[q] \cup {p} ELSE {}]

\* A pod without secondary interfaces is admitted as it is; otherwise the loop over them
\* starts, with the addresses the pod brings itself in inUseSet.
Handle(p) ==
    /\ pods[p].phase = "new"
    /\ IF Secondary(p) = <<>>
       THEN SetPhase(p, "active") /\ unseen' = UnseenWith(p) /\ UNCHANGED work
       ELSE /\ SetPhase(p, "admitting")
            /\ work' = [work EXCEPT ![p] =
                   [todo |-> Secondary(p), multus |-> PodSpec[p].multus,
                    inUse |-> UNION {e.ips : e \in ToSet(PodSpec[p].multus)}]]
            /\ unseen' = [unseen EXCEPT ![p] =
                   {q \in Pods : pods[q].phase = "active" /\ cache[q] # pods[q]}]
    /\ UNCHANGED <<cache, dynamic>>

\* One iteration of the merge loop, for the interface Sec(p): its entry keeps the address
\* it has, or one is allocated.  A failed allocation rejects the pod.
Sec(p) == Head(work[p].todo)

Found(p) == MatchingEntry(work[p].multus, Sec(p))

NeedsAddress(p) == IF Found(p) = 0 THEN TRUE ELSE work[p].multus[Found(p)].ips = {}

\* The entry e with the interface name and the addresses it lacks.
Completed(e, sec, ips) ==
    [e EXCEPT !.iface = IF @ = "" THEN sec.name ELSE @, !.ips = IF @ = {} THEN ips ELSE @]

Merged(p, ips) ==
    IF Found(p) = 0
    THEN Append(work[p].multus, [name |-> Sec(p).network, iface |-> Sec(p).name, ips |-> ips])
    ELSE [work[p].multus EXCEPT ![Found(p)] = Completed(@, Sec(p), ips)]

Merging(p) == pods[p].phase = "admitting" /\ work[p].todo # <<>>

KeepAddress(p) ==
    /\ Merging(p)
    /\ ~NeedsAddress(p)
    /\ work' = [work EXCEPT ![p].todo = Tail(@), ![p].multus = Merged(p, {})]
    /\ UNCHANGED <<pods, cache, dynamic, unseen>>

\* Wrong: the address is not remembered for the next interface of the pod.
AllocatedForgotten(p, ip) ==
    [todo |-> Tail(work[p].todo), multus |-> Merged(p, {ip}), inUse |-> work[p].inUse]

\* The handler after ip was allocated for its interface.
Allocated(p, ip) ==
    [todo |-> Tail(work[p].todo), multus |-> Merged(p, {ip}), inUse |-> work[p].inUse \cup {ip}]

\* Wrong: the error of allocateSecondaryIP is ignored.
AllocateAddressUnchecked(p) ==
    /\ Merging(p)
    /\ NeedsAddress(p)
    /\ \E cidrs \in ListedCIDRs(Sec(p).network) :
          LET ip == AllocateSecondaryIP(cache, Sec(p).network, cidrs, work[p].inUse) IN
          /\ work' = [work EXCEPT ![p] = Allocated(p, ip)]
          /\ dynamic' = [dynamic EXCEPT ![p] =
                @ \cup {[network |-> Sec(p).network, ip |-> ip, cidrs |-> cidrs]}]
    /\ UNCHANGED <<pods, cache, unseen>>

AllocateAddress(p) ==
    /\ Merging(p)
    /\ NeedsAddress(p)
    /\ Sec(p).network \in Networks
    /\ \E cidrs \in ListedCIDRs(Sec(p).network) :
          LET ip == AllocateSecondaryIP(cache, Sec(p).network, cidrs, work[p].inUse) IN
          /\ ip # NoIP
          /\ work' = [work EXCEPT ![p] = Allocated(p, ip)]
          /\ dynamic' = [dynamic EXCEPT ![p] =
                @ \cup {[network |-> Sec(p).network, ip |-> ip, cidrs |-> cidrs]}]
    /\ UNCHANGED <<pods, cache, unseen>>

\* allocateSecondaryIP fails: no free address, no such Network, or a client error.
RejectPod(p) ==
    /\ Merging(p)
    /\ NeedsAddress(p)
    /\ SetPhase(p, "rejected")
    /\ Return(p)
    /\ unseen' = [unseen EXCEPT ![p] = {}]
    /\ UNCHANGED cache

\* The patch is returned and the API server stores the pod.
Store(p) ==
    /\ pods[p].phase = "admitting"
    /\ work[p].todo = <<>>
    /\ pods' = [pods EXCEPT ![p] = [phase |-> "active", multus |-> work[p].multus]]
    /\ Return(p)
    /\ unseen' = UnseenWith(p)
    /\ UNCHANGED cache

\* The pod finishes, is deleted (and then runs for its grace period) or is removed
\* (external): the allocator does not tell these apart.
PodEnds(p) ==
    /\ pods[p].phase = "active"
    /\ SetPhase(p, "ended")
    /\ UNCHANGED <<cache, work, dynamic, unseen>>

\* A watch event reaches the informer cache (external).
CacheSync(p) ==
    /\ pods[p].phase \in {"active", "ended"}
    /\ cache[p] # pods[p]
    /\ cache' = [cache EXCEPT ![p] = pods[p]]
    /\ UNCHANGED <<pods, work, dynamic, unseen>>

Next ==
    \E p \in Pods : \/ Handle(p) \/ KeepAddress(p) \/ AllocateAddress(p) \/ RejectPod(p) \/ Store(p)
                    \/ PodEnds(p) \/ CacheSync(p)

Spec == Init /\ [][Next]_vars

-----------------------------------------------------------------------------
\* Type correctness.
TypeOK ==
    /\ \A p \in Pods :
          /\ pods[p].phase \in {"new", "admitting", "active", "ended", "rejected"}
          /\ cache[p].phase \in {"new", "active", "ended"}
          /\ work[p].inUse \subseteq Nat
          /\ \A d \in dynamic[p] : d.network \in Networks /\ d.ip \in Nat \ {NoIP}
          /\ unseen[p] \subseteq Pods

\* An allocated address is a host address of the subnet and none of the gateway, node or
\* MetalLB addresses, nor in a gateway CIDR the handler had listed, whatever else is
\* admitted at the same time.
NeverReserved ==
    \A p \in Pods : \A d \in dynamic[p] :
        /\ d.ip \in (SubnetStart(d.network) + 1)..(Broadcast(d.network) - 1)
        /\ d.ip # NetworkSpec[d.network].gateway4
        /\ d.ip \notin (SubnetStart(d.network) + 2)..(SubnetStart(d.network) + 9)
        /\ \A b \in NetworkSpec[d.network].vips \cup d.cidrs : d.ip \notin ExcludedBy(b)

\* No two entries of one pod's Multus annotation share an address that was allocated:
\* several interfaces of a pod on one network get different addresses.
OwnAddressesDistinct ==
    \A p \in Pods : \A i, j \in DOMAIN work[p].multus :
        i # j => work[p].multus[i].ips \cap work[p].multus[j].ips
                 \cap {d.ip : d \in dynamic[p]} = {}

\* The pods that hold an address allocated to p.
Clashes(p) ==
    {q \in Pods \ {p} : /\ pods[q].phase = "active"
                        /\ \E d \in dynamic[p] : d.ip \in AddressesOn(pods[q].multus, d.network)}

\* When a pod is stored, an address allocated to it can only clash with pods the handler
\* could not know of: pods stored during the admission or not yet in the cache.  The race
\* is the only way to a collision.
OnlyUnseenClash ==
    [][\A p \in Pods : pods[p].phase = "admitting" /\ pods'[p].phase = "active"
                       => Clashes(p) \subseteq unseen[p]]_vars

\* When a pod is stored, no address allocated to it belongs to another pod that is neither
\* finished nor being deleted (pod_mutator.go: "allocates a unique IPAM address").
StoredAddressesUnique ==
    [][\A p \in Pods : pods[p].phase = "admitting" /\ pods'[p].phase = "active"
                       => Clashes(p) = {}]_vars
=============================================================================
