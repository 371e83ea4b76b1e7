---------------------------- MODULE PodIPAMProofs ----------------------------
(***************************************************************************)
(* Proofs about PodIPAM, for all pods, annotations and networks: what the  *)
(* allocator never gives out, that the interfaces of a pod get different   *)
(* addresses, and that an address can clash only with a pod its handler    *)
(* could not know of.                                                      *)
(***************************************************************************)
EXTENDS PodIPAM, FiniteSetTheorems, WellFoundedInduction, TLAPS

\* A list of Multus entries.
MultusOK(m) ==
    /\ m \in Seq(ToSet(m))
    /\ \A i \in DOMAIN m : DOMAIN m[i] = {"name", "iface", "ips"}

\* The state is made of functions on pods; ShapeOf(p) is what they yield.  What the names
\* in it are does not matter here.
FunctionsOK ==
    /\ DOMAIN pods = Pods /\ DOMAIN cache = Pods /\ DOMAIN work = Pods
    /\ DOMAIN dynamic = Pods /\ DOMAIN unseen = Pods

ShapeOf(p) ==
    /\ DOMAIN pods[p] = {"phase", "multus"}
    /\ DOMAIN work[p] = {"todo", "multus", "inUse"}
    /\ MultusOK(work[p].multus)

\* TypeOK, NeverReserved and OwnAddressesDistinct for one pod.
Phases == {"new", "admitting", "active", "ended", "rejected"}
CachePhases == {"new", "active", "ended"}

TypeOf(p) ==
    /\ pods[p].phase \in Phases
    /\ cache[p].phase \in CachePhases
    /\ work[p].inUse \subseteq Nat
    /\ \A d \in dynamic[p] : d.network \in Networks /\ d.ip \in Nat \ {NoIP}
    /\ unseen[p] \subseteq Pods

Unreserved(d) ==
    /\ d.ip \in (SubnetStart(d.network) + 1)..(Broadcast(d.network) - 1)
    /\ d.ip # NetworkSpec[d.network].gateway4
    /\ d.ip \notin (SubnetStart(d.network) + 2)..(SubnetStart(d.network) + 9)
    /\ \A b \in NetworkSpec[d.network].vips \cup d.cidrs : d.ip \notin ExcludedBy(b)

Distinct(p) ==
    \A i, j \in DOMAIN work[p].multus : \A d \in dynamic[p] :
        i # j => ~(d.ip \in work[p].multus[i].ips /\ d.ip \in work[p].multus[j].ips)

\* A handler has every address of its pod in inUseSet; only handlers have allocated.
HandlerOK(p) ==
    /\ \A i \in DOMAIN work[p].multus : work[p].multus[i].ips \subseteq work[p].inUse
    /\ pods[p].phase # "admitting" => dynamic[p] = {}

\* What a running handler could know of a stored pod is in the cache as it is in the API
\* server, and what the handler allocated is not an address of that pod.
KnownOK(p, q) ==
    pods[p].phase = "admitting" /\ pods[q].phase = "active" /\ q \notin unseen[p] =>
        /\ cache[q] = pods[q]
        /\ \A d \in dynamic[p] : d.ip \notin AddressesOn(pods[q].multus, d.network)

\* The inductive invariant.
PodInv(p) ==
    /\ TypeOf(p)
    /\ ShapeOf(p)
    /\ HandlerOK(p)
    /\ \A d \in dynamic[p] : Unreserved(d)
    /\ Distinct(p)

IPAMInv ==
    /\ FunctionsOK
    /\ \A p \in Pods : PodInv(p)
    /\ \A p, q \in Pods : KnownOK(p, q)

-----------------------------------------------------------------------------
\* A power of two is a positive natural number.
LEMMA PowerOfTwo == \A k \in Nat : 2^k \in Nat \ {0}
<1> SUFFICES ASSUME NEW k \in Nat PROVE 2^k \in Nat \ {0} OBVIOUS
<1>1. IsFiniteSet(1..k) /\ Cardinality(1..k) = k BY FS_Interval
<1>2. IsFiniteSet(SUBSET (1..k)) /\ Cardinality(SUBSET (1..k)) = 2^k BY <1>1, FS_SUBSET
<1>3. Cardinality(SUBSET (1..k)) \in Nat BY <1>2, FS_CardinalityType
<1>4. Cardinality(SUBSET (1..k)) # 0 BY <1>2, FS_EmptySet
<1> QED BY <1>2, <1>3, <1>4

\* The order of the natural numbers, as a relation, is well-founded.
LEMMA NatOrder == \E R : R = {ss \in Nat \X Nat : ss[1] < ss[2]} /\ IsWellFoundedOn(R, Nat)
<1>1. OpToRel(<, Nat) = {ss \in Nat \X Nat : ss[1] < ss[2]} BY Zenon DEF OpToRel
<1> QED BY <1>1, NatLessThanWellFounded

\* A set of natural numbers that is not empty has a least element.
LEMMA MinInSet == ASSUME NEW S \in SUBSET Nat, S # {} PROVE Min(S) \in S
<1> PICK R : R = {ss \in Nat \X Nat : ss[1] < ss[2]} /\ IsWellFoundedOn(R, Nat) BY NatOrder
<1>1. PICK x \in S : \A y \in S : ~(<<y, x>> \in R) BY WFMin
<1>2. \A y \in S : x =< y
  <2> SUFFICES ASSUME NEW y \in S, y < x PROVE FALSE OBVIOUS
  <2>1. <<y, x>> \in {ss \in Nat \X Nat : ss[1] < ss[2]} OBVIOUS
  <2> QED BY <1>1, <2>1
<1> QED BY <1>2 DEF Min

\* The first and the last address of a subnet are natural numbers.
LEMMA SubnetType ==
    ASSUME NEW n \in Networks
    PROVE  SubnetStart(n) \in Nat /\ Broadcast(n) \in Nat
<1> DEFINE g == NetworkSpec[n].gateway4
           size == 2^HostBits(n)
<1>1. g \in Nat BY IPAMConstants
<1>2. HostBits(n) \in Nat BY DEF HostBits, DefaultPrefixLength
<1>3. size \in Nat \ {0} BY <1>2, PowerOfTwo
<1>4. SubnetStart(n) = g - (g % size) BY DEF SubnetStart
<1>5. Broadcast(n) = SubnetStart(n) + size - 1 BY DEF Broadcast
<1> HIDE DEF g, size
<1>6. SubnetStart(n) \in Nat BY <1>1, <1>3, <1>4
<1> QED BY <1>3, <1>5, <1>6

\* allocateSecondaryIP returns a host address of the subnet that is neither reserved nor
\* in use, by a pod in view or by the pod itself.
Granted(ip, view, n, cidrs, inUseSet) ==
    /\ ip \in Nat \ {NoIP}
    /\ ip \in (SubnetStart(n) + 1)..(Broadcast(n) - 1)
    /\ ip \notin Reserved(n, cidrs)
    /\ ip \notin InUse(view, n)
    /\ ip \notin inUseSet

LEMMA AllocateGrants ==
    ASSUME NEW view, NEW n \in Networks, NEW cidrs, NEW inUseSet, NEW ip,
           ip = AllocateSecondaryIP(view, n, cidrs, inUseSet), ip # NoIP
    PROVE  Granted(ip, view, n, cidrs, inUseSet)
<1> DEFINE hosts == (SubnetStart(n) + 1)..(Broadcast(n) - 1)
           taken == Reserved(n, cidrs) \cup InUse(view, n) \cup inUseSet
           free == hosts \ taken
<1>1. free # {} /\ ip = Min(free) BY DEF AllocateSecondaryIP
<1>2. hosts \subseteq Nat BY SubnetType
<1> HIDE DEF hosts
<1>3. free \in SUBSET Nat BY <1>2
<1> HIDE DEF free
<1>4. ip \in free BY <1>1, <1>3, MinInSet
<1>5. ip \in hosts /\ ip \notin taken BY <1>4 DEF free
<1>6. ip \in Nat \ {NoIP} BY <1>2, <1>5
<1> QED BY <1>5, <1>6 DEF hosts, Granted

\* Hence none of the addresses that NeverReserved names.
LEMMA GrantedIsFree ==
    ASSUME NEW view, NEW n \in Networks, NEW cidrs, NEW inUseSet, NEW ip,
           Granted(ip, view, n, cidrs, inUseSet)
    PROVE  /\ ip # NetworkSpec[n].gateway4
           /\ ip \notin (SubnetStart(n) + 2)..(SubnetStart(n) + 9)
           /\ \A b \in NetworkSpec[n].vips \cup cidrs : ip \notin ExcludedBy(b)
<1>1. ip # NetworkSpec[n].gateway4 BY DEF Granted, Reserved
<1>2. ip \notin (SubnetStart(n) + 2)..(SubnetStart(n) + 9)
  <2>1. ip < Broadcast(n) BY SubnetType DEF Granted
  <2> QED BY <2>1 DEF Granted, Reserved
<1>3. ASSUME NEW b \in NetworkSpec[n].vips \cup cidrs PROVE ip \notin ExcludedBy(b)
  BY DEF Granted, Reserved
<1> QED BY <1>1, <1>2, <1>3

-----------------------------------------------------------------------------
\* Entry k of the Multus list n is new or changed and has the addresses ips; the other
\* entries are those of the list m.
Changed(m, n, k, ips) ==
    /\ MultusOK(n)
    /\ k \in DOMAIN n /\ n[k].ips = ips
    /\ \A i \in DOMAIN n : i # k => i \in DOMAIN m /\ n[i] = m[i]

\* The index of the matching entry, or 0.
LEMMA FoundType ==
    ASSUME NEW p \in Pods, MultusOK(work[p].multus)
    PROVE  Found(p) \in DOMAIN work[p].multus \cup {0}
<1> DEFINE m == work[p].multus
           Test(e) == /\ e.name = Sec(p).network
                      /\ (e.iface = Sec(p).name \/ "" \in {e.iface, Sec(p).name})
           I == {i \in 1..Len(m) : Test(m[i])}
<1>1. Found(p) = IF I # {} THEN Min(I) ELSE 0 BY DEF Found, MatchingEntry, SelectInSeq
<1>2. DOMAIN m = 1..Len(m) /\ Len(m) \in Nat BY DEF MultusOK
<1> HIDE DEF m, Test
<1>3. I \subseteq DOMAIN m /\ I \in SUBSET Nat BY <1>2
<1> HIDE DEF I
<1> QED BY <1>1, <1>3, MinInSet DEF m

\* An entry added to a list.
LEMMA AppendChanges ==
    ASSUME NEW m, MultusOK(m), NEW e, DOMAIN e = {"name", "iface", "ips"}
    PROVE  \E k : Changed(m, Append(m, e), k, e.ips)
<1> DEFINE n == Append(m, e)
           T == ToSet(m) \cup {e}
<1>1. m \in Seq(T) /\ e \in T BY DEF MultusOK
<1>2. Len(m) \in Nat /\ DOMAIN m = 1..Len(m) BY DEF MultusOK
<1> HIDE DEF T
<1>3. n \in Seq(T) /\ Len(n) = Len(m) + 1 /\ n[Len(m) + 1] = e /\ \A i \in 1..Len(m) : n[i] = m[i]
  BY <1>1, <1>2
<1>4. DOMAIN n = 1..Len(n) BY <1>3
<1> HIDE DEF n
<1>5. n \in Seq(ToSet(n)) BY <1>3, <1>4 DEF ToSet
<1>6. \A i \in DOMAIN n : i # Len(m) + 1 => i \in DOMAIN m BY <1>2, <1>3, <1>4
<1>7. Len(m) + 1 \in DOMAIN n BY <1>2, <1>3, <1>4
<1>8. \A i \in DOMAIN n : DOMAIN n[i] = {"name", "iface", "ips"} BY <1>2, <1>3, <1>6 DEF MultusOK
<1>9. Changed(m, n, Len(m) + 1, e.ips) BY <1>2, <1>3, <1>5, <1>6, <1>7, <1>8 DEF Changed, MultusOK
<1> QED BY <1>9 DEF n

\* An entry replaced in a list.
LEMMA ReplaceChanges ==
    ASSUME NEW m, MultusOK(m), NEW k \in DOMAIN m, NEW e, DOMAIN e = {"name", "iface", "ips"}
    PROVE  Changed(m, [m EXCEPT ![k] = e], k, e.ips)
<1> DEFINE n == [m EXCEPT ![k] = e]
<1>1. DOMAIN n = DOMAIN m /\ n[k] = e /\ \A i \in DOMAIN m : i # k => n[i] = m[i] OBVIOUS
<1>2. n \in Seq(ToSet(n))
  <2> DEFINE T == ToSet(m) \cup {e}
  <2>1. m \in Seq(T) /\ e \in T /\ k \in 1..Len(m) BY DEF MultusOK
  <2> HIDE DEF T
  <2>2. n \in Seq(T) BY <2>1
  <2> HIDE DEF n
  <2> QED BY <2>2 DEF ToSet
<1> HIDE DEF n
<1>3. \A i \in DOMAIN n : DOMAIN n[i] = {"name", "iface", "ips"} BY <1>1 DEF MultusOK
<1>4. Changed(m, n, k, e.ips) BY <1>1, <1>2, <1>3 DEF Changed, MultusOK
<1> QED BY <1>4 DEF n

\* What an iteration of the merge loop does to the list of its pod.
LEMMA MergedChanges ==
    ASSUME NEW p \in Pods, MultusOK(work[p].multus), NEW ips
    PROVE  \/ /\ NeedsAddress(p)
              /\ \E k : Changed(work[p].multus, Merged(p, ips), k, ips)
           \/ /\ ~NeedsAddress(p)
              /\ \E k \in DOMAIN work[p].multus :
                    Changed(work[p].multus, Merged(p, ips), k, work[p].multus[k].ips)
<1> DEFINE m == work[p].multus
<1>1. CASE Found(p) = 0
  <2> DEFINE e == [name |-> Sec(p).network, iface |-> Sec(p).name, ips |-> ips]
  <2>1. Merged(p, ips) = Append(m, e) BY <1>1 DEF Merged
  <2>2. DOMAIN e = {"name", "iface", "ips"} /\ e.ips = ips OBVIOUS
  <2>3. NeedsAddress(p) BY <1>1 DEF NeedsAddress
  <2> HIDE DEF e
  <2> QED BY <2>1, <2>2, <2>3, AppendChanges
<1>2. CASE Found(p) # 0
  <2> DEFINE k == Found(p)
             new == IF m[k].ips = {} THEN ips ELSE m[k].ips
             e == Completed(m[k], Sec(p), ips)
  <2>1. k \in DOMAIN m BY <1>2, FoundType
  <2>2. Merged(p, ips) = [m EXCEPT ![k] = e] BY <1>2 DEF Merged
  <2>3. DOMAIN m[k] = {"name", "iface", "ips"} BY <2>1 DEF MultusOK
  <2>4. DOMAIN e = {"name", "iface", "ips"} /\ e.ips = new BY <2>3 DEF Completed
  <2>5. /\ NeedsAddress(p) => new = ips
        /\ ~NeedsAddress(p) => new = m[k].ips
    BY <1>2 DEF NeedsAddress
  <2> HIDE DEF e, k, new
  <2>6. Changed(m, Merged(p, ips), k, e.ips) BY <2>1, <2>2, <2>4, ReplaceChanges
  <2> QED BY <2>1, <2>4, <2>5, <2>6
<1> QED BY <1>1, <1>2

-----------------------------------------------------------------------------
\* The annotation a pod brings is a list of Multus entries with natural numbers.
LEMMA SpecIsMultus ==
    ASSUME NEW p \in Pods
    PROVE  /\ MultusOK(PodSpec[p].multus)
           /\ \A i \in DOMAIN PodSpec[p].multus : PodSpec[p].multus[i].ips \in SUBSET Nat
<1> DEFINE m == PodSpec[p].multus
<1>1. m \in Seq(MultusNetworkSpec) BY IPAMConstants
<1> HIDE DEF m
<1>2. \A i \in DOMAIN m : m[i] \in MultusNetworkSpec BY <1>1
<1>3. m \in Seq(ToSet(m)) BY <1>1 DEF ToSet
<1>4. \A e \in MultusNetworkSpec : DOMAIN e = {"name", "iface", "ips"} /\ e.ips \in SUBSET Nat
  BY DEF MultusNetworkSpec
<1>5. MultusOK(m) BY <1>2, <1>3, <1>4 DEF MultusOK
<1> QED BY <1>2, <1>4, <1>5 DEF m

\* A pod that nobody touched.
LEMMA PodUntouched ==
    ASSUME NEW p \in Pods, PodInv(p), pods'[p] = pods[p], work'[p] = work[p],
           dynamic'[p] = dynamic[p], cache'[p].phase \in CachePhases, unseen'[p] \subseteq Pods
    PROVE  PodInv(p)'
BY DEF PodInv, TypeOf, ShapeOf, HandlerOK, Distinct, Unreserved

\* A pod that only changes its phase, outside of an admission.
LEMMA PodMoves ==
    ASSUME NEW p \in Pods, PodInv(p), DOMAIN pods'[p] = {"phase", "multus"},
           pods'[p].phase \in Phases, work'[p] = work[p], dynamic'[p] = {},
           cache'[p].phase \in CachePhases, unseen'[p] \subseteq Pods
    PROVE  PodInv(p)'
BY DEF PodInv, TypeOf, ShapeOf, HandlerOK, Distinct, Unreserved

\* A handler that returned.
LEMMA PodReturns ==
    ASSUME NEW p \in Pods, PodInv(p), DOMAIN pods'[p] = {"phase", "multus"},
           pods'[p].phase \in Phases, work'[p] = Idle, dynamic'[p] = {},
           cache'[p].phase \in CachePhases, unseen'[p] \subseteq Pods
    PROVE  PodInv(p)'
<1>1. MultusOK(<<>>) BY DEF MultusOK, ToSet
<1>2. Idle.multus = <<>> /\ Idle.inUse = {} /\ DOMAIN Idle = {"todo", "multus", "inUse"} BY DEF Idle
<1> QED BY <1>1, <1>2 DEF PodInv, TypeOf, ShapeOf, HandlerOK, Distinct, Unreserved

\* The invariant holds at the start.
LEMMA IPAMInit == Init => IPAMInv
<1> SUFFICES ASSUME Init PROVE IPAMInv OBVIOUS
<1>1. FunctionsOK BY DEF Init, FunctionsOK
<1>2. ASSUME NEW p \in Pods PROVE PodInv(p)
  <2>1. MultusOK(<<>>) BY DEF MultusOK, ToSet
  <2>2. Idle.multus = <<>> /\ Idle.inUse = {} /\ DOMAIN Idle = {"todo", "multus", "inUse"} BY DEF Idle
  <2>3. work[p] = Idle /\ dynamic[p] = {} /\ unseen[p] = {} BY DEF Init
  <2>4. DOMAIN pods[p] = {"phase", "multus"} /\ pods[p].phase = "new" /\ cache[p].phase = "new"
    BY DEF Init
  <2> QED
    BY <2>1, <2>2, <2>3, <2>4
    DEF PodInv, TypeOf, ShapeOf, HandlerOK, Distinct, Unreserved, Phases, CachePhases
<1>3. ASSUME NEW p \in Pods, NEW q \in Pods PROVE KnownOK(p, q) BY DEF Init, KnownOK
<1> QED BY <1>1, <1>2, <1>3 DEF IPAMInv

-----------------------------------------------------------------------------
\* Between two pods that nobody touched nothing changes.
LEMMA KnownUntouched ==
    ASSUME NEW p \in Pods, NEW q \in Pods, KnownOK(p, q), pods'[p].phase = pods[p].phase,
           pods'[q] = pods[q], cache'[q] = cache[q] \/ cache'[q] = pods[q],
           dynamic'[p] = dynamic[p], unseen[p] \subseteq unseen'[p]
    PROVE  KnownOK(p, q)'
BY DEF KnownOK, AddressesOn

\* A pod that is not being admitted, or is not active, imposes nothing.
LEMMA KnownTrivially ==
    ASSUME NEW p \in Pods, NEW q \in Pods,
           pods'[p].phase # "admitting" \/ pods'[q].phase # "active" \/ q \in unseen'[p]
    PROVE  KnownOK(p, q)'
BY DEF KnownOK

\* Storing p adds it to what the running handlers may not know.
LEMMA UnseenGrows ==
    ASSUME NEW p \in Pods, unseen' = UnseenWith(p), \A q \in Pods : unseen[q] \subseteq Pods
    PROVE  /\ DOMAIN unseen' = Pods
           /\ \A q \in Pods : unseen'[q] \subseteq Pods
           /\ \A q \in Pods \ {p} : pods[q].phase = "admitting" =>
                 unseen[q] \subseteq unseen'[q] /\ p \in unseen'[q]
BY DEF UnseenWith

\* Once p is stored, whichever way, no handler is taken to know it.
LEMMA KnownStored ==
    ASSUME NEW p \in Pods, IPAMInv, unseen' = UnseenWith(p), pods'[p].phase = "active",
           \A q \in Pods \ {p} : pods'[q] = pods[q] /\ dynamic'[q] = dynamic[q],
           cache' = cache
    PROVE  \A q, r \in Pods : KnownOK(q, r)'
<1> SUFFICES ASSUME NEW q \in Pods, NEW r \in Pods, pods'[q].phase = "admitting" PROVE KnownOK(q, r)'
  BY DEF KnownOK
<1>1. q # p /\ pods[q].phase = "admitting" OBVIOUS
<1>2. unseen[q] \subseteq unseen'[q] /\ p \in unseen'[q]
  BY <1>1, UnseenGrows DEF IPAMInv, PodInv, TypeOf
<1>3. CASE r = p BY <1>2, <1>3, KnownTrivially
<1>4. CASE r # p BY <1>1, <1>2, <1>4, KnownUntouched DEF IPAMInv
<1> QED BY <1>3, <1>4

\* Every kind of step.
LEMMA HandleStep ==
    ASSUME IPAMInv, NEW p \in Pods, Handle(p)
    PROVE  IPAMInv'
<1> USE DEF SetPhase
<1>1. \A q \in Pods : PodInv(q) BY DEF IPAMInv
<1>2. /\ cache' = cache /\ dynamic' = dynamic /\ pods[p].phase = "new"
      /\ DOMAIN pods' = Pods /\ DOMAIN pods'[p] = {"phase", "multus"}
      /\ \A q \in Pods \ {p} : pods'[q] = pods[q]
  BY <1>1 DEF Handle, IPAMInv, FunctionsOK, PodInv, ShapeOf
<1>3. dynamic[p] = {} BY <1>1, <1>2 DEF PodInv, HandlerOK
<1>4. CASE Secondary(p) = <<>>
  <2>1. work' = work /\ unseen' = UnseenWith(p) /\ pods'[p].phase = "active"
    BY <1>1, <1>4 DEF Handle, IPAMInv, FunctionsOK, PodInv, ShapeOf
  <2>2. /\ DOMAIN unseen' = Pods
        /\ \A q \in Pods : unseen'[q] \subseteq Pods
    BY <2>1, <1>1, UnseenGrows DEF PodInv, TypeOf
  <2>3. \A q \in Pods : cache'[q].phase \in CachePhases BY <1>1, <1>2 DEF PodInv, TypeOf
  <2>4. PodInv(p)' BY <1>1, <1>2, <1>3, <2>1, <2>2, <2>3, PodMoves DEF Phases
  <2>5. ASSUME NEW q \in Pods \ {p} PROVE PodInv(q)'
    BY <1>1, <1>2, <2>1, <2>2, <2>3, PodUntouched
  <2>6. \A q, r \in Pods : KnownOK(q, r)' BY <1>2, <2>1, KnownStored
  <2>7. FunctionsOK' BY <1>2, <2>1, <2>2 DEF IPAMInv, FunctionsOK
  <2> QED BY <2>4, <2>5, <2>6, <2>7 DEF IPAMInv
<1>5. CASE Secondary(p) # <<>>
  <2> DEFINE m == PodSpec[p].multus
             used == UNION {e.ips : e \in ToSet(m)}
             fresh == {q \in Pods : pods[q].phase = "active" /\ cache[q] # pods[q]}
  <2>1. /\ pods'[p].phase = "admitting"
        /\ work' = [work EXCEPT ![p] = [todo |-> Secondary(p), multus |-> m, inUse |-> used]]
        /\ unseen' = [unseen EXCEPT ![p] = fresh]
    BY <1>1, <1>5 DEF Handle, IPAMInv, FunctionsOK, PodInv, ShapeOf
  <2>2. FunctionsOK' BY <1>2, <2>1 DEF IPAMInv, FunctionsOK
  <2>3. /\ DOMAIN work'[p] = {"todo", "multus", "inUse"}
        /\ work'[p].multus = m /\ work'[p].inUse = used
        /\ unseen'[p] = fresh
        /\ \A q \in Pods \ {p} : work'[q] = work[q] /\ unseen'[q] = unseen[q]
    BY <2>1 DEF IPAMInv, FunctionsOK
  <2>4. MultusOK(m) BY SpecIsMultus
  <2>5. used \subseteq Nat /\ \A i \in DOMAIN m : m[i].ips \subseteq used
    BY SpecIsMultus DEF ToSet
  <2>6. fresh \subseteq Pods OBVIOUS
  <2>7. \A q \in Pods : cache'[q].phase \in CachePhases /\ unseen'[q] \subseteq Pods
    BY <1>1, <1>2, <2>3 DEF PodInv, TypeOf
  <2>8. ASSUME NEW q \in Pods, pods[q].phase = "active", q \notin fresh PROVE cache[q] = pods[q]
    BY <2>8
  <2> HIDE DEF m, used, fresh
  <2>9. PodInv(p)'
    BY <1>2, <1>3, <2>1, <2>3, <2>4, <2>5, <2>6, <2>7
    DEF PodInv, TypeOf, ShapeOf, HandlerOK, Distinct, Phases
  <2>10. ASSUME NEW q \in Pods \ {p} PROVE PodInv(q)' BY <1>1, <1>2, <2>3, <2>7, PodUntouched
  <2>11. ASSUME NEW q \in Pods, NEW r \in Pods PROVE KnownOK(q, r)'
    <3>1. CASE r = p BY <3>1, <2>1, KnownTrivially
    <3>2. CASE r # p /\ q # p BY <3>2, <1>2, <2>3, KnownUntouched DEF IPAMInv
    <3>3. CASE r # p /\ q = p BY <3>3, <1>2, <1>3, <2>3, <2>8 DEF KnownOK
    <3> QED BY <3>1, <3>2, <3>3
  <2> QED BY <2>2, <2>9, <2>10, <2>11 DEF IPAMInv
<1> QED BY <1>4, <1>5

LEMMA KeepAddressStep ==
    ASSUME IPAMInv, NEW p \in Pods, KeepAddress(p)
    PROVE  IPAMInv'
<1> DEFINE m == work[p].multus
           n == Merged(p, {})
<1>1. \A q \in Pods : PodInv(q) BY DEF IPAMInv
<1>2. /\ UNCHANGED <<pods, cache, dynamic, unseen>> /\ ~NeedsAddress(p)
      /\ work' = [work EXCEPT ![p].todo = Tail(@), ![p].multus = n]
  BY DEF KeepAddress
<1>3. FunctionsOK' BY <1>2 DEF IPAMInv, FunctionsOK
<1>4. /\ DOMAIN work'[p] = {"todo", "multus", "inUse"}
      /\ work'[p].multus = n /\ work'[p].inUse = work[p].inUse
      /\ \A q \in Pods \ {p} : work'[q] = work[q]
  <2> HIDE DEF n
  <2> QED BY <1>1, <1>2 DEF IPAMInv, FunctionsOK, PodInv, ShapeOf
<1>5. MultusOK(m) BY <1>1 DEF PodInv, ShapeOf
<1>6. PICK k \in DOMAIN m : Changed(m, n, k, m[k].ips) BY <1>2, <1>5, MergedChanges
<1> HIDE DEF m, n
<1>7. MultusOK(n) /\ \A i \in DOMAIN n : i \in DOMAIN m /\ n[i].ips = m[i].ips BY <1>6 DEF Changed
<1>8. \A q \in Pods : cache'[q].phase \in CachePhases /\ unseen'[q] \subseteq Pods
  BY <1>1, <1>2 DEF PodInv, TypeOf
<1>9. ASSUME NEW q \in Pods \ {p} PROVE PodInv(q)' BY <1>1, <1>2, <1>4, <1>8, PodUntouched
<1>10. PodInv(p)'
  <2>1. TypeOf(p)' BY <1>1, <1>2, <1>4 DEF PodInv, TypeOf
  <2>2. ShapeOf(p)' BY <1>1, <1>2, <1>4, <1>7 DEF PodInv, ShapeOf
  <2>3. HandlerOK(p)' BY ZenonT(40), <1>1, <1>2, <1>4, <1>7 DEF PodInv, HandlerOK, m
  <2>4. Distinct(p)'
    <3>1. dynamic'[p] = dynamic[p] BY <1>2
    <3>2. Distinct(p) BY <1>1 DEF PodInv
    <3> QED BY <1>4, <1>7, <3>1, <3>2 DEF Distinct, m
  <2>5. \A d \in dynamic'[p] : Unreserved(d)' BY <1>1, <1>2 DEF PodInv, Unreserved
  <2> QED BY <2>1, <2>2, <2>3, <2>4, <2>5 DEF PodInv
<1>11. ASSUME NEW q \in Pods, NEW r \in Pods PROVE KnownOK(q, r)'
  BY <1>2, KnownUntouched DEF IPAMInv
<1> QED BY <1>3, <1>9, <1>10, <1>11 DEF IPAMInv

\* A granted address is none of a pod that the cache shows as it is.
LEMMA GrantedAvoids ==
    ASSUME NEW p \in Pods, NEW q \in Pods, NEW n, NEW cidrs, NEW ip,
           Granted(ip, cache, n, cidrs, work[p].inUse), cache[q] = pods[q], pods[q].phase = "active"
    PROVE  ip \notin AddressesOn(pods[q].multus, n)
BY DEF Granted, InUse

LEMMA AllocateAddressStep ==
    ASSUME IPAMInv, NEW p \in Pods, AllocateAddress(p)
    PROVE  IPAMInv'
<1>1. \A q \in Pods : PodInv(q) BY DEF IPAMInv
<1>2. PICK cidrs, net, ip :
         /\ net = Sec(p).network /\ net \in Networks
         /\ ip = AllocateSecondaryIP(cache, net, cidrs, work[p].inUse)
         /\ ip # NoIP
         /\ work' = [work EXCEPT ![p] = Allocated(p, ip)]
         /\ dynamic' = [dynamic EXCEPT ![p] =
               dynamic[p] \cup {[network |-> net, ip |-> ip, cidrs |-> cidrs]}]
  BY DEF AllocateAddress
<1>3. /\ UNCHANGED <<pods, cache, unseen>> /\ NeedsAddress(p) /\ pods[p].phase = "admitting"
  BY DEF AllocateAddress, Merging
<1> DEFINE m == work[p].multus
           n == Merged(p, {ip})
           new == [network |-> net, ip |-> ip, cidrs |-> cidrs]
<1>4. Granted(ip, cache, net, cidrs, work[p].inUse) BY <1>2, AllocateGrants
<1>5. new.network = net /\ new.ip = ip /\ new.cidrs = cidrs OBVIOUS
<1>6. FunctionsOK' BY <1>2, <1>3 DEF IPAMInv, FunctionsOK
<1>7. /\ DOMAIN work'[p] = {"todo", "multus", "inUse"}
      /\ work'[p].multus = n /\ work'[p].inUse = work[p].inUse \cup {ip}
      /\ \A q \in Pods \ {p} : work'[q] = work[q]
  <2> HIDE DEF n
  <2> QED BY <1>2 DEF IPAMInv, FunctionsOK, Allocated, n
<1>8. /\ dynamic'[p] = dynamic[p] \cup {new}
      /\ \A q \in Pods \ {p} : dynamic'[q] = dynamic[q]
  BY <1>2 DEF IPAMInv, FunctionsOK
<1>9. MultusOK(m) BY <1>1 DEF PodInv, ShapeOf
<1>10. PICK k : Changed(m, n, k, {ip}) BY <1>3, <1>9, MergedChanges
<1> HIDE DEF m, n, new
<1>11. /\ MultusOK(n)
       /\ k \in DOMAIN n /\ n[k].ips = {ip}
       /\ \A i \in DOMAIN n : i # k => i \in DOMAIN m /\ n[i] = m[i]
  BY <1>10 DEF Changed
<1>12. \A i \in DOMAIN m : m[i].ips \subseteq work[p].inUse BY <1>1 DEF PodInv, HandlerOK, m
<1>13. \A i \in DOMAIN m : ip \notin m[i].ips BY <1>4, <1>12 DEF Granted
<1>14. \A q \in Pods : cache'[q].phase \in CachePhases /\ unseen'[q] \subseteq Pods
  BY <1>1, <1>3 DEF PodInv, TypeOf
<1>15. ASSUME NEW q \in Pods \ {p} PROVE PodInv(q)'
  BY <1>1, <1>3, <1>7, <1>8, <1>14, PodUntouched
<1>16. PodInv(p)'
  <2>1. TypeOf(p)'
    <3>1. ip \in Nat \ {NoIP} BY <1>4 DEF Granted
    <3> QED BY <1>1, <1>2, <1>3, <1>5, <1>7, <1>8, <3>1 DEF PodInv, TypeOf
  <2>2. ShapeOf(p)' BY <1>1, <1>3, <1>7, <1>11 DEF PodInv, ShapeOf
  <2>3. HandlerOK(p)' BY <1>3, <1>7, <1>11, <1>12 DEF HandlerOK
  <2>4. Distinct(p)'
    <3> SUFFICES ASSUME NEW i \in DOMAIN n, NEW j \in DOMAIN n, NEW d \in dynamic[p] \cup {new},
                        i # j, d.ip \in n[i].ips, d.ip \in n[j].ips
                 PROVE  FALSE
      BY <1>7, <1>8 DEF Distinct
    <3>1. i # k /\ j # k BY <1>11, <1>13
    <3>2. d # new BY <1>5, <1>11, <1>13, <3>1
    <3> QED BY <1>1, <1>11, <3>1, <3>2 DEF PodInv, Distinct, m
  <2>5. Unreserved(new) BY <1>2, <1>4, <1>5, GrantedIsFree DEF Unreserved, Granted
  <2>6. \A d \in dynamic'[p] : Unreserved(d)'
    <3> SUFFICES ASSUME NEW d \in dynamic[p] \cup {new} PROVE Unreserved(d)' BY <1>8
    <3> QED BY <1>1, <2>5 DEF PodInv, Unreserved
  <2> QED BY <2>1, <2>2, <2>3, <2>4, <2>6 DEF PodInv
<1>17. ASSUME NEW q \in Pods, NEW r \in Pods PROVE KnownOK(q, r)'
  <2>1. KnownOK(q, r) BY DEF IPAMInv
  <2>2. CASE q # p BY <2>1, <2>2, <1>3, <1>8, KnownUntouched
  <2>3. CASE q = p
    <3> SUFFICES ASSUME pods[r].phase = "active", r \notin unseen[p] PROVE KnownOK(p, r)'
      BY <2>3, <1>3 DEF KnownOK
    <3>1. cache[r] = pods[r] /\ \A d \in dynamic[p] : d.ip \notin AddressesOn(pods[r].multus, d.network)
      BY <2>1, <2>3, <1>3 DEF KnownOK
    <3>2. new.ip \notin AddressesOn(pods[r].multus, new.network) BY <1>4, <1>5, <3>1, GrantedAvoids
    <3>3. \A d \in dynamic'[p] : d.ip \notin AddressesOn(pods[r].multus, d.network) BY <1>8, <3>1, <3>2
    <3> QED BY <1>3, <3>1, <3>3 DEF KnownOK, AddressesOn
  <2> QED BY <2>2, <2>3
<1> QED BY <1>6, <1>15, <1>16, <1>17 DEF IPAMInv

LEMMA RejectPodStep ==
    ASSUME IPAMInv, NEW p \in Pods, RejectPod(p)
    PROVE  IPAMInv'
<1>1. \A q \in Pods : PodInv(q) BY DEF IPAMInv
<1>2. /\ cache' = cache /\ work'[p] = Idle /\ dynamic'[p] = {} /\ unseen'[p] = {}
      /\ pods'[p].phase = "rejected" /\ DOMAIN pods'[p] = {"phase", "multus"}
      /\ \A q \in Pods \ {p} : /\ pods'[q] = pods[q] /\ work'[q] = work[q]
                               /\ dynamic'[q] = dynamic[q] /\ unseen'[q] = unseen[q]
  BY <1>1 DEF RejectPod, SetPhase, Return, IPAMInv, FunctionsOK, PodInv, ShapeOf
<1>3. FunctionsOK' BY DEF RejectPod, SetPhase, Return, IPAMInv, FunctionsOK
<1>4. \A q \in Pods : cache'[q].phase \in CachePhases /\ unseen'[q] \subseteq Pods
  BY <1>1, <1>2 DEF PodInv, TypeOf
<1>5. PodInv(p)' BY <1>1, <1>2, <1>4, PodReturns DEF Phases
<1>6. ASSUME NEW q \in Pods \ {p} PROVE PodInv(q)' BY <1>1, <1>2, <1>4, PodUntouched
<1>7. ASSUME NEW q \in Pods, NEW r \in Pods PROVE KnownOK(q, r)'
  <2>1. CASE q = p \/ r = p BY <2>1, <1>2, KnownTrivially
  <2>2. CASE q # p /\ r # p BY <2>2, <1>2, KnownUntouched DEF IPAMInv
  <2> QED BY <2>1, <2>2
<1> QED BY <1>3, <1>5, <1>6, <1>7 DEF IPAMInv

LEMMA StoreStep ==
    ASSUME IPAMInv, NEW p \in Pods, Store(p)
    PROVE  IPAMInv'
<1>1. \A q \in Pods : PodInv(q) BY DEF IPAMInv
<1>2. /\ cache' = cache /\ work'[p] = Idle /\ dynamic'[p] = {} /\ unseen' = UnseenWith(p)
      /\ pods'[p].phase = "active" /\ DOMAIN pods'[p] = {"phase", "multus"}
      /\ \A q \in Pods \ {p} : pods'[q] = pods[q] /\ work'[q] = work[q] /\ dynamic'[q] = dynamic[q]
  BY DEF Store, Return, IPAMInv, FunctionsOK
<1>3. DOMAIN unseen' = Pods /\ \A q \in Pods : unseen'[q] \subseteq Pods
  BY <1>1, <1>2, UnseenGrows DEF PodInv, TypeOf
<1>4. FunctionsOK' BY <1>3 DEF Store, Return, IPAMInv, FunctionsOK
<1>5. \A q \in Pods : cache'[q].phase \in CachePhases BY <1>1, <1>2 DEF PodInv, TypeOf
<1>6. PodInv(p)' BY <1>1, <1>2, <1>3, <1>5, PodReturns DEF Phases
<1>7. ASSUME NEW q \in Pods \ {p} PROVE PodInv(q)' BY <1>1, <1>2, <1>3, <1>5, PodUntouched
<1>8. \A q, r \in Pods : KnownOK(q, r)' BY <1>2, KnownStored
<1> QED BY <1>4, <1>6, <1>7, <1>8 DEF IPAMInv

LEMMA PodEndsStep ==
    ASSUME IPAMInv, NEW p \in Pods, PodEnds(p)
    PROVE  IPAMInv'
<1>1. \A q \in Pods : PodInv(q) BY DEF IPAMInv
<1>2. /\ UNCHANGED <<cache, work, dynamic, unseen>>
      /\ pods[p].phase = "active" /\ pods'[p].phase = "ended" /\ DOMAIN pods'[p] = {"phase", "multus"}
      /\ \A q \in Pods \ {p} : pods'[q] = pods[q]
  BY <1>1 DEF PodEnds, SetPhase, IPAMInv, FunctionsOK, PodInv, ShapeOf
<1>3. FunctionsOK' BY DEF PodEnds, SetPhase, IPAMInv, FunctionsOK
<1>4. \A q \in Pods : cache'[q].phase \in CachePhases /\ unseen'[q] \subseteq Pods
  BY <1>1, <1>2 DEF PodInv, TypeOf
<1>5. dynamic[p] = {} BY <1>1, <1>2 DEF PodInv, HandlerOK
<1>6. PodInv(p)' BY <1>1, <1>2, <1>4, <1>5, PodMoves DEF Phases
<1>7. ASSUME NEW q \in Pods \ {p} PROVE PodInv(q)' BY <1>1, <1>2, <1>4, PodUntouched
<1>8. ASSUME NEW q \in Pods, NEW r \in Pods PROVE KnownOK(q, r)'
  <2>1. CASE q = p \/ r = p BY <2>1, <1>2, KnownTrivially
  <2>2. CASE q # p /\ r # p BY <2>2, <1>2, KnownUntouched DEF IPAMInv
  <2> QED BY <2>1, <2>2
<1> QED BY <1>3, <1>6, <1>7, <1>8 DEF IPAMInv

LEMMA CacheSyncStep ==
    ASSUME IPAMInv, NEW p \in Pods, CacheSync(p)
    PROVE  IPAMInv'
<1>1. \A q \in Pods : PodInv(q) BY DEF IPAMInv
<1>2. /\ UNCHANGED <<pods, work, dynamic, unseen>> /\ pods[p].phase \in {"active", "ended"}
      /\ cache'[p] = pods[p] /\ \A q \in Pods \ {p} : cache'[q] = cache[q]
  BY DEF CacheSync, IPAMInv, FunctionsOK
<1>3. FunctionsOK' BY DEF CacheSync, IPAMInv, FunctionsOK
<1>4. \A q \in Pods : cache'[q].phase \in CachePhases /\ unseen'[q] \subseteq Pods
  BY <1>1, <1>2 DEF PodInv, TypeOf, CachePhases
<1>5. ASSUME NEW q \in Pods PROVE PodInv(q)' BY <1>1, <1>2, <1>4, PodUntouched
<1>6. ASSUME NEW q \in Pods, NEW r \in Pods PROVE KnownOK(q, r)'
  BY <1>2, KnownUntouched DEF IPAMInv
<1> QED BY <1>3, <1>5, <1>6 DEF IPAMInv

\* Nothing happens.
LEMMA StutterStep ==
    ASSUME IPAMInv, UNCHANGED vars
    PROVE  IPAMInv'
<1>1. UNCHANGED <<pods, cache, work, dynamic, unseen>> BY DEF vars
<1>2. FunctionsOK' BY <1>1 DEF IPAMInv, FunctionsOK
<1>3. ASSUME NEW q \in Pods PROVE PodInv(q)'
  BY <1>1, PodUntouched DEF IPAMInv, PodInv, TypeOf
<1>4. ASSUME NEW q \in Pods, NEW r \in Pods PROVE KnownOK(q, r)'
  BY <1>1, KnownUntouched DEF IPAMInv
<1> QED BY <1>2, <1>3, <1>4 DEF IPAMInv

-----------------------------------------------------------------------------
\* Whatever is admitted concurrently and however far the cache lags, the webhook keeps
\* the inductive invariant.
THEOREM IPAMInvariant == Spec => []IPAMInv
<1>1. IPAMInv /\ [Next]_vars => IPAMInv'
  BY HandleStep, KeepAddressStep, AllocateAddressStep, RejectPodStep, StoreStep, PodEndsStep,
     CacheSyncStep, StutterStep DEF Next
<1> QED BY IPAMInit, <1>1, PTL DEF Spec

\* Type correctness; in particular a failed allocation (no address, unknown network) is
\* never recorded as an address.
THEOREM IPAMTypeCorrect == Spec => []TypeOK
<1>1. IPAMInv => TypeOK BY DEF IPAMInv, PodInv, TypeOf, TypeOK, Phases, CachePhases
<1> QED BY <1>1, IPAMInvariant, PTL

\* For every network, prefix length and list of VIPs and gateway CIDRs: allocateSecondaryIP
\* gives out host addresses of the subnet only, and none that is reserved.
THEOREM AllocationIsNeverReserved == Spec => []NeverReserved
<1>1. IPAMInv => NeverReserved BY DEF IPAMInv, PodInv, Unreserved, NeverReserved
<1> QED BY <1>1, IPAMInvariant, PTL

\* The interfaces of one pod get different addresses, however many it has, and whatever
\* entries and addresses its Multus annotation brings.
THEOREM OwnAddressesDiffer == Spec => []OwnAddressesDistinct
<1>1. IPAMInv => OwnAddressesDistinct
  <2> SUFFICES ASSUME IPAMInv, NEW p \in Pods, NEW i \in DOMAIN work[p].multus,
                      NEW j \in DOMAIN work[p].multus, i # j
               PROVE  work[p].multus[i].ips \cap work[p].multus[j].ips
                      \cap {d.ip : d \in dynamic[p]} = {}
    BY DEF OwnAddressesDistinct
  <2>1. \A d \in dynamic[p] : ~(d.ip \in work[p].multus[i].ips /\ d.ip \in work[p].multus[j].ips)
    BY DEF IPAMInv, PodInv, Distinct
  <2> QED BY <2>1
<1> QED BY <1>1, IPAMInvariant, PTL

\* When a pod is stored, an address allocated to it can clash only with pods that its
\* handler could not know of: the race is the only way to a collision.
THEOREM OnlyUnseenPodsClash == Spec => OnlyUnseenClash
<1> DEFINE Seen == \A p \in Pods : pods[p].phase = "admitting" => Clashes(p) \subseteq unseen[p]
<1>1. IPAMInv => Seen
  <2> SUFFICES ASSUME IPAMInv, NEW p \in Pods, pods[p].phase = "admitting",
                      NEW q \in Clashes(p), q \notin unseen[p]
               PROVE  FALSE
    OBVIOUS
  <2>1. /\ q \in Pods /\ pods[q].phase = "active"
        /\ \E d \in dynamic[p] : d.ip \in AddressesOn(pods[q].multus, d.network)
    BY DEF Clashes
  <2> QED BY <2>1 DEF IPAMInv, KnownOK
<1>2. Seen => [\A p \in Pods : pods[p].phase = "admitting" /\ pods'[p].phase = "active"
                                => Clashes(p) \subseteq unseen[p]]_vars
  OBVIOUS
<1> HIDE DEF Seen
<1> QED BY <1>1, <1>2, IPAMInvariant, PTL DEF OnlyUnseenClash
=============================================================================
