SPECIFICATION FairSpec
CONSTANTS
    ns1 = ns1
    ns2 = ns2
    svc1 = svc1
    vlan1 = vlan1
    vlan2 = vlan2
    range1 = range1
    Namespaces <- TwoNamespaces
    Services <- OneService
    NamespaceOf <- OneHome
    Specs <- SomeSpecs
    MaxFaults = 1
    MaxChanges = 3
INVARIANTS
    TypeOK
    ChildrenGuarded
    BoundWasPermitted
PROPERTIES
    NoPosthumousChild
    ReadyIsEarned
    Converges
    DeletionCompletes
CHECK_DEADLOCK FALSE
