CONSTANTS
    n1 = n1
    n2 = n2
    p1 = p1
    p2 = p2
    s1 = s1
    None = None
    Networks <- MCNetworks
    CidrNetworks <- MCCidrNetworks
    Pods <- MCPods
    Selectors <- MCSelectors
    NetworkOf <- MCNetworkOf
    Selects <- MCSelects
    Specs <- MCSpecs
    MaxFaults = 2
    MaxChanges = 3

SPECIFICATION FairSpec

INVARIANTS
    TypeOK
    ChildrenGuarded
    SliceOnOneNetwork

PROPERTIES
    Converges
    DeletionCompletes
CHECK_DEADLOCK FALSE
