SPECIFICATION Spec
CONSTANTS
    a = a
    b = b
    c = c
    d = d
    net = net
    Pods <- AllPods
    Networks <- AllNetworks
    PrimaryNetworks <- Primary
    Texts <- AllTexts
    PodSpec <- Specs
    NetworkSpec <- Nets
INVARIANTS
    TypeOK
    NeverReserved
    OwnAddressesDistinct
PROPERTIES
    OnlyUnseenClash
CHECK_DEADLOCK FALSE
