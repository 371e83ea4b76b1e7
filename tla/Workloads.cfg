SPECIFICATION FairSpec
CONSTANTS
    c1 = c1
    c2 = c2
    vm1 = vm1
    pod1 = pod1
    pod2 = pod2
    node1 = node1
    node2 = node2
    net1 = net1
    net2 = net2
    sync1 = sync1
    proj1 = proj1
    m1 = m1
    m2 = m2
    NoCluster = NoCluster
    NoObject = NoObject
    Clusters <- TwoClusters
    VMs <- OneVM
    Pods <- TwoPods
    NumRequests = 3
    Inventory <- SomeInventory
    PrimaryNetworks <- OnePrimary
    ConfiguredNetworks <- OneConfigured
    Projects <- OneProject
    Membership <- TwoMembers
    Scenarios <- SomeScenarios
    NoText = NoText
    Empty = ""
    Text <- SomeText
    Placeholders <- SomePlaceholders
    Strip <- SomeStrip
    RegionPart <- SomeRegionPart
    Length <- SomeLength
    ZoneNames <- SomeZones
    RegionNames <- SomeRegions
    ProjectIds <- SomeProjects
    Emails <- SomeEmails
    ServiceAccount <- SomeServiceAccount
    StateBucket <- SomeStateBucket
    FallbackZone = "us-central1-a"
    FallbackRegion = "us-central1"
    FallbackProject = "gem-default-project"
INVARIANTS
    TypeOK
    SuccessMeansDone
    RefusalIsDefinite
    LeftoverIsKilled
    ReadYourWrites
    NoResurrection
PROPERTIES
    EveryRequestAnswered
CHECK_DEADLOCK FALSE
