SPECIFICATION MCSpec
CONSTANTS
    Machines = {"pubsub", "bootstrap", "balance", "tcp", "datagrams", "wire", "scheduler", "node",
                "links", "numbers", "net", "calls"}
    None = None
    HubNode = {"a", "b", "c"}
    NSuccessorsToKeep = 2
    BootstrapScenarios <- MCBootstrapScenarios
    RingOrder <- MCRingOrder
    RingMax = 16
    Delta = 2
    BalanceScenarios <- MCBalanceScenarios
    EventEntry = {"e1", "e2", "e3"}
    Timer = {"t"}
    MaxDelay = 1
    MaxTime = 2
    App = "app"
    AppNode = "node"
    CallScenarios <- MCCallScenarios
    StreamNode = {"a", "b", "c"}
    StreamScenarios <- MCStreamScenarios
    Proto = {"udp", "tcp"}
    Datagram = "udp"
    AppQueueSize = 1
    MaxPktsService = 2
    BucketSize = 3
    NetBroken = NetBroken
    NetClosed = NetClosed
    NetScenarios <- MCNetScenarios
    Trial = None
INVARIANTS
    NoMatchLost MatchedOnce HopsAdvance
    RepsLeadIn AllClear OneRingBuilt
     LeavesAlone
    WholeAndInOrder NothingStranded
    QueuesServe
    CarriedWhole
    RunsOnce
    EventsArrive
    RepairsBounded LoadsKnown
    NumbersKept UsageTold OwnResult
PROPERTIES
    TriggersFollow LivingLinksStay EverybodyStarts EveryTransportHeard CallsReturn
CHECK_DEADLOCK FALSE
