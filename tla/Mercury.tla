------------------------------ MODULE Mercury ------------------------------
(***************************************************************************)
(* The parts of Mercury beside the ring that theorems are proved about,    *)
(* put together: "machine" is the part that runs, v1 .. v5 are its         *)
(* variables, and every other part stands still.  They share no state in   *)
(* the code either: what one part makes of another is an input of its own  *)
(* module.                                                                 *)
(***************************************************************************)
EXTENDS Integers, Sequences

CONSTANTS
    Machines,               \* the parts to run
    None,
    HubNode,                \* the nodes of a hub, how many successors they keep,
    NSuccessorsToKeep,      \*   and how the hub comes about
    BootstrapScenarios,
    RingOrder,              \* the nodes of a ring along it, its last value,
    RingMax,                \*   loadbal_delta, and where loads lie
    Delta,
    BalanceScenarios,
    EventEntry,             \* a scheduler's objects and events, with its bounds
    Timer,
    MaxDelay,
    MaxTime,
    App,                    \* an application, its node, and what either calls
    AppNode,
    CallScenarios,
    StreamNode,             \* nodes that write to each other over TCP
    StreamScenarios,
    Proto,                  \* a node's transports, how they are read,
    Datagram,               \*   and how long one bandwidth measurement is
    AppQueueSize,
    MaxPktsService,
    BucketSize,
    NetBroken,
    NetClosed,
    NetScenarios

VARIABLES machine, v1, v2, v3, v4, v5

vars == <<machine, v1, v2, v3, v4, v5>>

-----------------------------------------------------------------------------
(***************************************************************************)
(* The bootstrap server and the nodes of its hub.                          *)
(***************************************************************************)

Booting == INSTANCE BootstrapProofs WITH
    conf <- v1, faults <- v2, server <- v3, node <- v4, net <- v5,
    Node <- HubNode, None <- None, NSuccessorsToKeep <- NSuccessorsToKeep,
    Scenarios <- BootstrapScenarios

\* No joiners wait for one another to let them in (HandleBootstrapRequest).
RepsLeadIn == machine = "bootstrap" => Booting!RepsLeadIn
\* After the all clear the expected nodes are in (CheckAllJoined).
AllClear == machine = "bootstrap" => Booting!AllClear
\* One ring is built, and in a static one the places fit (ReadIdentMap).
OneRingBuilt == machine = "bootstrap" => Booting!OneRingBuilt

-----------------------------------------------------------------------------
(***************************************************************************)
(* Load balancing.                                                         *)
(***************************************************************************)

Balance == INSTANCE LoadBalanceProofs WITH
    conf <- v1, left <- v2, node <- v3, net <- v4,
    Order <- RingOrder, None <- None, AbsMax <- RingMax, Delta <- Delta,
    Scenarios <- BalanceScenarios

\* Ranges that move stay a partition of the values, but for answers on their way
\* (HandleLocalLBRequest, HandleLocalLBResponse).
Partition == machine = "balance" => Balance!Partition
\* Neighbours never leave at a time, and what a busy node waits for can still come, unless its own
\* check was lost, its successor left or there was nobody left to ask (LoadBalancer.cpp).
LeavesAlone == machine = "balance" => Balance!LeavesAlone

-----------------------------------------------------------------------------
(***************************************************************************)
(* A scheduler.                                                            *)
(***************************************************************************)

Timers == INSTANCE Scheduler WITH
    conf <- v1, time <- v2, queue <- v3, running <- v4, seen <- v5,
    Entry <- EventEntry, Timer <- Timer, MaxDelay <- MaxDelay, MaxTime <- MaxTime

\* Every entry that was raised is executed once and then goes (WANScheduler.cpp:60).
RunsOnce == machine = "scheduler" => Timers!RunsOnce

-----------------------------------------------------------------------------
(***************************************************************************)
(* An application in a process of its own.                                 *)
(***************************************************************************)

Remote == INSTANCE RemoteCallsProofs WITH
    conf <- v1, proc <- v2, wire <- v3, samplers <- v4, log <- v5,
    App <- App, Node <- AppNode, None <- None, Scenarios <- CallScenarios

\* Every call returns the result that was sent back for it (the stubs of node and application).
OwnResult == machine = "calls" => Remote!OwnResult

-----------------------------------------------------------------------------
(***************************************************************************)
(* Messages over TCP.                                                      *)
(***************************************************************************)

Streams == INSTANCE TCPProofs WITH
    conf <- v1, left <- v2, conn <- v3, net <- v4, got <- v5,
    Node <- StreamNode, None <- None, Scenarios <- StreamScenarios

\* Messages are given whole, and in the order they were sent (PerformRead, GetConnection).
WholeAndInOrder == machine = "tcp" => Streams!WholeAndInOrder
\* No message waits in a connection nobody reads (_RegisterNewTCPConnections).
NothingStranded == machine = "tcp" => Streams!NothingStranded

-----------------------------------------------------------------------------
(***************************************************************************)
(* The network layer above a node's transports.                            *)
(***************************************************************************)

Layer == INSTANCE RealNet WITH
    conf <- v1, now <- v2, queue <- v3, window <- v4, past <- v5,
    Proto <- Proto, Datagram <- Datagram, BucketSize <- BucketSize, AppQueueSize <- AppQueueSize,
    MaxPktsService <- MaxPktsService, Broken <- NetBroken, Closed <- NetClosed, Scenarios <- NetScenarios

\* The bandwidth used that is told is that of the packets in the window
\* (RecordOutbound, GetOutboundUsage).
UsageTold == machine = "net" => Layer!UsageTold

-----------------------------------------------------------------------------

ASSUME MercuryAssumption ==
    /\ Booting!BootstrapAssumption /\ Balance!WholeAssumption
    /\ Remote!CallsAssumption /\ Streams!TCPAssumption
    /\ Layer!RealNetAssumption

Init ==
    /\ machine \in Machines
    /\ \/ machine = "bootstrap" /\ Booting!Init
       \/ machine = "balance" /\ Balance!Init /\ v5 = None
       \/ machine = "scheduler" /\ Timers!Init
       \/ machine = "calls" /\ Remote!Init
       \/ machine = "tcp" /\ Streams!Init
       \/ machine = "net" /\ Layer!Init

Next ==
    \/ machine = "bootstrap" /\ Booting!Next /\ UNCHANGED machine
    \/ machine = "balance" /\ Balance!Next /\ UNCHANGED <<machine, v5>>
    \/ machine = "scheduler" /\ Timers!Next /\ UNCHANGED machine
    \/ machine = "calls" /\ Remote!Next /\ UNCHANGED machine
    \/ machine = "tcp" /\ Streams!Next /\ UNCHANGED machine
    \/ machine = "net" /\ Layer!Next /\ UNCHANGED machine

Spec == Init /\ [][Next]_vars
=============================================================================
