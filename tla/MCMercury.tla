------------------------------ MODULE MCMercury ------------------------------
(***************************************************************************)
(* The parts of Mercury beside the ring, checked in one run: those of the  *)
(* module Mercury, and the parts that nothing is proved about.             *)
(***************************************************************************)
EXTENDS Mercury

CONSTANT Trial      \* "leave": a node leaves the ring that carries publications; else None

-----------------------------------------------------------------------------
(***************************************************************************)
(* Publications and subscriptions: four nodes a, b, c, d.                  *)
(***************************************************************************)

Ring(p, q, r, s) ==
    LET R(x, y) == [min |-> x, max |-> y]
    IN  [n \in {"a", "b", "c", "d"} |->
            CASE n = "a" -> R(p, q) [] n = "b" -> R(q, r) [] n = "c" -> R(r, s)
              [] n = "d" -> R(s, IF p = 0 THEN 8 ELSE p)]

Item(kind, id, by, min, max) ==
    [kind |-> kind, id |-> id, by |-> by, cst |-> [min |-> min, max |-> max]]

Standing ==
    [ranges |-> Ring(0, 2, 4, 6), far |-> FALSE, triggers |-> TRUE, backpub |-> FALSE,
     fanout |-> FALSE, lapse |-> FALSE, outsider |-> None, rep |-> None,
     joiner |-> None, leave |-> None,
     queue |-> <<Item("SUB", "s1", "a", 1, 5), Item("PUB", "p1", "c", 3, 7)>>]

PubSubScenarios ==
    LET wide == [Standing EXCEPT !.ranges = Ring(0, 2, 5, 7)]
        left == [Standing EXCEPT !.ranges = [Ring(0, 2, 5, 8) EXCEPT !["d"] = None]]
    IN  IF Trial = "leave" THEN {[left EXCEPT !.leave = "b"]}
        ELSE {[Standing EXCEPT !.far = f, !.triggers = t] : f, t \in BOOLEAN}
             \cup {[Standing EXCEPT !.ranges = Ring(7, 1, 3, 5), !.far = f,
                       !.queue = <<Item("SUB", "s1", "a", 2, 6), Item("PUB", "p1", "c", 4, 4)>>] :
                   f \in BOOLEAN}
             \cup {[wide EXCEPT !.fanout = TRUE, !.far = TRUE, !.triggers = FALSE,
                       !.queue = <<Item("SUB", "s1", "a", 1, 6), Item("PUB", "p1", "c", 4, 4),
                                   Item("PUB", "p2", "d", 2, 8)>>],
                   [wide EXCEPT !.lapse = TRUE,
                       !.queue = <<Item("SUB", "s1", "a", 1, 3), Item("PUB", "p1", "b", 1, 1)>>],
                   [left EXCEPT !.outsider = "d", !.rep = "b", !.backpub = TRUE,
                       !.queue = <<Item("SUB", "s1", "d", 1, 5), Item("PUB", "p1", "a", 5, 5)>>],
                   [left EXCEPT !.joiner = "d",
                       !.queue = <<Item("SUB", "s1", "a", 1, 3), Item("PUB", "p1", "c", 3, 7)>>]}

P == INSTANCE PubSub WITH
    conf <- v1, node <- v2, net <- v3, pipe <- v4, got <- v5,
    Node <- {"a", "b", "c", "d"}, None <- None, AbsMax <- 8, MaxMessageTTL <- 6,
    Scenarios <- PubSubScenarios

NoMatchLost == machine = "pubsub" => P!NoMatchLost
MatchedOnce == machine = "pubsub" => P!MatchedOnce
HopsAdvance == machine = "pubsub" => P!HopsAdvance
TriggersFollow == [][machine = "pubsub" => P!TriggerFollows]_vars

-----------------------------------------------------------------------------
(***************************************************************************)
(* The bootstrap server and three nodes: they all get the all clear.       *)
(***************************************************************************)

MCBootstrapScenarios ==
    LET calm == [policy |-> "round-robin", ident |-> [n \in {} |-> 0], nServers |-> 3,
                 attempts |-> [a |-> 1, b |-> 1, c |-> 1], faults |-> [crash |-> 0, restart |-> 0, loss |-> 0]]
        eager == [calm EXCEPT !.attempts.a = 2]
    IN  {[eager EXCEPT !.nServers = 0], [calm EXCEPT !.policy = "random", !.faults.loss = 1],
         [calm EXCEPT !.nServers = 2, !.faults.crash = 1],
         [calm EXCEPT !.nServers = 0, !.faults.crash = 1, !.faults.restart = 1],
         [eager EXCEPT !.policy = "ident-map", !.ident = [a |-> 6, b |-> 2, c |-> 4]]}

EverybodyStarts == <>(machine = "bootstrap" => Booting!Started)

-----------------------------------------------------------------------------
(***************************************************************************)
(* Load balancing: five nodes that move their boundaries, or want each     *)
(* other to leave.                                                         *)
(***************************************************************************)

MCBalanceScenarios ==
    LET R(x, y) == [min |-> x, max |-> y]
        near == [ranges |-> [a |-> R(12, 2), b |-> R(2, 7), c |-> R(7, 9), d |-> R(9, 10), e |-> R(10, 12)],
                 loads |-> [a |-> 1, b |-> 4, c |-> 8, d |-> 1, e |-> 1],
                 light |-> {}, heavy |-> {}, checks |-> 3, asks |-> 0, losses |-> 0, apart |-> TRUE]
        far == [near EXCEPT !.checks = 0, !.asks = 2]
        both == [near EXCEPT !.checks = 2, !.asks = 1, !.light = {"a"}, !.heavy = {"d"}, !.loads.e = 16,
                             !.ranges = [a |-> R(15, 2), b |-> R(2, 3), c |-> R(3, 8), d |-> R(8, 9), e |-> R(9, 15)]]
    IN  {near, both, [near EXCEPT !.apart = FALSE, !.losses = 1, !.loads.b = 8],
         [far EXCEPT !.light = {"a", "b"}, !.heavy = {"c"}, !.checks = 1, !.losses = 1],
         [far EXCEPT !.light = {"b", "c"}, !.heavy = {"a", "e"}]}

MCRingOrder == <<"a", "b", "c", "d", "e">>

-----------------------------------------------------------------------------
(***************************************************************************)
(* Messages over TCP: three nodes that write to each other and die.        *)
(***************************************************************************)

MCStreamScenarios ==
    LET M(id, from, to, size) == [id |-> id, from |-> from, to |-> to, size |-> size]
        S(ms, dying) ==
            [messages |-> {ms[i] : i \in DOMAIN ms},
             todo |-> [n \in {"a", "b", "c"} |-> SelectSeq(ms, LAMBDA m : m.from = n)],
             deaths |-> [n \in {"a", "b", "c"} |-> IF n \in dying THEN 1 ELSE 0]]
    IN  {S(<<M(1, "a", "b", 2), M(2, "a", "b", 1), M(3, "b", "a", 1), M(4, "b", "a", 2)>>, {}),
         S(<<M(1, "a", "b", 1), M(2, "b", "c", 2), M(3, "c", "a", 1), M(4, "a", "c", 1)>>, {}),
         S(<<M(1, "a", "b", 2), M(2, "a", "b", 1), M(3, "a", "b", 1), M(4, "b", "a", 1)>>, {"b"})}

-----------------------------------------------------------------------------
(***************************************************************************)
(* Datagrams: a node hears from two others and writes to them.             *)
(***************************************************************************)

DatagramScenarios ==
    LET D(id, from) == [id |-> id, from |-> from]
        S(id, to, size, share) == [id |-> id, to |-> to, size |-> size, share |-> share]
        base == [me |-> "a", names |-> <<{"a"}, {"b", "d"}, {"c"}>>, latency |-> FALSE,
                 graph |-> {[a |-> 1, b |-> 2, rtt |-> 4], [a |-> 3, b |-> 1, rtt |-> 2], [a |-> 2, b |-> 3, rtt |-> 9]},
                 arriving |-> {D(1, "b"), D(2, "b"), D(3, "b"), D(4, "c")}, sending |-> <<>>, time |-> 0]
    IN  {base, [base EXCEPT !.latency = TRUE, !.arriving = {D(1, "b"), D(2, "b"), D(3, "c")}, !.time = 3],
         [base EXCEPT !.arriving = {}, !.time = 4,
             !.sending = <<S(1, "b", 3, 2), S(2, "b", 1, 2), S(3, "c", 1, 0), S(4, "b", 1, 2)>>]}

D == INSTANCE Datagrams WITH
    conf <- v1, now <- v2, coming <- v3, inbound <- v4, outbound <- v5,
    AppQueueSize <- 1, SendQueueSize <- 2, MaxServiceBurst <- 1, Scenarios <- DatagramScenarios

QueuesServe == machine = "datagrams" => D!QueuesServe

-----------------------------------------------------------------------------
(***************************************************************************)
(* Messages in packets: one of each class, sent on, sent twice or stored.  *)
(***************************************************************************)

WireScenarios ==
    LET base == [class |-> "MsgPing", k |-> 0, first |-> "a", dests |-> [a |-> <<"b">>, b |-> <<"c">>, c |-> <<>>],
                 compress |-> FALSE, minsz |-> 20, squeezed |-> 9, stored |-> FALSE]
    IN  {[base EXCEPT !.class = None, !.k = k] : k \in 0..2}
        \cup {[base EXCEPT !.class = m, !.k = k, !.compress = TRUE, !.squeezed = s, !.dests.a = <<"b", "c">>] :
                m \in {"MsgLeaveNotification", "MsgBootstrapResponse", "MsgPing"}, k \in 1..2, s \in {9, 90}}
        \cup {[base EXCEPT !.class = m, !.k = k, !.stored = TRUE] :
                m \in {"MsgPublication", "MsgLinearPublication"}, k \in 0..2}

W == INSTANCE Wire WITH
    conf <- v1, node <- v2, net <- v3, got <- v4,
    Node <- {"a", "b", "c"}, None <- None, Scenarios <- WireScenarios

CarriedWhole == machine = "wire" => W!CarriedWhole

-----------------------------------------------------------------------------
(***************************************************************************)
(* Applications: a is in hub x, b in hub y.                                *)
(***************************************************************************)

NodeScenarios ==
    LET Sub(id, by, values) == [kind |-> "MSG_SUB", id |-> id, by |-> by, values |-> values]
        Pub(id, by, values) == [kind |-> "MSG_PUB", id |-> id, by |-> by, values |-> values]
        both == [x |-> {1, 2}, y |-> {1}]
        base == [members |-> [x |-> {"a"}, y |-> {"b"}], rep |-> [x |-> "a", y |-> "b"],
                 driver |-> "DoWork", losses |-> 0,
                 sends |-> [a |-> <<<<Pub("p1", "a", both)>>>>, b |-> <<<<Sub("s1", "b", both)>>>>]]
        each == [base EXCEPT !.driver = "RecvSend",
                    !.sends.a = <<<<Pub("p1", "a", [x |-> {2}]), Sub("s2", "a", [x |-> {3}])>>>>]
    IN  {[base EXCEPT !.losses = 1], each, [base EXCEPT !.driver = "sim"],
         [base EXCEPT !.driver = "sim", !.members.x = {"a", "b"}, !.members.y = {"b"},
             !.sends.b = <<<<Pub("p2", "b", [y |-> {1}]), Sub("s1", "b", both)>>>>]}

N == INSTANCE MercuryNode WITH
    conf <- v1, node <- v2, net <- v3, hub <- v4, lost <- v5,
    Node <- {"a", "b"}, Hub <- {"x", "y"}, None <- None, Scenarios <- NodeScenarios

EventsArrive == machine = "node" => N!EventsArrive

-----------------------------------------------------------------------------
(***************************************************************************)
(* Long links: eight nodes, or four.                                       *)
(***************************************************************************)

LinkScenarios ==
    LET R(x, y) == [min |-> x, max |-> y]
        all == <<"a", "b", "c", "d", "e", "f", "g", "h">>
        Only(ranges) == [n \in {all[i] : i \in 1..8} |-> IF n \in DOMAIN ranges THEN ranges[n] ELSE None]
        four == [a |-> R(7, 1), b |-> R(1, 3), c |-> R(3, 4), d |-> R(4, 7)]
        Of(n, m) == [from |-> n, range |-> four[n], metric |-> m]
        done == [a |-> <<>>,
                 b |-> [i \in -2..2 |-> <<Of("d", 3), Of("a", 1), Of("b", 2), Of("c", 1), Of("d", 3)>>[i + 3]],
                 c |-> [i \in -2..2 |-> <<Of("a", 1), Of("b", 2), Of("c", 1), Of("d", 3), Of("a", 1)>>[i + 3]],
                 d |-> [i \in -2..2 |-> <<Of("b", 2), Of("c", 1), Of("d", 3), Of("a", 1), Of("b", 2)>>[i + 3]]]
        base == [ranges |-> [n \in {all[i] : i \in 1..8} |-> LET i == CHOOSE j \in 1..8 : all[j] = n IN R(i - 1, i)],
                 listed |-> <<all, <<"a", "b", "e">>>>, distances |-> {1}, self_histos |-> FALSE,
                 asking |-> {"a"}, sampling |-> {}, walking |-> {}, mortal |-> {}, long |-> <<>>,
                 hist |-> [i \in 1..8 |-> [range |-> R(i - 1, i), value |-> 840]],
                 estimates |-> [n \in {all[i] : i \in 1..8} |-> <<>>],
                 left |-> [estimates |-> 2, timeouts |-> 0, losses |-> 0, walks |-> 0, samplings |-> 0, time |-> 0]]
        far == [base EXCEPT !.distances = {2}, !.left.estimates = 0, !.left.timeouts = 1]
        ring == [base EXCEPT !.ranges = Only(four), !.asking = {}, !.distances = {1, 2},
                    !.left.estimates = 0, !.left.timeouts = 0]
        quarter == [i \in 1..4 |-> [range |-> R(2 * i - 2, 2 * i), value |-> 840]]
        alive == [ring EXCEPT !.long = [a |-> <<"c">>], !.mortal = {"c"}, !.hist = quarter,
                     !.left.losses = 1, !.left.time = 19]
        round == [ring EXCEPT !.long = [a |-> <<"c">>, b |-> <<"d">>, c |-> <<"b">>, d |-> <<"a">>], !.walking = {"b", "d"}]
    IN  {base, far, alive,
         [round EXCEPT !.estimates = done, !.sampling = {"a", "c"}, !.left.samplings = 2],
         [round EXCEPT !.estimates = done, !.self_histos = TRUE, !.hist = <<>>, !.left.walks = 2, !.left.time = 1]}

K == INSTANCE LongLinks WITH
    conf <- v1, now <- v2, left <- v3, node <- v4, net <- v5,
    Node <- {"a", "b", "c", "d", "e", "f", "g", "h"}, None <- None, AbsMax <- 8,
    PeerPingInterval <- 3, PeerPongTimeout <- 9, SampleLifeTime <- 1, NumReportSamples <- 2, LocalRadius <- 2,
    MaxMessageTTL <- 9, Scenarios <- LinkScenarios

LivingLinksStay == [][machine = "links" => K!LivingLinksStay]_vars
RepairsBounded == machine = "links" => K!RepairsBounded
LoadsKnown == machine = "links" => K!LoadsKnown

-----------------------------------------------------------------------------
(***************************************************************************)
(* Identifiers on the wire and moments: bytes of two bits, limbs of two    *)
(* bytes, four milliseconds a second and three microseconds a millisecond. *)
(***************************************************************************)

NumberScenarios ==
    LET sent == {<<v, 0>> : v \in -70 .. 70}
                \cup {<<-512, v>> : v \in -258 .. -250 \cup -130 .. -126 \cup 125 .. 130}
        some == {-25, -13, -12, -1, 5, 7, 12, 23}
    IN  {[ids |-> i, start |-> [sec |-> 5, usec |-> 4], delays |-> <<>>] : i \in sent}
        \cup {[ids |-> <<>>, start |-> [sec |-> 5, usec |-> u], delays |-> <<d, e, f>>] :
                  u \in {0, 5, 11}, d \in some, e \in some, f \in some}

I == INSTANCE Numbers WITH
    conf <- v1, buffer <- v2, pkt <- v3, given <- v4, clock <- v5,
    ByteBits <- 2, LimbBytes <- 2, MsecInSec <- 4, UsecInMsec <- 3,
    Scenarios <- NumberScenarios

NumbersKept == machine = "numbers" => I!NumbersKept

-----------------------------------------------------------------------------
(***************************************************************************)
(* The network layer: a node with a datagram and a stream transport.       *)
(***************************************************************************)

MCNetScenarios ==
    LET flow  == [record |-> FALSE, window |-> 0, minsz |-> 9, items |-> {NetClosed, 3},
                  sizes |-> {}, most |-> 0, until |-> 0, stream |-> None, few |-> 2]
        usage == [record |-> TRUE, window |-> 4, minsz |-> 4, items |-> {NetBroken, 3}, sizes |-> {6},
                  most |-> 3, until |-> 7, stream |-> None, few |-> 0]
    IN  {[flow EXCEPT !.stream = p] : p \in {"udp", "tcp"}}
        \cup {usage, [usage EXCEPT !.most = 0, !.few = 1]}

EveryTransportHeard ==
    \A p \in Proto :
        machine = "net" /\ Layer!Arrived(p) ~> (machine = "net" => Layer!Idle(p))

-----------------------------------------------------------------------------
(***************************************************************************)
(* An application in a process of its own: both call at once, calls nest   *)
(* (first), and the application may die and start again (second).          *)
(***************************************************************************)

MCCallScenarios ==
    LET alive == [methods |-> {"RegisterSampler", "ReadEvent"}, samplers |-> {"s"}, callbacks |-> {"JoinBegin", "SamplerGetPointEstimate"},
                  nested |-> {"IsJoined"}, calls |-> [app |-> 2, node |-> 3], mortal |-> FALSE, restarts |-> 1]
    IN  {alive, [alive EXCEPT !.methods = {"RegisterLoadSampler", "GetSamples"}, !.nested = {}, !.samplers = {"s", "t"}],
         [alive EXCEPT !.mortal = TRUE, !.samplers = {"s", "t"}, !.nested = {}]}

CallsReturn ==
    \A p \in {App, AppNode} :
        machine = "calls" /\ Remote!Busy(p) ~> (machine = "calls" => Remote!Free(p))

-----------------------------------------------------------------------------

MCInit ==
    \/ Init
    \/ /\ machine \in Machines
       /\ \/ machine = "pubsub" /\ P!Init
          \/ machine = "datagrams" /\ D!Init
          \/ machine = "wire" /\ W!Init /\ v5 = None
          \/ machine = "node" /\ N!Init
          \/ machine = "links" /\ K!Init
          \/ machine = "numbers" /\ I!Init

MCNext ==
    \/ Next
    \/ machine = "pubsub" /\ P!Next /\ UNCHANGED machine
    \/ machine = "datagrams" /\ D!Next /\ UNCHANGED machine
    \/ machine = "wire" /\ W!Next /\ UNCHANGED <<machine, v5>>
    \/ machine = "node" /\ N!Next /\ UNCHANGED machine
    \/ machine = "links" /\ K!Next /\ UNCHANGED machine
    \/ machine = "numbers" /\ I!Next /\ UNCHANGED machine

\* The fairness of the parts that have some.
BootstrapFair(A) == machine = "bootstrap" /\ A /\ UNCHANGED machine
CallFair(A) == machine = "calls" /\ A /\ UNCHANGED machine
NetFair(A) == machine = "net" /\ A /\ UNCHANGED machine
Fairness ==
    /\ \A p \in Proto : WF_vars(NetFair(Layer!Served(p))) /\ WF_vars(NetFair(Layer!Heard(p)))
    /\ WF_vars(BootstrapFair(Booting!CleanupState)) /\ WF_vars(BootstrapFair(Booting!CheckAllJoined))
    /\ \A p \in {App, AppNode} : WF_vars(CallFair(Remote!Step(p)))
    /\ \A n \in HubNode :
          /\ WF_vars(BootstrapFair(Booting!ServerStep(n))) /\ WF_vars(BootstrapFair(Booting!ClientStep(n)))
          /\ WF_vars(BootstrapFair(Booting!RequestTimeout(n))) /\ WF_vars(BootstrapFair(Booting!Heartbeat(n)))

MCSpec == MCInit /\ [][MCNext]_vars /\ Fairness
=============================================================================
