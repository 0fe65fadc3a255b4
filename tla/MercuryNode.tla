---------------------------- MODULE MercuryNode ----------------------------
(***************************************************************************)
(* Mercury nodes between their application and their hubs: the loop that   *)
(* an application drives (wan-env/WANMercuryNode.cpp, apps/mercapp), the   *)
(* buffers (BufferManager.cpp), the choice of the hubs for what the        *)
(* application sends (HubManager.cpp), and the handlers that a message     *)
(* is given to (MercuryNode.cpp).                                          *)
(*                                                                         *)
(* A hub is the log of what reaches its rendezvous point: routing inside   *)
(* the hub is in PubSub.tla.  A node joins a hub's ring as soon as it      *)
(* hears of it or later: joining is in Bootstrap.tla and Ring.tla.  An     *)
(* item has the values it covers of each attribute it names; an attribute  *)
(* is the hub of that name.  Triggers are off, subscriptions do not die.   *)
(***************************************************************************)
EXTENDS Naturals, Sequences, FiniteSets, SequencesExt

CONSTANTS
    Node,
    Hub,
    None,
    Scenarios   \* who is in which hub, what each application sends, how nodes are driven

VARIABLES
    conf,       \* the scenario
    node,       \* each node's hubs, buffers and place in its loop
    net,        \* messages in flight
    hub,        \* what has reached each hub, in order
    lost        \* items in datagrams that are lost

vars == <<conf, node, net, hub, lost>>

-----------------------------------------------------------------------------

Msg(type, h, item, to) == [type |-> type, hubID |-> h, item |-> item, to |-> to]

NewNode(n) ==
    [knows |-> FALSE, joined |-> FALSE, allJoined |-> FALSE, pc |-> "app", sent |-> FALSE,
     timer |-> conf.sends[n],    \* what SendPubsubTimer has not sent
     app |-> <<>>,               \* m_AppBuffer
     network |-> <<>>,           \* m_NetworkBuffer
     read |-> <<>>]

\* The bootstrap server answers every request: one of its answers comes late.
Init ==
    /\ conf \in Scenarios
    /\ node = [n \in Node |-> NewNode(n)]
    /\ net = [m \in {Msg("MSG_BOOTSTRAP_RESPONSE", None, None, n) : n \in Node} |-> 2]
    /\ hub = [h \in Hub |-> <<>>]
    /\ lost = {}

Mine(n) == {h \in Hub : n \in conf.members[h]}
Attrs(item) == DOMAIN item.values

\* Event::GetConstraintByAttr, Interest::Overlaps: attributes that one of them has not got do not count.
Overlaps(sub, pub) ==
    /\ Attrs(sub) \cap Attrs(pub) # {}
    /\ \A h \in Attrs(sub) \cap Attrs(pub) : sub.values[h] \cap pub.values[h] # {}

\* Messages in flight are a bag.
Sent(bag, ms) ==
    [m \in DOMAIN bag \cup ms |-> (IF m \in DOMAIN bag THEN bag[m] ELSE 0) + (IF m \in ms THEN 1 ELSE 0)]
Received(m) == [x \in {y \in DOMAIN net : y # m \/ net[y] > 1} |-> IF x = m THEN net[x] - 1 ELSE net[x]]

-----------------------------------------------------------------------------
(***************************************************************************)
(* What a node does with a message.                                        *)
(***************************************************************************)

\* DeliverPubToSubscribers: one matched publication for each subscriber, but none for the creator.
Matches(log, pub) ==
    {Msg("MSG_PUB", "0xff", pub, s) :
        s \in {log[i].by : i \in {j \in DOMAIN log : log[j].kind = "MSG_SUB" /\ Overlaps(log[j], pub)}} \ {pub.by}}

\* RouteData: the item reaches the rendezvous point.
RouteData(h, item, state) ==
    [state EXCEPT
        !.hub[h] = Append(@, item),
        !.net = IF item.kind = "MSG_PUB" THEN Sent(@, Matches(state.hub[h], item)) ELSE @]

\* Faulty: a router takes what is for another hub.
AcceptsAny(n, h, m) == node[n].joined /\ m.hubID # "0xff"

\* PubsubRouter::ProcessMessage: the router of a hub takes what is for that hub.
Accepts(n, h, m) == m.hubID = h /\ node[n].joined

\* ReceiveMessage: every handler of the message's type is called, those of the hubs once the
\* hubs are known.
RECURSIVE ByRouters(_, _, _, _)
ByRouters(n, hs, m, state) ==
    IF hs = {} THEN state
    ELSE LET h == CHOOSE x \in hs : TRUE
         IN  ByRouters(n, hs \ {h}, m, IF Accepts(n, h, m) THEN RouteData(h, m.item, state) ELSE state)

ReceiveMessage(n, m) ==
    LET routers == IF node[n].knows /\ m.type \in {"MSG_PUB", "MSG_SUB"} THEN Mine(n) ELSE {}
        state == ByRouters(n, routers, m, [hub |-> hub, net |-> Received(m)])
    IN  /\ hub' = state.hub /\ net' = state.net
        /\ node' = [node EXCEPT ![n] =
               [@ EXCEPT !.pc = IF @ = "process" /\ conf.driver = "DoWork" THEN "send" ELSE @,
                   !.sent = FALSE,
                   !.knows = @ \/ m.type = "MSG_BOOTSTRAP_RESPONSE",
                   !.allJoined = @ \/ m.type = "MSG_CB_ALL_JOINED",
                   !.network = IF m.type = "MSG_PUB" /\ m.hubID = "0xff" THEN Append(@, m.item) ELSE @]]
        /\ UNCHANGED <<conf, lost>>

\* OnJoinComplete
Join(n) ==
    /\ node[n].knows /\ ~node[n].joined
    /\ node' = [node EXCEPT ![n].joined = TRUE]
    /\ UNCHANGED <<conf, net, hub, lost>>

\* BootstrapNode::CheckAllJoined
AllJoined ==
    /\ \A n \in Node : node[n].joined
    /\ \A n \in Node : ~node[n].allJoined /\ Msg("MSG_CB_ALL_JOINED", None, None, n) \notin DOMAIN net
    /\ net' = Sent(net, {Msg("MSG_CB_ALL_JOINED", None, None, n) : n \in Node})
    /\ UNCHANGED <<conf, node, hub, lost>>

\* A datagram is lost; what comes from the server comes over TCP.
Lose(m) ==
    /\ Cardinality(lost) < conf.losses /\ m.item # None
    /\ net' = Received(m) /\ lost' = lost \cup {m.item}
    /\ UNCHANGED <<conf, node, hub>>

-----------------------------------------------------------------------------
(***************************************************************************)
(* What a node sends.                                                      *)
(***************************************************************************)

\* Where an item goes: to the node's own router, or to the node that stands for the hub.
Handed(n, h, item, state) ==
    IF h \in Mine(n) THEN IF node[n].joined THEN RouteData(h, item, state) ELSE state
    ELSE [state EXCEPT !.net = Sent(@, {Msg(item.kind, h, item, conf.rep[h])})]

RECURSIVE HandedAll(_, _, _, _)
HandedAll(n, hs, item, state) ==
    IF hs = {} THEN state
    ELSE LET h == CHOOSE x \in hs : TRUE IN HandedAll(n, hs \ {h}, item, Handed(n, h, item, state))

\* SendAppPublication: to every hub whose attribute the event has
SendAppPublication(n, pub, state) == {HandedAll(n, Attrs(pub), pub, state)}

\* Faulty: to every hub whose attribute the interest has.
SubscribeEverywhere(n, sub, state) == {HandedAll(n, Attrs(sub), sub, state)}

\* SendAppSubscription: to one of the hubs whose attribute the interest has, at random
SendAppSubscription(n, sub, state) == {Handed(n, h, sub, state) : h \in Attrs(sub)}

\* SendPacket, before the node's next message is processed (DoWork), or SendPackets (Send, and
\* SendApplicationPackets in the simulator) one after the other
SendPacket(n) ==
    LET item == Head(node[n].app)
        state == [hub |-> hub, net |-> net]
    IN  /\ node[n].pc = "send"
        /\ IF node[n].app = <<>>
           THEN /\ node' = [node EXCEPT ![n].pc = IF conf.driver = "DoWork" THEN "process" ELSE "app",
                                        ![n].sent = FALSE]
                /\ UNCHANGED <<net, hub>>
           ELSE /\ node' = [node EXCEPT ![n].pc = IF conf.driver = "DoWork" THEN "process" ELSE @,
                                        ![n].sent = TRUE, ![n].app = Tail(@)]
                /\ \E s \in IF ~node[n].knows THEN {state}
                            ELSE IF item.kind = "MSG_PUB" THEN SendAppPublication(n, item, state)
                                 ELSE SendAppSubscription(n, item, state) :
                      hub' = s.hub /\ net' = s.net
        /\ UNCHANGED <<conf, lost>>

\* SendEvent, RegisterInterest: what the application hands in is sent when the loop comes to it.
SendEvent(h, items) == [h EXCEPT !.app = @ \o items]

\* The application's timer hands in an event and an interest, once everybody has joined.
SendPubsubTimer(n) ==
    /\ node[n].pc \in {"till", "late"} /\ node[n].allJoined /\ node[n].timer # <<>>
    /\ node' = [node EXCEPT ![n] = [SendEvent(@, Head(@.timer)) EXCEPT !.timer = Tail(@)]]
    /\ UNCHANGED <<conf, net, hub, lost>>

-----------------------------------------------------------------------------
(***************************************************************************)
(* The loop.                                                               *)
(***************************************************************************)

Goes(n, from, to) ==
    /\ node[n].pc = from
    /\ node' = [node EXCEPT ![n].pc = to]
    /\ UNCHANGED <<conf, net, hub, lost>>

\* Recv, DoWork: timers first
Begin(n) == conf.driver # "sim" /\ Goes(n, "app", "till")
AfterTimers(n) == Goes(n, "till", IF conf.driver = "DoWork" THEN "send" ELSE "process")

\* ProcessOnePacket, while there are any
ProcessOnePacket(n) ==
    /\ node[n].pc = "process"
    /\ \E m \in DOMAIN net : m.to = n /\ ReceiveMessage(n, m)

\* There is no message: what Mercury sends comes later, the loop goes on if something was sent.
NoMessage(n) == Goes(n, "process", IF conf.driver = "DoWork" /\ node[n].sent THEN "send" ELSE "late")

\* The time is over, or the timers are run once more; Send comes after Recv.
End(n) == Goes(n, "late", IF conf.driver = "DoWork" THEN "app" ELSE "send")

\* The simulator calls the node with every message, and its own timers, when their time comes.
Simulate(n) ==
    /\ conf.driver = "sim" /\ node[n].pc = "app"
    /\ \/ \E m \in DOMAIN net : m.to = n /\ ReceiveMessage(n, m)
       \/ Goes(n, "app", "late")

\* ReadEvent
ReadEvent(n) ==
    /\ node[n].pc = "app" /\ node[n].network # <<>>
    /\ node' = [node EXCEPT ![n].network = Tail(@), ![n].read = Append(@, Head(node[n].network))]
    /\ UNCHANGED <<conf, net, hub, lost>>

Next ==
    \/ \E n \in Node :
          \/ Join(n) \/ SendPacket(n) \/ SendPubsubTimer(n)
          \/ Begin(n) \/ AfterTimers(n) \/ ProcessOnePacket(n) \/ NoMessage(n) \/ End(n)
          \/ Simulate(n) \/ ReadEvent(n)
    \/ AllJoined
    \/ \E m \in DOMAIN net : Lose(m)

Spec == Init /\ [][Next]_vars

-----------------------------------------------------------------------------

Items == UNION {UNION {ToSet(conf.sends[n][i]) : i \in DOMAIN conf.sends[n]} : n \in Node}
Quiet == net = [m \in {} |-> 0] /\ \A n \in Node : node[n].app = <<>> /\ node[n].timer = <<>>
Meetings(sub, pub) == {h \in Hub : sub \in ToSet(hub[h]) /\ pub \in ToSet(hub[h])}

\* A subscription and a publication that names at least the subscription's attributes meet in one
\* hub, though one goes to a hub that is chosen at random and the other to several
\* (HubManager.cpp:376-484); a publication that names fewer may miss it.
MeetOnce ==
    \A sub, pub \in Items :
        sub.kind = "MSG_SUB" /\ pub.kind = "MSG_PUB" =>
            /\ Cardinality(Meetings(sub, pub)) <= 1
            /\ Quiet /\ Attrs(sub) \subseteq Attrs(pub) /\ lost \cap {sub, pub} = {} => Meetings(sub, pub) # {}

Count(s, x) == Cardinality({i \in DOMAIN s : s[i] = x})
Found(n, pub) ==
    {h \in Hub : \E i, j \in DOMAIN hub[h] :
        i < j /\ hub[h][j] = pub /\ hub[h][i].kind = "MSG_SUB" /\ hub[h][i].by = n /\ Overlaps(hub[h][i], pub)}

\* An application reads a publication once for each hub in which one of its subscriptions was
\* there first, whatever handlers the message was shown to (MercuryNode.cpp:229-303).
ReadOnce ==
    \A n \in Node : \A pub \in {i \in Items : i.kind = "MSG_PUB" /\ i.by # n} :
        LET times == Count(node[n].read \o node[n].network, pub)
        IN  /\ times <= Cardinality(Found(n, pub))
            /\ Quiet /\ pub \notin lost => times = Cardinality(Found(n, pub))

\* From the application's subscription to the application's event, through whatever hubs.
EventsArrive == MeetOnce /\ ReadOnce
=============================================================================
