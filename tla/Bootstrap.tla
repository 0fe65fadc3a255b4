------------------------------ MODULE Bootstrap ------------------------------
(***************************************************************************)
(* The bootstrap server (mercury/BootstrapNode.cpp) and its clients        *)
(* (mercury/HubManager.cpp), for one hub: a node asks the server, again    *)
(* and again until it is answered, who it should join through, or what its *)
(* place in a ring laid out beforehand is; it reports once it is part of   *)
(* the hub, and the server gives the all clear when the servers it expects *)
(* have all reported.                                                      *)
(*                                                                         *)
(* Requests, responses and the all clear come in order (PROTO_TCP),        *)
(* heartbeats in any order or never.  How a join goes on is the module     *)
(* Ring; here it takes a representative that has joined.  The lists keep   *)
(* no times: an entry is stale when no heartbeat can refresh it, which is  *)
(* what 60 s against the 50 s of a join and 5 s between heartbeats come    *)
(* to.                                                                     *)
(***************************************************************************)
EXTENDS Integers, Sequences, FiniteSets, SequencesExt, FiniteSetsExt, Functions

CONSTANTS
    Node, None,
    NSuccessorsToKeep,
    Scenarios       \* policy, ident (its map), nServers, how often each node asks (the code:
                    \* MaxBootstrapRequestAttempts), and its faults: how many nodes crash, how
                    \* many processes are started again, how many heartbeats are lost

VARIABLES
    conf,       \* the scenario
    faults,     \* how many it may still bring
    server,     \* m_Nodelist, m_BootedServers and m_AllJoined of the BootstrapNode
    node,       \* status, requests made, what it was told, whether it got the all clear
    net         \* requests and answers of each node in order, heartbeats in flight

vars == <<conf, faults, server, node, net>>

Static == conf.policy = "ident-map"

-----------------------------------------------------------------------------
(***************************************************************************)
(* The ring of an ident map: every node answers for the values from its    *)
(* predecessor's ident up to its own.                                      *)
(***************************************************************************)

InOrder(ident) ==
    CHOOSE order \in Bijection(1 .. Cardinality(DOMAIN ident), DOMAIN ident) :
        \A i, j \in DOMAIN order : i < j => ident[order[i]] < ident[order[j]]

\* Faulty: a neighbour's range begins at the ident of the one behind it, on both sides.
NeighboursBehind(ident, i, step) ==
    LET order == InOrder(ident)
        At(k) == order[((i - 1 + k) % Len(order)) + 1]
        n == Min({NSuccessorsToKeep, Len(order)})
    IN  [k \in 1 .. n |-> [addr  |-> At(step * k),
                           range |-> [min |-> ident[At(step * (k - 1))], max |-> ident[At(step * k)]]]]

\* Up to k neighbours on one side (step is 1 or -1), no further than once around.
Neighbours(ident, i, step) ==
    LET order == InOrder(ident)
        At(k) == order[((i - 1 + k) % Len(order)) + 1]
        n == Min({NSuccessorsToKeep, Len(order)})
    IN  [k \in 1 .. n |-> [addr  |-> At(step * k),
                           range |-> [min |-> ident[At(step * k - 1)], max |-> ident[At(step * k)]]]]

ReadIdentMap(ident) ==
    LET order == InOrder(ident)
        Before(i) == IF i = 1 THEN Last(order) ELSE order[i - 1]
        Place(i) == [rep   |-> IF i = Len(order) THEN order[1] ELSE order[i + 1],
                     range |-> [min |-> ident[Before(i)], max |-> ident[order[i]]],
                     succs |-> Neighbours(ident, i, 1),
                     preds |-> Neighbours(ident, i, -1)]
    IN  [n \in DOMAIN ident |-> Place(CHOOSE i \in DOMAIN order : order[i] = n)]

-----------------------------------------------------------------------------
(***************************************************************************)
(* The server.                                                             *)
(***************************************************************************)

NewServer == [list |-> <<>>, booted |-> {}, allJoined |-> FALSE]

Entry(n, level) == [addr |-> n, level |-> level, joined |-> FALSE]

\* The list sorted by level, equal levels in the order they had (list::sort): a set of one.
ByLevel(list) ==
    LET Before(i, j) == \/ list[i].level < list[j].level
                        \/ list[i].level = list[j].level /\ i < j
        orders == {p \in Bijection(DOMAIN list, DOMAIN list) :
                      \A i, j \in DOMAIN list : i < j => Before(p[i], p[j])}
    IN  {[i \in DOMAIN list |-> list[p[i]]] : p \in orders}

\* The representatives the policy may choose, each with the list it leaves.  The list is
\* sorted by level for "round-robin", and the chosen one's level raised.
ChooseRepresentative(list) ==
    IF list = <<>> THEN {[rep |-> None, list |-> list]}
    ELSE IF conf.policy = "random" THEN {[rep |-> e.addr, list |-> list] : e \in Range(list)}
    ELSE {[rep |-> sorted[1].addr, list |-> [sorted EXCEPT ![1].level = @ + 1]] : sorted \in ByLevel(list)}

BootstrapResponse(rep) == [type |-> "BOOTSTRAP_RESPONSE", rep |-> rep]

Answer(n, response) == [net EXCEPT !.req[n] = @ - 1, !.resp[n] = Append(@, response)]

Listed(n) == {i \in DOMAIN server.list : server.list[i].addr = n}

\* The first entry the node left when it asked before is erased; then it is listed again.
HandleBootstrapRequest(n) ==
    LET others == IF Listed(n) = {} THEN server.list ELSE RemoveAt(server.list, Min(Listed(n)))
    IN  /\ ~Static /\ net.req[n] > 0
        /\ \E c \in ChooseRepresentative(others) :
              /\ server' = [server EXCEPT
                     !.list = Append(c.list, Entry(n, IF c.list = <<>> THEN 0 ELSE c.list[1].level)),
                     !.booted = @ \cup {n}]
              /\ net' = Answer(n, BootstrapResponse(c.rep))
        /\ UNCHANGED <<conf, faults, node>>

\* A node of the ident map gets its place; who asks twice is listed twice.
HandleBootstrapRequestStatic(n) ==
    /\ Static /\ net.req[n] > 0
    /\ IF n \notin DOMAIN conf.ident
       THEN net' = [net EXCEPT !.req[n] = @ - 1] /\ UNCHANGED server
       ELSE /\ server' = [server EXCEPT !.list = Append(@, Entry(n, 0)), !.booted = @ \cup {n}]
            /\ net' = Answer(n, BootstrapResponse(ReadIdentMap(conf.ident)[n].rep))
    /\ UNCHANGED <<conf, faults, node>>

\* A heartbeat refreshes the first entry of its sender, or makes one.
HandleHeartbeat(n) ==
    LET e == [Entry(n, 0) EXCEPT !.joined = TRUE]
    IN  /\ n \in net.hbeat
        /\ net' = [net EXCEPT !.hbeat = @ \ {n}]
        /\ server' = IF Listed(n) # {} THEN [server EXCEPT !.list[Min(Listed(n))].joined = TRUE]
                     ELSE [server EXCEPT !.list = Append(@, e)]
        /\ UNCHANGED <<conf, faults, node>>

\* Whether entry i's time of 60 s can pass: its node is dead, or an earlier entry of the
\* same node gets the heartbeats.
Stale(i) ==
    LET n == server.list[i].addr
    IN  \/ node[n].status = "DEAD" /\ n \notin net.hbeat
        \/ \E j \in 1 .. i - 1 : server.list[j].addr = n

\* Faulty: entries are never erased.
CleanupStateNever ==
    /\ \E i \in DOMAIN server.list : Stale(i) /\ server' = server
    /\ UNCHANGED <<conf, faults, node, net>>

\* Faulty: a node that has yet to report can time out.
CleanupStateSoon ==
    /\ \E i \in DOMAIN server.list :
          /\ Stale(i) \/ ~server.list[i].joined
          /\ server' = [server EXCEPT !.list = RemoveAt(@, i)]
    /\ UNCHANGED <<conf, faults, node, net>>

\* PeriodicTimer, every second.
CleanupState ==
    /\ \E i \in DOMAIN server.list :
          Stale(i) /\ server' = [server EXCEPT !.list = RemoveAt(@, i)]
    /\ UNCHANGED <<conf, faults, node, net>>

\* Faulty: the entries are not looked at.
CheckAllJoinedBooted ==
    /\ conf.nServers > 0 /\ ~server.allJoined
    /\ Cardinality(server.booted) >= conf.nServers
    /\ server' = [server EXCEPT !.allJoined = TRUE]
    /\ net' = [net EXCEPT !.resp = [n \in Node |->
          IF n \in server.booted THEN Append(@[n], [type |-> "CB_ALLJOINED"]) ELSE @[n]]]
    /\ UNCHANGED <<conf, faults, node>>

\* CheckAllJoinedTimer, every 200 ms until all have joined.
CheckAllJoined ==
    /\ conf.nServers > 0 /\ ~server.allJoined
    /\ Cardinality(server.booted) >= conf.nServers
    /\ \A e \in Range(server.list) : e.joined
    /\ server' = [server EXCEPT !.allJoined = TRUE]
    /\ net' = [net EXCEPT !.resp = [n \in Node |->
          IF n \in server.booted THEN Append(@[n], [type |-> "CB_ALLJOINED"]) ELSE @[n]]]
    /\ UNCHANGED <<conf, faults, node>>

-----------------------------------------------------------------------------
(***************************************************************************)
(* The clients.                                                            *)
(***************************************************************************)

NewNode == [status |-> "NEW", asked |-> 0, rep |-> None, allJoined |-> FALSE]

\* BootstrapRequestTimer: ask until answered; the process dies when it has asked too often.
RequestTimeout(n) ==
    /\ node[n].status = "NEW"
    /\ IF node[n].asked < conf.attempts[n]
       THEN /\ node' = [node EXCEPT ![n].asked = @ + 1]
            /\ net' = [net EXCEPT !.req[n] = @ + 1]
       ELSE /\ net.req[n] = 0 /\ net.resp[n] = <<>>
            /\ node' = [node EXCEPT ![n].status = "DEAD"]
            /\ UNCHANGED net
    /\ UNCHANGED <<conf, faults, server>>

\* StartJoin: a place in a static ring is taken at once, to be used from the all clear on;
\* the first node of a hub makes the ring; the others join through their representative.
StartJoin(h, rep) ==
    [h EXCEPT !.rep = rep,
              !.status = IF Static THEN "PLACED" ELSE IF rep = None THEN "JOINED" ELSE "JOINING"]

\* Faulty: every answer is acted upon.
HandleBootstrapResponseAgain(n) ==
    /\ net.resp[n] # <<>> /\ Head(net.resp[n]).type = "BOOTSTRAP_RESPONSE"
    /\ node' = [node EXCEPT ![n] =
          IF @.status = "DEAD" THEN @ ELSE StartJoin(@, Head(net.resp[n]).rep)]
    /\ net' = [net EXCEPT !.resp[n] = Tail(@)]
    /\ UNCHANGED <<conf, faults, server>>

\* A second answer is thrown away.
HandleBootstrapResponse(n) ==
    /\ net.resp[n] # <<>> /\ Head(net.resp[n]).type = "BOOTSTRAP_RESPONSE"
    /\ node' = [node EXCEPT ![n] =
          IF @.status # "NEW" THEN @ ELSE StartJoin(@, Head(net.resp[n]).rep)]
    /\ net' = [net EXCEPT !.resp[n] = Tail(@)]
    /\ UNCHANGED <<conf, faults, server>>

\* HandleAllJoined: a node of a static ring has joined now (OnJoinComplete).
HandleAllJoined(n) ==
    /\ net.resp[n] # <<>> /\ Head(net.resp[n]).type = "CB_ALLJOINED"
    /\ LET h == node[n]
       IN  node' = [node EXCEPT ![n] =
              IF h.status = "DEAD" THEN h
              ELSE [h EXCEPT !.allJoined = TRUE,
                             !.status = IF h.status = "PLACED" THEN "JOINED" ELSE h.status]]
    /\ net' = [net EXCEPT !.resp[n] = Tail(@)]
    /\ UNCHANGED <<conf, faults, server>>

\* A joiner is let in by a representative that has joined; it dies when the
\* representative is dead.
Join(n) ==
    /\ node[n].status = "JOINING"
    /\ node[node[n].rep].status \in {"JOINED", "DEAD"}
    /\ node' = [node EXCEPT ![n].status = node[node[n].rep].status]
    /\ UNCHANGED <<conf, faults, server, net>>

\* BootstrapHeartbeatTimer and TmpBootstrapHbeater: who has joined reports, and so does a
\* node of a static ring before the all clear.  A heartbeat that would find its sender's
\* entry joined already is left out.
Heartbeat(n) ==
    /\ node[n].status = "JOINED" \/ (node[n].status = "PLACED" /\ ~node[n].allJoined)
    /\ n \notin net.hbeat /\ ~\E e \in Range(server.list) : e.addr = n /\ e.joined
    /\ net' = [net EXCEPT !.hbeat = @ \cup {n}]
    /\ UNCHANGED <<conf, faults, server, node>>

-----------------------------------------------------------------------------

Crash(n) ==
    /\ faults.crash > 0 /\ node[n].status # "DEAD"
    /\ faults' = [faults EXCEPT !.crash = @ - 1]
    /\ node' = [node EXCEPT ![n].status = "DEAD"]
    /\ UNCHANGED <<conf, server, net>>

\* A process is started again at the address of a dead one.
Restart(n) ==
    /\ faults.restart > 0 /\ node[n].status = "DEAD"
    /\ faults' = [faults EXCEPT !.restart = @ - 1]
    /\ node' = [node EXCEPT ![n] = NewNode]
    /\ net' = [net EXCEPT !.req[n] = 0, !.resp[n] = <<>>]
    /\ UNCHANGED <<conf, server>>

Lose(n) ==
    /\ faults.loss > 0 /\ n \in net.hbeat
    /\ faults' = [faults EXCEPT !.loss = @ - 1]
    /\ net' = [net EXCEPT !.hbeat = @ \ {n}]
    /\ UNCHANGED <<conf, server, node>>

Init ==
    /\ conf \in Scenarios
    /\ faults = conf.faults
    /\ server = NewServer
    /\ node = [n \in Node |-> NewNode]
    /\ net = [req |-> [n \in Node |-> 0], resp |-> [n \in Node |-> <<>>], hbeat |-> {}]

ServerStep(n) == HandleBootstrapRequest(n) \/ HandleBootstrapRequestStatic(n) \/ HandleHeartbeat(n)
ClientStep(n) == HandleBootstrapResponse(n) \/ HandleAllJoined(n) \/ Join(n)

Next ==
    \/ CleanupState \/ CheckAllJoined
    \/ \E n \in Node : \/ ServerStep(n) \/ ClientStep(n)
                       \/ RequestTimeout(n) \/ Heartbeat(n)
                       \/ Crash(n) \/ Restart(n) \/ Lose(n)

\* Messages arrive and timers fire; a node's own timers and messages need no other's help.
Fairness ==
    /\ WF_vars(CleanupState) /\ WF_vars(CheckAllJoined)
    /\ \A n \in Node : /\ WF_vars(ServerStep(n)) /\ WF_vars(ClientStep(n))
                       /\ WF_vars(RequestTimeout(n)) /\ WF_vars(Heartbeat(n))

Spec == Init /\ [][Next]_vars /\ Fairness

-----------------------------------------------------------------------------
(***************************************************************************)
(* Properties.                                                             *)
(***************************************************************************)

\* No joiners wait for one another to let them in, if processes do not come back after a
\* crash (HandleBootstrapRequest, HandleBootstrapResponse).
RepsLeadIn ==
    conf.faults.restart = 0 => ~\E S \in (SUBSET Node) \ {{}} :
                          \A n \in S : node[n].status = "JOINING" /\ node[n].rep \in S

\* The all clear means that as many nodes as are expected have joined or taken their place,
\* or died: none of them is still on its way in (CheckAllJoined, HandleHeartbeat).
AllClear ==
    (server.allJoined /\ conf.faults.restart = 0) =>
        Cardinality({n \in Node : node[n].status \in {"JOINED", "PLACED", "DEAD"}}) >= conf.nServers

\* One ring: a node makes a ring of its own only when the others are out
\* (ChooseRepresentative, CleanupState).
OneFounder ==
    Cardinality({n \in Node : ~Static /\ node[n].status = "JOINED" /\ node[n].rep = None}) <= 1

\* The places of a static ring fit: what a node is told of its neighbours is what the
\* neighbours are told of themselves, and every value has one owner (ReadIdentMap).
PlacesFit ==
    LET place == ReadIdentMap(conf.ident)
    IN  Static => \A n \in DOMAIN place :
            /\ \A p \in Range(place[n].succs) \cup Range(place[n].preds) :
                  p.range = place[p.addr].range
            /\ place[n].range.max = place[place[n].rep].range.min
            /\ Head(place[n].succs).addr = place[n].rep
            /\ Head(place[place[n].rep].preds).addr = n

\* The ring that is built is one, and in a static one everybody is told the same of it.
OneRingBuilt == OneFounder /\ PlacesFit

\* However often a node had to ask and whatever heartbeats got lost, in the end all the
\* expected nodes get the all clear, if none of them dies (CleanupState, CheckAllJoined).
Started ==
    LET expected == IF Static THEN DOMAIN conf.ident ELSE Node
    IN  Cardinality(expected) = conf.nServers =>
            \/ \E n \in expected : node[n].status = "DEAD"
            \/ \A n \in expected : node[n].allJoined
EverybodyStarts == <>Started
=============================================================================
