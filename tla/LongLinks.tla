------------------------------- MODULE LongLinks -------------------------------
(***************************************************************************)
(* Long links and samples in one Mercury hub: a node asks, over the hub,   *)
(* for the owners of values at harmonic distances (mercury/                *)
(* LinkMaintainer.cpp), pings the ones that answer and drops the silent    *)
(* (mercury/Hub.cpp, mercury/Peer.cpp), walks over the links to collect    *)
(* samples (mercury/MetricInfo.cpp), and makes of them, or gets from the   *)
(* bootstrap server, the histogram the distances are measured on           *)
(* (mercury/Sampling.cpp).                                                 *)
(*                                                                         *)
(* The ring stands still: module Ring has the successors and what happens  *)
(* when they fail.  Messages are datagrams, lost or late but within a step *)
(* of the clock.  One sampler is registered at every node.  Round-trip     *)
(* times and sequence numbers are left out.                                *)
(***************************************************************************)
EXTENDS Routing, Histogram, Functions, TLC

CONSTANTS
    PeerPingInterval, PeerPongTimeout,
    SampleLifeTime, NumReportSamples, LocalRadius,
    MaxMessageTTL,
    Scenarios

VARIABLES
    conf,       \* the ring, and what happens in it
    now,        \* the clock, the same for every node
    left,       \* how often things may still happen
    node,
    net         \* datagrams in flight

vars == <<conf, now, left, node, net>>

Never == 0 - PeerPingInterval

Members == {n \in Node : conf.ranges[n] # None}
Range1(n) == conf.ranges[n]
Succ(n) == CHOOSE m \in Members : Range1(m).min = Range1(n).max % AbsMax
Pred(n) == CHOOSE m \in Members : Succ(m) = n

-----------------------------------------------------------------------------
(***************************************************************************)
(* The lists of peers.  A peer on no list is forgotten.                    *)
(***************************************************************************)

Peer(range) == [range |-> range, heard |-> now, sent |-> Never, pinged |-> now]
LongNeighbors(h) == Range(h.long)

Register(h, m, range) ==
    IF m \notin DOMAIN h.peers THEN [h EXCEPT !.peers = @ @@ (m :> Peer(range))]
    ELSE IF range # None THEN [h EXCEPT !.peers[m].range = range]
    ELSE h

UnRegister(h, m) ==
    IF m \in LongNeighbors(h) \cup h.rev THEN h
    ELSE [h EXCEPT !.peers = Restrict(@, DOMAIN @ \ {m})]

UpdateSortedPeerList(n, h) ==
    [h EXCEPT !.sorted = {Succ(n), Pred(n)} \cup LongNeighbors(h)]

AddLongNeighbor(n, h, m, range) ==
    LET known == Register(h, m, range)
    IN  UpdateSortedPeerList(n, [known EXCEPT !.long = IF Contains(@, m) THEN @ ELSE Append(@, m)])

AddReverseLongNeighbor(h, m) ==
    [Register(h, m, None) EXCEPT !.rev = @ \cup {m}, !.peers[m].pinged = now]

RemoveLong(h, m) == UnRegister([h EXCEPT !.long = Remove(@, m)], m)
RemoveReverse(h, m) == UnRegister([h EXCEPT !.rev = @ \ {m}], m)
RemovePeer(n, h, m) == UpdateSortedPeerList(n, RemoveReverse(RemoveLong(h, m), m))

RecvdMessage(h, m) == IF m \notin DOMAIN h.peers THEN h ELSE [h EXCEPT !.peers[m].heard = now]
RegisterSentPing(h, m) == [h EXCEPT !.peers[m].sent = now]
RegisterIncomingPing(h, m) == [h EXCEPT !.peers[m].pinged = now, !.peers[m].heard = now]
\* Faulty: a neighbour that is pinged is judged by its own pings.
LostPongsOfPings(h, m) == now - h.peers[m].pinged > PeerPongTimeout
LostPongs(h, m) == now - h.peers[m].heard > PeerPongTimeout
LostPings(h, m) == now - h.peers[m].pinged > PeerPongTimeout

NextHop(n, h, val) ==
    ComputeNextHop([view |-> [m \in Node |-> IF m \in h.sorted THEN Range1(m) ELSE None],
                    succ |-> <<Succ(n)>>, pred |-> Pred(n)], val)

Pong(n, to) == [type |-> "PONG", from |-> n, to |-> to, range |-> Range1(n)]

-----------------------------------------------------------------------------
(***************************************************************************)
(* Pointers.                                                               *)
(***************************************************************************)

Log2(c) == CHOOSE k \in 0 .. c : 2 ^ k <= c /\ c < 2 ^ (k + 1)

InMyRange(n, val) == RouteDirections([min |-> val, max |-> val], Range1(n)).center

\* GenerateHarmonicValue: exp(u log(count - 1)) nodes away, for u in [0, 1).
HarmonicValues(n, h) ==
    LET count == EstimateNodeCount(h.hist)
        distances == IF count = 1 THEN {0} ELSE 1 .. Max({1, count - 2})
    IN  {GetValueAtDistance(h.hist, Range1(n), d) : d \in distances \cap conf.distances}

\* What k pointers may be asked for, in any order, so that one will do.  A value of the
\* node's own, drawn three times, gives a pointer up.
DrawsFrom(n, values, k) ==
    LET others == {v \in values : ~InMyRange(n, v)}
        sizes == IF others = values THEN {k} ELSE 0 .. k
    IN  {vs \in UNION {[1 .. j -> others] : j \in sizes} :
             \A i \in 1 .. Len(vs) - 1 : vs[i] <= vs[i + 1]}

Draws(n, h, k) == IF h.hist = <<>> THEN {<<>>} ELSE DrawsFrom(n, HarmonicValues(n, h), k)

NeighborRequest(n, h, hop, val) ==
    [type |-> "NBR_REQ", from |-> n, to |-> hop, creator |-> n, value |-> val,
     epoch |-> h.epoch, nonce |-> h.nonce, hops |-> 1]
NeighborResponse(n, m) ==
    [type |-> "NBR_RESP", from |-> n, to |-> m.creator, range |-> Range1(n),
     epoch |-> m.epoch, nonce |-> m.nonce]

\* SendNeighborRequest; the timer is set whether or not there is a next hop.
RepairPointer(n, r, val, hop) ==
    [h   |-> [r.h EXCEPT !.timers = @ \cup {r.h.nonce}, !.nonce = @ + 1],
     out |-> IF hop = None THEN r.out
             ELSE r.out \cup {NeighborRequest(n, r.h, hop, val)}]

RepairPointers(n, h, vs) ==
    FoldLeft(LAMBDA r, v : RepairPointer(n, r, v, NextHop(n, r.h, v)), [h |-> h, out |-> {}], vs)

\* Faulty: the requests of the last epoch keep their timers.
BeginEpochKeeping(h, k) == [h EXCEPT !.epoch = @ + 1, !.wanted = k]

BeginEpoch(h, k) == [h EXCEPT !.epoch = @ + 1, !.timers = {}, !.wanted = k]

Repair(n, h, k) ==
    \E vs \in Draws(n, h, k) :
       \E r \in {RepairPointers(n, h, vs)} :
          /\ node' = [node EXCEPT ![n] = r.h]
          /\ net' = net \cup r.out

\* A histogram from the bootstrap server, of the nodes it has heard of.
HandleEstimateResponse(n) ==
    /\ ~conf.self_histos /\ n \in conf.asking /\ left.estimates > 0
    /\ LET heard == conf.listed[left.estimates]
       IN  node' = [node EXCEPT ![n].hist =
                        UpdateHubHistogram(InitializeHistogram(4), [i \in DOMAIN heard |-> Range1(heard[i])])]
    /\ left' = [left EXCEPT !.estimates = @ - 1]
    /\ UNCHANGED <<conf, now, net>>

\* With few nodes there are no long pointers.
DoPeriodic(n) ==
    LET h == node[n]
        count == EstimateNodeCount(h.hist)
        k == Log2(count)
        repaired == [h EXCEPT !.repaired = count]
    IN  /\ n \in conf.asking
        /\ count > 0
        /\ h.repaired < 8 \/ count > 2 * h.repaired \/ 2 * count < h.repaired
        /\ IF k < 3 THEN node' = [node EXCEPT ![n] = repaired] /\ UNCHANGED net
           ELSE Repair(n, BeginEpoch(repaired, k), k)
        /\ UNCHANGED <<conf, now, left>>

NeighborRequestTimer(n) ==
    /\ left.timeouts > 0
    /\ \E nonce \in node[n].timers :
          Repair(n, [node[n] EXCEPT !.timers = @ \ {nonce}], 1)
    /\ left' = [left EXCEPT !.timeouts = @ - 1]
    /\ UNCHANGED <<conf, now>>

HandleNeighborRequest(n, m) ==
    LET h == node[n]
    IN  /\ m.type = "NBR_REQ"
        /\ IF InMyRange(n, m.value)
           THEN /\ node' = [node EXCEPT ![n] = AddReverseLongNeighbor(h, m.creator)]
                /\ net' = (net \ {m}) \cup {NeighborResponse(n, m)}
           ELSE /\ UNCHANGED node
                /\ net' = (net \ {m}) \cup {Pong(n, m.from)} \cup
                              IF m.hops >= MaxMessageTTL THEN {}
                              ELSE {[m EXCEPT !.from = n, !.to = hop, !.hops = @ + 1] :
                                       hop \in {NextHop(n, h, m.value)} \ {None}}
        /\ UNCHANGED <<conf, now, left>>

\* An answer to a request of an older epoch, or from a neighbour known already, is ignored.
HandleNeighborResponse(n, m) ==
    LET h == [node[n] EXCEPT !.timers = @ \ {m.nonce}]
    IN  /\ m.type = "NBR_RESP"
        /\ node' = [node EXCEPT ![n] =
                       IF h.epoch # m.epoch \/ m.from \in LongNeighbors(h) THEN h
                       ELSE AddLongNeighbor(n, h, m.from, m.range)]
        /\ net' = net \ {m}
        /\ UNCHANGED <<conf, now, left>>

-----------------------------------------------------------------------------
(***************************************************************************)
(* Heartbeats of the links.                                                *)
(***************************************************************************)

PingPeers(n) ==
    LET due == {m \in LongNeighbors(node[n]) : now - node[n].peers[m].sent >= PeerPingInterval}
    IN  /\ now = node[n].pingAt
        /\ node' = [node EXCEPT ![n].pingAt = now + PeerPingInterval,
                                ![n].peers = [m \in DOMAIN @ |-> IF m \in due THEN [@[m] EXCEPT !.sent = now] ELSE @[m]]]
        /\ net' = net \cup {[type |-> "PING", from |-> n, to |-> m] : m \in due}
        /\ UNCHANGED <<conf, now, left>>

\* Pings of nodes that are no reverse neighbours are not answered.
HandleLivenessPing(n, m) ==
    /\ m.type = "PING"
    /\ IF m.from \in node[n].rev
       THEN /\ node' = [node EXCEPT ![n] = RegisterIncomingPing(@, m.from)]
            /\ net' = (net \ {m}) \cup {Pong(n, m.from)}
       ELSE UNCHANGED node /\ net' = net \ {m}
    /\ UNCHANGED <<conf, now, left>>

\* A reverse neighbour whose range was never learnt is taken for one that has moved.
HandleLivenessPong(n, m) ==
    LET h == node[n]
    IN  /\ m.type = "PONG"
        /\ node' = [node EXCEPT ![n] =
                       IF m.from \notin DOMAIN h.peers THEN h
                       ELSE IF h.peers[m.from].range = None THEN RemovePeer(n, h, m.from)
                       ELSE IF m.from \in LongNeighbors(h) THEN RecvdMessage(h, m.from)
                       ELSE h]
        /\ net' = net \ {m}
        /\ UNCHANGED <<conf, now, left>>

\* A silent long neighbour is replaced; the sorted list of peers is not renewed.
CheckLiveness(n) ==
    LET h == node[n]
        silent == {m \in LongNeighbors(h) : LostPongs(h, m)}
        gone == {m \in h.rev \ silent : LostPings(h, m)}
        after == FoldSet(LAMBDA m, g : RemoveLong(g, m), FoldSet(LAMBDA m, g : RemoveReverse(g, m), h, gone), silent)
        repairs == Cardinality(silent) + Cardinality(gone \cap LongNeighbors(h))
    IN  /\ now = h.checkAt
        /\ Repair(n, [after EXCEPT !.checkAt = now + PeerPongTimeout, !.wanted = @ + repairs], repairs)
        /\ UNCHANGED <<conf, now, left>>
-----------------------------------------------------------------------------
(***************************************************************************)
(* Samples: a node's range, and the span that it thinks a node has.        *)
(***************************************************************************)

Sample(n, metric) == [from |-> n, range |-> Range1(n), metric |-> metric]
GetPointEstimate(n) == Sample(n, RangeSpan(Range1(n)))

AddPointEstimate(h, distance, s) ==
    [h EXCEPT !.estimates = [d \in DOMAIN @ \cup {distance} |-> IF d = distance THEN s ELSE @[d]]]

ExpireSamples(h) == [h EXCEPT !.samples = SelectSeq(@, LAMBDA s : s.expiry > now)]

\* The latest come first; of one sender there is one, whichever came last.
AddSample(n, h, s) ==
    IF s.from = n THEN h
    ELSE LET others == SelectSeq(h.samples, LAMBDA o : o.from # s.from)
             before == SelectInSeq(Append(others, [expiry |-> Never]), LAMBDA o : o.expiry < now + SampleLifeTime)
             new == [from |-> s.from, range |-> s.range, metric |-> s.metric, expiry |-> now + SampleLifeTime]
         IN  [h EXCEPT !.samples = InsertAt(others, before, new)]

MakeLocalEstimate(h) ==
    FoldFunction(LAMBDA s, sum : sum + s.metric, 0, h.estimates) \div Cardinality(DOMAIN h.estimates)

\* The node's own average, and some samples of others, expired ones too.
MakeSampleResponse(n, h) ==
    <<Sample(n, MakeLocalEstimate(h))>> \o SubSeq(h.samples, 1, Min({NumReportSamples, Len(h.samples)}))

SampleResponse(n, h, to) ==
    [type |-> "SMP_RESP", from |-> n, to |-> to, samples |-> MakeSampleResponse(n, h)]

Request(n, to, direction) ==
    [type |-> "EST_REQ", from |-> n, to |-> to, creator |-> n, direction |-> direction,
     ttl |-> LocalRadius, hops |-> 1]

DoLocalSampling(n) ==
    /\ n \in conf.sampling /\ left.samplings > 0
    /\ node' = [node EXCEPT ![n] = AddPointEstimate(ExpireSamples(@), 0, GetPointEstimate(n))]
    /\ net' = net \cup {Request(n, Pred(n), "PRED"), Request(n, Succ(n), "SUCC")}
    /\ left' = [left EXCEPT !.samplings = @ - 1]
    /\ UNCHANGED <<conf, now>>

\* Faulty: the distance is what the request may still go.
AtDistanceLeft(m) == IF m.direction = "SUCC" THEN m.ttl ELSE 0 - m.ttl

AtDistance(m) == IF m.direction = "SUCC" THEN m.hops ELSE 0 - m.hops

PointEstimateResponse(n, m) ==
    [type |-> "EST_RESP", from |-> n, to |-> m.creator,
     distance |-> AtDistance(m), sample |-> GetPointEstimate(n)]

HandlePointEstimateRequest(n, m) ==
    /\ m.type = "EST_REQ"
    /\ node' = [node EXCEPT ![n] = RecvdMessage(@, m.from)]
    /\ net' = (net \ {m})
                \cup {PointEstimateResponse(n, m)}
                \cup IF m.ttl = 1 THEN {}
                     ELSE {[m EXCEPT !.from = n, !.to = IF m.direction = "SUCC" THEN Succ(n) ELSE Pred(n),
                                     !.ttl = @ - 1, !.hops = @ + 1]}
    /\ UNCHANGED <<conf, now, left>>

HandlePointEstimateResponse(n, m) ==
    /\ m.type = "EST_RESP"
    /\ node' = [node EXCEPT ![n] = AddPointEstimate(RecvdMessage(@, m.from), m.distance, m.sample)]
    /\ net' = net \ {m}
    /\ UNCHANGED <<conf, now, left>>

\* A walk's step passes for a ping: the next heartbeat leaves the neighbour out.
StartRandomWalk(n) ==
    /\ n \in conf.walking /\ left.walks > 0
    /\ EstimateNodeCount(node[n].hist) > 0
    /\ \E to \in LongNeighbors(node[n]) :
          /\ node' = [node EXCEPT ![n] = RegisterSentPing(@, to)]
          /\ net' = net \cup {[type |-> "SMP_REQ", from |-> n, to |-> to, creator |-> n,
                               ttl |-> Log2(EstimateNodeCount(node[n].hist)) + 1]}
    /\ left' = [left EXCEPT !.walks = @ - 1]
    /\ UNCHANGED <<conf, now>>

\* The pong is due when the last ping is long ago; but this one has just been registered.
HandleSampleRequest(n, m) ==
    LET h == IF m.from \in node[n].rev THEN RegisterIncomingPing(node[n], m.from) ELSE node[n]
        stale == m.from \in node[n].rev /\ now - h.peers[m.from].pinged >= PeerPingInterval
        pong == IF stale THEN {Pong(n, m.from)} ELSE {}
    IN  /\ m.type = "SMP_REQ"
        /\ \/ /\ m.ttl > 1 /\ LongNeighbors(h) = {}
              /\ node' = [node EXCEPT ![n] = h]
              /\ net' = (net \ {m}) \cup pong
           \/ /\ m.ttl > 1
              /\ \E to \in LongNeighbors(h) :
                    /\ node' = [node EXCEPT ![n] = RegisterSentPing(h, to)]
                    /\ net' = (net \ {m}) \cup pong \cup {[m EXCEPT !.from = n, !.to = to, !.ttl = @ - 1]}
           \/ /\ m.ttl = 1
              /\ node' = [node EXCEPT ![n] = h]
              /\ net' = (net \ {m}) \cup pong \cup
                            IF DOMAIN h.estimates = {} THEN {}
                            ELSE {SampleResponse(n, h, m.creator)}
        /\ UNCHANGED <<conf, now, left>>

HandleSampleResponse(n, m) ==
    /\ m.type = "SMP_RESP"
    /\ node' = [node EXCEPT ![n] = RecvdMessage(FoldLeft(LAMBDA h, s : AddSample(n, h, s), @, m.samples), m.from)]
    /\ net' = net \ {m}
    /\ UNCHANGED <<conf, now, left>>

\* Samples that all begin alike, which a ring that stands still does not have, are left out.
MakeHistogram(n) ==
    LET h == ExpireSamples(node[n])
        samples == Append(h.samples, GetPointEstimate(n))
        made == [h EXCEPT !.hist = MakeHistogramFromSamples(samples)]
    IN  /\ conf.self_histos
        /\ Defined(samples)
        /\ node' = [node EXCEPT ![n] = made]
        /\ UNCHANGED <<conf, now, left, net>>

-----------------------------------------------------------------------------
(***************************************************************************)
(* Deaths, losses and the clock.                                           *)
(***************************************************************************)

Receive(n) ==
    \E m \in net :
       /\ m.to = n
       /\ \/ HandleNeighborRequest(n, m)
          \/ HandleNeighborResponse(n, m)
          \/ HandleLivenessPing(n, m)
          \/ HandleLivenessPong(n, m)
          \/ HandlePointEstimateRequest(n, m)
          \/ HandlePointEstimateResponse(n, m)
          \/ HandleSampleRequest(n, m)
          \/ HandleSampleResponse(n, m)

Crash(n) ==
    /\ n \in conf.mortal
    /\ node' = [node EXCEPT ![n].up = FALSE]
    /\ UNCHANGED <<conf, now, left, net>>

\* A datagram is lost; what goes to a dead node always is.
Lose ==
    \E m \in net :
       /\ IF node[m.to].up THEN left.losses > 0 /\ left' = [left EXCEPT !.losses = @ - 1]
                           ELSE UNCHANGED left
       /\ net' = net \ {m}
       /\ UNCHANGED <<conf, now, node>>

\* Datagrams take no time, and what is due is done.
Tick ==
    /\ left.time > 0
    /\ net = {}
    /\ \A n \in Members : node[n].up => node[n].pingAt > now /\ node[n].checkAt > now
    /\ now' = now + 1
    /\ left' = [left EXCEPT !.time = @ - 1]
    /\ UNCHANGED <<conf, node, net>>

\* Joined, with the links of the scenario, each known to its other end.
NewNode(c, n) ==
    LET long == IF n \in DOMAIN c.long THEN c.long[n] ELSE <<>>
        rev == {m \in DOMAIN c.long : Contains(c.long[m], n)}
        P(range) == [range |-> range, heard |-> 0, sent |-> Never, pinged |-> 0]
    IN  [up |-> TRUE, long |-> long, rev |-> rev,
         peers |-> [m \in rev |-> P(None)] @@ [m \in Range(long) |-> P(c.ranges[m])],
         sorted |-> {m \in Node : c.ranges[m] # None /\
                        (\/ Contains(long, m)
                         \/ c.ranges[m].min = c.ranges[n].max % AbsMax
                         \/ c.ranges[n].min = c.ranges[m].max % AbsMax)},
         epoch |-> 0, nonce |-> 0, timers |-> {}, wanted |-> 0,
         hist |-> c.hist, repaired |-> -1, estimates |-> c.estimates[n], samples |-> <<>>,
         pingAt |-> PeerPingInterval, checkAt |-> PeerPongTimeout]

Init ==
    /\ conf \in Scenarios
    /\ now = 0
    /\ left = conf.left
    /\ node = [n \in Members |-> NewNode(conf, n)]
    /\ net = {}

Next ==
    \/ \E n \in Members :
          /\ node[n].up
          /\ \/ HandleEstimateResponse(n)
             \/ DoPeriodic(n)
             \/ NeighborRequestTimer(n)
             \/ PingPeers(n)
             \/ CheckLiveness(n)
             \/ DoLocalSampling(n)
             \/ StartRandomWalk(n)
             \/ MakeHistogram(n)
             \/ Receive(n)
             \/ Crash(n)
    \/ Lose
    \/ Tick

Spec == Init /\ [][Next]_vars

-----------------------------------------------------------------------------

\* A long neighbour that lives and answers is kept, when nobody walks and as few datagrams
\* are lost as the timeout allows for (CheckLiveness, HandleLivenessPing, HandleLivenessPong).
LivingLinksStay ==
    \A n \in Members :
        \A m \in LongNeighbors(node[n]) : m \in LongNeighbors(node'[n]) \/ ~node[m].up

\* A node waits for no more answers than it wants pointers for, counting the neighbours it
\* has lost (RepairLongPointers, NeighborRequestTimer, OnPeerDeath).
RepairsBounded == \A n \in Members : Cardinality(node[n].timers) <= node[n].wanted

\* The estimate at a distance is of the node so far away (DoLocalSampling,
\* HandlePointEstimateRequest).
EstimatesPlaced ==
    \A n \in Members : \A d \in DOMAIN node[n].estimates :
        LET Away[i \in 0 .. LocalRadius] ==
                IF i = 0 THEN n ELSE IF d > 0 THEN Succ(Away[i - 1]) ELSE Pred(Away[i - 1])
        IN  node[n].estimates[d].from = Away[IF d < 0 THEN 0 - d ELSE d]

\* A histogram made of samples has every value in one bucket (MakeHistogramFromSamples).
HistogramWhole ==
    conf.self_histos => \A n \in Members : node[n].hist # <<>> => Tiles(node[n].hist)

\* What a node believes of the loads around it fits the ring.
LoadsKnown == EstimatesPlaced /\ HistogramWhole
=============================================================================
