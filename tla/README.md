# A verification of the distributed game server

The program is a game server distributed in the style of Colyseus: every server
owns some of the game's objects, keeps replicas of the others' objects its own
are interested in, and finds them through a *locator*, a quadtree of published
locations and subscriptions. The repository also carries *Mercury*, the
publish/subscribe overlay such a server can find objects with instead of a central
locator (`extras/Merc`, C++, nine tenths of the repository's code). This directory
holds TLA+ specifications of both, TLC configurations that check them on small
instances, and TLAPS proofs.

- [Inventory](#inventory)
- [The modules and how they correspond to the code](#the-modules-and-how-they-correspond-to-the-code)
- [The runs](#the-runs)
- [Bounds and fairness](#bounds-and-fairness)
- [What is proved](#what-is-proved)
- [Where the code and its comments disagree](#where-the-code-and-its-comments-disagree)
- [What is not modelled](#what-is-not-modelled)
- [Plan](#plan)

To check: `tlc -config MCColyseus_replication.cfg MCColyseus.tla` (and the other
configurations); `tlapm ColyseusProofs.tla`, and likewise the other seven modules
named `...Proofs`. Paths are below `src/`, those of Mercury below `src/extras/Merc/`.

## Inventory

| component | source | state | operations | what makes it correct |
|---|---|---|---|---|
| Replication manager | `lib/server/server.go` | `Primaries`, `Replicas`, `primaryInterest`, `peerEndpoints`, one mutex | RPCs `Spawn`, `Update`, `RegisterInterest`, `NotifySubscriber`; `AdvanceGameState`; the loops `PublishLoop` and `CleanupLoop`; `ConnectToPeer` | one owner per object, known to every replica; replicas never ahead of the owner; only the owner creates; only a death or the cleanup removes a replica; a replica that can be registered is registered |
| Locator store | `demo/locator/quadtree.go` | the tree, `lastUpdates` | `Insert`, `Query`, `Cleanup` | live entries stay, superseded ones are never answered, a query finds what it covers, the tree stays a tree |
| Locator service | `demo/locator/locator.go` | the store, connections to servers | RPCs `Publish`, `Subscribe`; a cleanup loop | whoever is subscribed to an area hears of what is published in it |
| Game objects | `lib/game/game.go` | an object's rectangle and latest event | `ApplyEvent`, `GetAdjustedRect`, `GetLocation`, `GetInterest` | the area of interest covers what the object can reach until the next publication |
| Game loop | `demo/server/server.go` | timers of NPCs and projectiles | collision rule, calls of `AdvanceGameState` | a hit kills the target and the projectile |
| Demo client | `demo/client/client.go` | its avatar's guid | `Spawn`, then `Update` | |
| Old copy of the game | `demo/server/game.go` | | unused | |
| RPC stubs, scripts | `lib/*/proto`, `scripts` | | generated; start processes | |

**Interactions.** A server's `PublishLoop` sends its primaries' locations and areas
of interest to the locator, each in an RPC of its own. The locator's handlers
query the other kind and call `NotifySubscriber` on the servers whose
subscriptions match. That handler calls `RegisterInterest` on the owners of the
objects it has no replica of and stores the snapshots it gets back. From then
on the owner pushes every event it applies by `Update`. The same RPC carries a
client's input to its server and an input from a server with a replica to the
owner: the receiver tells the three apart only by whether *it* has the target as
primary or as replica. `CleanupLoop` drops the replicas that no area of
interest covers and renews the interest in the rest.

**Hard behaviours.** Each RPC runs in a goroutine of its own, so calls overtake
each other; no handler holds its mutex across a call, so what it decided on may
have changed when the answer comes; a failed call is logged and not repeated;
markers and publications expire. `PROJECT.json` lists the places
under `hazards`, each with the properties aimed at it, or a note why there is none.

### Mercury

The overlay orders its nodes on a circle per attribute, a *hub*; each node answers for
a range of values. "Not used for experimental purposes in this project", says its
`README:4`; the Go program does not link it.

| component | source | state | operations | what makes it correct |
|---|---|---|---|---|
| Ring maintenance | `mercury/LinkMaintainer.cpp`, `Hub.cpp` | range, status, lists of successors and predecessors, peers and when they were heard from, join in progress | join, leave, notify, ask for the predecessor and the successor list, ping, drop | no value has two owners, the ring does not split, and heals when faults end |
| Publish/subscribe | `mercury/PubsubRouter.cpp` | stored subscriptions and triggers, caches of what was seen | route, spread along the range, store, match, hand over, expire | what overlaps meets, and at one node; messages come nearer |
| Bootstrap server | `mercury/BootstrapNode.cpp`, `HubManager.cpp` | nodes heard from, representatives handed out, the all clear | requests, heartbeats, clean-up | every joiner is led into the one ring; the all clear is neither early nor missing |
| Load balancing | `mercury/LoadBalancer.cpp` | state of a negotiation, loads of others | move a boundary; ask a light node to leave and join here | ranges remain a partition; neighbours do not leave together |
| Long links and sampling | `mercury/Hub.cpp`, `LinkMaintainer.cpp`, `Peer.cpp`, `Sampling.cpp`, `MetricInfo.cpp` | long neighbours, pings, estimates, samples, a histogram | look for neighbours at harmonic distances, repair, estimate, walk | links to the living stay; estimates and histograms fit the ring |
| Node and application | `mercury/MercuryNode.cpp`, `HubManager.cpp`, `wan-env/WANMercuryNode.cpp` | queues, hubs, handlers | the node's loop, choice of hubs, delivery | an event is read once per hub in which a subscription was first |
| Messages | `mercury/Message.*`, `Packet.cpp`, `AutoSerializer.h`, `rpc/*MercRPC.h` | | serialize, read, measure, compress, copy | what is read is what was sent |
| Transports | `wan-env/TCP*`, `UDP*`, `CBR*`, `Delayed*` | connections, queues | connect, accept, frame, rotate, limit, delay | whole messages, in order; everybody's turn comes |
| Network layer | `wan-env/RealNet.cpp` | transports, usage windows | select, choose, record | no transport starves; the usage told is not more than there was |
| Schedulers | `mercury/EventQueue.h`, `Timer.*`, `wan-env/WANScheduler.cpp`, `sim-env/Simulator.cpp` | queue, clock | raise, cancel, execute | every event raised runs once |
| Calls | `rpc/` | calls and results waited for, samplers by id | call, serve, return; restart | a call returns, with its own result |
| Identifiers and moments | `mercury/MercuryID.cpp`, `util/TimeVal.cpp` | one static buffer | arithmetic, to and from bytes | numbers survive a packet; delays add up |
| Utilities, drivers, tests | `util/`, `apps/`, `tests/` | | | |

**Interactions.** A node asks the bootstrap server for a representative and joins
through it (`Bootstrap`, then `Ring`). The hub routes over the successors and long
links that `Ring` and `LongLinks` maintain (`Routing`, `PubSub`). Load balancing
changes the ranges under them and makes nodes leave. All of them send messages
(`Layouts`, `Wire`) over `RealNet` and its transports (`TCPTransport`, `Datagrams`) and
run their timers in the node's scheduler. The application sits on top, in the same
process (`MercuryNode`) or in another one (`RemoteCalls`).

**Hard behaviours.** Datagrams get lost, late and out of order, and streams break;
nodes crash at any step of a join, leave or repair; every wait is a timer that races
its answer; two nodes ask each other the same thing at once; ranges wrap around the
end of the key space; messages are objects that are measured, written, read and copied
by hand-written code per class; calls nest both ways.

## The modules and how they correspond to the code

### Colyseus

The replication manager, all servers and the network between them. A step is
what one goroutine does between two points where it gives up the mutex or waits
for a call.

| variable | code |
|---|---|
| `primaries[s][g]`, `replicas[s][g]` | `Primaries`, `Replicas` of server `s`; `None` is "no entry" |
| `interest[s][g]` | `primaryInterest[g]` of `s`: a sequence of markers, each with the ticks it has left |
| `peers[s]` | keys of `peerEndpoints` |
| `tasks[s][t]` | a goroutine in the middle of a loop of `RegisterInterest` calls: `NotifySubscriber`'s second half, or the renewals `CleanupLoop` starts. It is in the `"loop"`, its `"call"` is on its way, or the `"reply"` is |
| `calls` | `Update` calls on their way: pushes (with an event number), forwarded inputs (without) |
| `origin[g]`, `serialized[g]` | history: who spawned `g`, by which event of which parent; how many events the owner has applied |

| action | code (`lib/server/server.go`) |
|---|---|
| `ConnectToPeer`, `Spawn` | the functions of these names, with `SpawnObject` |
| `UpdatePrimary` | `HandleUpdate` at a primary: apply, spawn what was created, push to live markers, delete what died |
| `ForwardUpdate` | `HandleUpdate` at a replica |
| `AdvanceGameState` | one of the goroutines it starts, with any input for any object |
| `ReceiveUpdate`, `UpdateReplica`, `UpdateUnknown` | the `Update` handler and its three branches |
| `ClientUpdate` | an `Update` by a client at the server that spawned its avatar |
| `UpdateFails`, `RegisterFails` | the error branches; a registration may fail before or after the owner handled it |
| `NotifySubscriber`, `CleanupLoop` | up to the release of the mutex; they start a task |
| `CallPeer`, `RegisterInterest`, `ReceiveStates` | the loop over peers: choosing one, the handler at the owner, storing the answer |
| `Tick` | time passing for markers |

*Positions.* Nothing in the manager depends on coordinates, so a primary is the
number of the latest event applied to it and a replica the number of its latest
event plus a bit `exact`: whether its position is the one the owner had right
after that event. A replica is moved by the time since its latest event under
that event's input; the result is the owner's only when the event is the next
one. The code's timestamps are the owner's event numbers: two events in the same
millisecond differ by nothing that the properties see. Whether an area
of interest covers a replica is any truth value, and the locator may report any
object ever spawned, so nothing relies on the locator being right or in time.

*Named twice.* The locator names a publication once for every subscription of a server that it
matches (`locator.go:106-114`), and `NotifySubscriber` asks for whatever it was told, so one request may
name an object several times: `RegisterInterest` leaves as many markers, and every event is pushed as often.

*Shields.* `ApplyEvent` returns early for a `Shield` at the owner and at replicas;
the checked instances spawn players and projectiles, the proofs cover all three.

*Faulty variants.* A definition with `Faulty:` in its comment is no part of the
specification. It stands before the definition it is a mistaken form of, and
putting it in that definition's place makes TLC report the property it is listed
with under `mutants` in `PROJECT.json`: the properties are able to fail.

### PrimaryCopy

What the manager promises to the application, without messages: an object has
one owner for life, only the owner moves it on, death is final, what an event
creates belongs to the same owner, and other servers hold copies that may be
old but are never invented. `Colyseus!ImplementsPrimaryCopy` maps `origin`,
`serialized` and the owner's table to its `objects`, and the replicas' latest
events to its `copies`. A copy may go back to an older version, because
a late snapshot overwrites a newer replica: that is what the code does, and so
what the abstract specification allows.

### Quadtree

The locator's store. The code's recursion runs under the root's mutex from start
to end, so `Insert`, `Query` and `Cleanup` are one step each; a node is the path of
quadrants that leads to it, `store[p]` what it holds and `divided` the nodes with
children. `Insert` walks the chain of first children that the rectangle touches
to the first node with room, expiring on its way; `Query` expires and reads the
nodes that touch the query; `Cleanup` expires everywhere and takes the children
of a node when all four are empty and undivided. Entries are stale when their
time is over or the object's latest insertion expires later (`lastUpdates`).
Coordinates are whole numbers, chosen so that every quadrant border is one.

### Mercury: keys, the ring and what travels on it

`Circle` holds ranges, directions and distances (`Constraint.cpp`). `Ring` extends it: a
hub's state per node, actions `HandleJoinRequest`, `DoSuccListMaintenance`,
`DoLeaveJoin`, `CheckLiveness` and all message handlers, datagrams as a set and each
stream as a sequence. Timers have no delays; what their delays guarantee is in the
guards: a node drops only a peer that can no longer be heard (45 s of silence
against pings every 15 s) and gives up a join only when no answer is on its way (25
attempts, 2 s apart). Faults are a budget in the first state: crashes, losses, repeats,
leaves, late requests.

`Routing` (`ComputeNextHop` and `GetNearestPeer`) and `PubSub`: an item goes hop by hop to the
owner of the least value of its range, from there along the successors, is stored,
triggers or matches, and moves when a node joins or leaves. A scenario fixes the
ring, what is sent and by whom, and the one change that happens.

`Bootstrap`: server and clients. Times are left out; an entry is stale when no heartbeat can
refresh it any more. `LoadBalance`: five nodes in a ring, with requests that cross, timers that
reset a node's state, answers that are late, and whether checks lie farther apart
than an answer needs (`conf.apart`).

`LongLinks` and `Histogram`: a clock that ticks 5 s, so that `PeerPingInterval` is 3,
`PeerPongTimeout` 9. Spans are fractions of one denominator, where the code has floats.

### Mercury: below and above the ring

`Scheduler`: the event queue with both clocks. The event that executes is still on top
and is popped afterwards; what it raises, cancels and registers again happens in
between. `Wire` gives each class of `Layouts` three descriptions, translated from its
`Serialize`, its constructor from a packet and its `GetLength`; a packet is a sequence of
cells, and reading at another width yields garbage. `Numbers` tries all numbers of a few
limbs (bytes of two bits) and all sums of delays, carries included.

`TCPTransport`: both ends of every connection, the bytes between them as pieces of
messages, the table by address and the list of connections; `Datagrams`: the queue per
sender, rotation, constant-rate senders and artificial latency; `RealNet`: the choice
among transports and the bandwidth windows. `MercuryNode`: the node's loop in its three
forms (`DoWork`, `Recv`/`Send`, the simulator). `RemoteCalls`: a process is the stack of
what it waits for and what it serves.

| code | where |
|---|---|
| `Node`, `IPEndPoint` | a node is its address; a restarted one keeps it |
| `PROTO_UDP` / `PROTO_TCP` | a set of messages / a sequence per pair |
| `Timer::OnTimeout` | an action with the timer's condition as its guard |
| `MercuryID`, `Value` | a number below `AbsMax`, but in `Numbers` and `Wire` |
| `Parameters` | constants named as there, or a field of the scenario |

### Mercury, MCColyseus, MCQuadtree, MCRing, MCMercury

Values for TLC: object types and inputs, symmetry of servers, objects and
goroutines (they are only compared for equality); rectangles on a world of side 4. `Mercury`
puts together the parts of Mercury beside the ring that theorems are about (bootstrap server, load
balancing, TCP, schedulers, calls), and `MCMercury` adds the others. One part runs at a time:
`machine` says which one, `v1` to `v5` are its variables, and a property of a part reads
`machine = "part" => Part!Property`. The parts share no state there; their compositions
are the scenarios, whose states are those another part leaves (a ring that stands, a
node that joins it, neighbours that are lost).

## The runs

| run | what it checks | states, about |
|---|---|---|
| `replication` | `TypeOK`, `OneOwner`, `NeverAhead`, `UnregisteredIsNewborn` with two calls in flight, failures, shots and deaths | 1 000 000 |
| `shots` | `OneProjectilePerShot` with three objects: a shooter, its projectile, and a guid for one too many | 800 000 |
| `implements` | `IInv`, `CopiesVanishWithObject` and `ImplementsPrimaryCopy` with two markers per object: a server drops a replica, registers again, renews | 290 000 |
| `renewal` | violated: a renewal does not extend the marker (see below) | |
| `at_rest` | violated: a replica stays behind its owner for good | |
| `store` | `TypeOK`, `ContainedIsFound`, `LatestEntryOnly`, `LiveEntriesStay` of the store | 48 000 |
| `query` | violated: a query misses an entry that crosses a border | |
| `publications` | violated: an object's subscription removes its publication | |
| `ring` | `TypeOK`, `NoOverlap`, `OneRing`, and `Heals` of three hubs that join, leave, die and rejoin | 70 000 |
| `ring_joins` | violated: `ClaimedOnce` when two nodes join at once | |
| `mercury` | the safety properties of Mercury's other parts (below), and `EverybodyStarts`, `EveryTransportHeard`, `CallsReturn` under fairness | 270 000 |
| `leave` | violated: `TriggersFollow` when a node leaves | |

What the properties say:

- `TypeOK` (Colyseus). Besides shapes: a replica's latest event is always a number,
  so no input *without* timestamp is ever applied to a replica. The code has no
  check for it; it relies on inputs reaching only owners, or servers that know
  nothing of the object.
- `OneOwner`. The primary is where the object was spawned, a replica is elsewhere
  and names that server. Forwarding and renewing depend on it.
- `NeverAhead`. A replica's latest event is one the owner serialized.
- `UnregisteredIsNewborn`. A replica of a living object that the owner holds no
  marker for has been stored proactively with its creator and has seen no event
  of its own, and while the creator lives the owner has a marker for *that*.
  So only proactive replication makes replicas nobody updates, and only newborn
  ones.
- `OneProjectilePerShot`. Owner and replicas all apply the shot; one projectile
  comes of it, on the shooter's server.
- `CopiesVanishWithObject`. A replica disappears only in its own server's
  `CleanupLoop` or when the object is already dead at its owner.
- `ContainedIsFound`, `LiveEntriesStay`, `LatestEntryOnly`. The store answers with
  every live entry that lies within a query, however nodes were emptied, refilled,
  divided and coalesced; no operation loses a live entry; two entries of an
  object are never visible with different expiry times. The last holds because all
  requests are for the same time to live, as in the demo; with two lifetimes, an
  entry kept for longer survives a later one kept for shorter
  (`quadtree.go:53`), which the property does not test.

Of Mercury:

- `NoOverlap`. Members' ranges, with those that are on their way to joiners, are disjoint in a ring
  laid out beforehand that nobody leaves, whoever dies, and in one that nodes join one after the
  other (`apart`), whoever asks twice. When nodes join at once it is false from four nodes on
  (`ClaimedOnce`), and so it is when one leaves (see below). `OneRing`: every member has a successor, and the first successors of any two
  lead to a common one or to a joiner whose join response is on its way. `Heals`: in the
  end everybody alive is a member, the ranges cover the circle, each one ends where the first
  successor's begins, and it stays so, also after joins at once and leaves.
- `NoMatchLost`, `MatchedOnce`. On a ring that stands still, when nothing is under way, the
  subscriber has every publication that overlaps its subscription, whichever came first; it
  has a publication of a point once, one of a range if it was not fanned out or kept as a
  trigger (see below). `HopsAdvance`: every hop is nearer to the owner of the value, or
  there is none because the predecessor's range wraps. `TriggersFollow`: what a node stored goes along with the part of its range it gives away.
- `RepsLeadIn`. No joiners wait for one another, unless one started again; `AllClear`: it is not
  given before the nodes expected have joined or died; `OneRingBuilt`: one founder, and a static ring's places fit.
  `EverybodyStarts`: the all clear reaches all.
- `Partition`. If checks are apart, ranges that move never overlap; and until somebody is asked to
  leave, they meet whenever no answer is on its way. Its conditions leave out the two
  behaviours at `LoadBalancer.cpp:172` and `:408` that do break it (below); what it tests are requests that cross.
  `LeavesAlone`: two neighbours never leave at the same time, and what a busy node waits for can still
  come, unless its own check or the answer to it was lost, its successor left, or it was
  denied with nobody left to ask: then the code keeps it busy.
- `WholeAndInOrder`, `NothingStranded`. Messages over TCP come whole, and those of one sender in
  order (after a death: those of one connection); while nobody dies, what was sent and not
  read is in a connection its receiver reads or will accept. `QueuesServe`: turns are taken, and a full queue drops the oldest.
- `CarriedWhole`. What is read is what was written, of all 103 classes, also compressed,
  sent on, or stored in slices. `NumbersKept`: numbers survive a packet, and delays add up.
- `UsageTold`. The usage counts every packet in the window and none twice, but for the first bucket.
  `EveryTransportHeard`: a message that arrived on a transport is handed over although
  another is never idle.
- `RunsOnce`. Every event raised is executed once, then goes. `EventsArrive`: subscription
  and publication meet in one hub, and the event is read once for it.
- `LivingLinksStay`. A long neighbour that lives is kept, when nobody walks over it and no more datagrams
  are lost than the timeout allows for;
  `RepairsBounded`: repairs under way are not more than links wanted; `LoadsKnown`: estimates are
  of the node at that distance, histograms cover every value once.
- `OwnResult`, `CallsReturn`. Whatever is nested or called both ways at once, a call
  returns, with its own result, of the type its stub asserts.

## Bounds and fairness

The bounds are constants in guards. `MaxEvents` bounds the events of an object,
`MaxMarkers` the markers of an object, `MaxCalls` the `Update` calls in flight,
`Task` the goroutines of a server in `RegisterInterest` loops; `MaxDepth`,
`MaxStored` and `MaxTime` the quadtree. They suffice for the interesting cases:

- two events of one object in flight at once (`replication`) let pushes overtake
  each other, the snapshot, and a death; a player, its projectile and the
  forwarding of both fit in two objects;
- a second projectile for one shot needs a third object (`shots`);
- two markers of one object (`implements`) let a server hold a stale and a live
  one, or be pushed to twice;
- three levels and one entry per node, with three entries (`store`), reach a
  node with room above a filled child, a full chain, and a coalescing branch.

A snapshot that an interest loop holds, a renewal, a failure at each stage and a marker's
expiry occur in all of the three. In the instances the time to live of a marker is one
tick: more ticks add only more ways to be unexpired.

`CHECK_DEADLOCK FALSE` is set because the bounds stop the models: all events used and
all calls delivered. The Go program's properties are safety properties, without fairness.

*Ring.* Three nodes. `Budgets` chooses how a ring starts and which faults it meets: it grows from
one node, two joining at once or (`apart`) one after the other; or it is laid out
beforehand, with one range that wraps, and a node crashes, one leaves to rejoin at a
heavier one, or a datagram is lost while peers are pinged. Three nodes have lists that
lose an entry and keep one, but only among four is there a member whose successor
has not been told yet of two joiners between them: `ring_joins` has four, and `NoOverlap`
excludes what it shows. `apart` means that a node begins to join when nobody else joins and
every member's successor knows it as predecessor; the code does not ensure it, but
joins a few maintenance periods (1 s) apart do. A leave ends `PeerPingInterval` (15 s)
after it began: what the node sent as a member, and the answers, have arrived by then. `MaxDatagrams` bounds what is in flight. *The other parts* get
scenarios in place of large domains, each named after what happens in it: four nodes
on a circle of 8 values for publications (wrapped ranges, fan-out, an outsider, a
joiner, lapsing); three nodes for the bootstrap server, with crash, restart and loss; five
for load balancing (two neighbours and one on either side); three processes for TCP (a
triangle, a pair connecting both ways, a death with a restart); two senders and a queue of
two packets for datagrams; three entries and two firing times for the scheduler; eight
nodes for long links (a harmonic distance of 2 or more), four for walks and estimates.

*Fairness.* `ring`: timers fire and what was sent is delivered or its connection found
closed (`WF`); `DoSuccListMaintenance` is a periodic timer of the code that the bound `MaxDatagrams`
may disable for a while, which strong fairness makes up for (`SF`). `mercury`: the bootstrap
server's timers and both ends' message loops run (`WF`); `RealNet`'s `select` is not
interrupted for ever, and `random_shuffle` puts every transport first again and again
(`RealNet.cpp:626-629`, a comment that says it is there against starvation); both
processes of `RemoteCalls` run `ProcessRPCs` when idle and busily wait in `AsyncResult`
(`RealNetMarshaller.cpp:40-52`), so each takes its steps (`WF` per process). None of them is about the network:
losses are bounded by the scenario.

## What is proved

Of the 36 properties of the passing runs that are not about liveness, 24 are theorems (one of
them, `NoOverlap`, for the rings laid out beforehand), the
refinement of `PrimaryCopy` among them. They hold for any sets of servers, nodes,
objects, messages and entries, any faults the models have and any bounds, as long as
the constants satisfy the assumption of their module, which TLC evaluates for the
instances (among them `ColyseusAssumption`, `QuadtreeAssumption`, `RingAssumption`, `MercuryAssumption`).

| module | theorem | states |
|---|---|---|
| `ColyseusProofs` | `TypeCorrect`, `OwnershipHolds`, `NeverAheadHolds`, `ShotsHold`, `UnregisteredHolds` | `Spec => []` of `TypeOK`, `OneOwner`, `NeverAhead`, `OneProjectilePerShot`, `UnregisteredIsNewborn` |
| | `RoutingHolds`, `InvariantHolds` | the inductive invariant: its first layer, and all of it (`IInv`) |
| | `VanishingHolds` | `Spec => CopiesVanishWithObject`, an action property |
| | `Refinement` | `Spec => ImplementsPrimaryCopy` |
| `QuadtreeProofs` | `TypeCorrect`, `ContainedHolds`, `LatestHolds` | `Spec => []` of `TypeOK`, `ContainedIsFound`, `LatestEntryOnly` |
| | `LiveEntriesHold` | `Spec => LiveEntriesStay`, an action property |
| | `NothingLeftBehind` | `Spec => []Reached`, which the others need |
| `RemoteCallsProofs` | `CallsInvariant`, `EveryCallReturnsItsOwn` | the invariant, and `OwnResult` |
| `LoadBalanceProofs` | `LeavesAloneHolds`, `PartitionHolds` | `LeavesAlone`, `Partition` |
| `BootstrapProofs` | `RepsLeadInHolds`, `AllClearHolds`, `OneRingBuiltHolds` | `RepsLeadIn`, `AllClear`, `OneRingBuilt` |
| `TCPProofs` | `MessagesOverTCPWholeAndInOrder`, `MessagesOverTCPNotStranded` | `WholeAndInOrder`, `NothingStranded` |
| `RingProofs` | `RingTypes`, `StaticRangesApart` | `TypeOK`, and `NoOverlap` in a ring laid out beforehand |
| `MercuryProofs` | `EveryEventRunsOnce` | `RunsOnce` |
| | `JoinersLeadIn`, `AllClearIsTrue`, `OneRingIsBuilt`, `RangesPartition`, `LeaversLeaveAlone`, `StreamsWholeAndInOrder`, `StreamsStrandNothing`, `EventsRunOnce`, `ResultsAreOwn` | the nine above of the parts put together (`Mercury`), as the run `mercury` checks them |
| | `UsageIsTold` | `UsageTold` |

*The replication manager* (`ColyseusProofs`). None of the properties is inductive alone: each
depends on what the messages and goroutines in flight know. The inductive invariant is proved in four layers,
each of them preserved by a step on the strength of the ones before, with one
lemma per action that is not trivial for it.

1. `Routing == TypeOK /\ OneOwner /\ CallsRouted /\ TasksRouted`. `TypeOK` would be
   broken by an input without timestamp that reaches a server with a replica;
   excluding that takes `OneOwner` *and* what messages know (`CallsRouted`: an
   input travels to the owner, a push from it, its created objects have the same
   owner, and it deletes only its target). `OneOwner` would be broken by an
   answer to `RegisterInterest` stored for an object its peer does not own, which
   takes `TasksRouted` (a goroutine asks a server, other than its own, only for
   that server's objects, and an answer is about what was asked).
2. `Behind == PrimariesBehind /\ CallsBehind /\ StatesBehind /\ NeverAhead`. The
   owner only counts up; a push, a primary and a snapshot carry a number it had
   reached. `BehindStep` reduces a step to what it adds, so old messages need
   no argument, however late they come.
3. `Shots == OriginsKnown /\ OneProjectilePerShot`. A new projectile is made by an
   event newer than every event that made one before, since those the owner had
   already counted; only the owner makes objects.
4. `Registration == CallsCurrent /\ StatesCurrent /\ UnregisteredIsNewborn`. A living
   object's markers are never removed (`Lasting`): a deletion takes markers away
   only at the owner, with the object. So whoever was registered when a push
   was sent or a snapshot taken is registered when it arrives, or the object is
   dead. A replica stored proactively inherits its creator's registration.

`CopiesVanishWithObject` follows step by step: a push that deletes is sent when the
object is dead already, and neither snapshots nor events turn a replica into none.
The refinement maps `Spawn` to `Create`, `UpdatePrimary` to `Modify` (the owner has no
replica of its own object, so its cleanup of one is nothing), what changes
replicas to `Copy`, and everything else to a stutter; `NeverAhead` and `OneOwner`
after the step are what `Copy` asks of the new replicas.

*The quadtree.* `TypeOK` says that no node holds more than its capacity, but at the greatest
depth, and that the divided nodes are closed under parents. Two facts carry the rest.
`Reached`: entries are only at nodes that exist, so dividing again what coalesced brings
nothing back. `Placed`: what a node holds touches the node's rectangle; a query that
contains an entry's rectangle therefore walks through every node above it. `Insert` expires
entries with a copy loop, a recursive function here: that it keeps the live entries and their
order is shown by taking the least length for which it does not (`LeastNumber`).
`LatestHolds` supposes that all entries are kept for the same time, as the servers ask for
(`server.go:120,133`); then `lastUpdates` is the expiry of the object's latest
entry, and any other entry is stale by it.

*Calls between node and application.* A call is told from another by its nonce alone.
`Matched` says that no process has made the same nonce twice, and that whatever request,
service or answer carries the nonce of a call that is open, on either stream, in either
queue or on either stack, is about that call. `Typed` adds that an answer has the type
that the dispatcher gives, `Known` that the application has the sampler a call is about,
and `Connected` that a connection that closes takes its calls along, which is where a restart
could let a new call meet an old answer. `GetSamples` is excepted: its stub asserts (below).

*Load balancing.* Two neighbours could leave at once if the one that agreed to stay changed its
mind before the other has left. `Checks` and `Leaving` say that a successor that agreed is
unstable, and neither leaves nor checks, as long as its answer is under way or its
predecessor is leaving; `Waiting` that whoever waits has a timer or a message to come, or one
of the three excuses of `WaitIsOver`. That its own check or answer was lost is recorded in the history variable `left.unheard`,
which no action reads: a loss elsewhere excuses nobody. A
step changes the states of one node and puts messages of one kind on the net (`Frame`), so
it disturbs the invariant only around that node. This holds
whether checks lie farther apart than an answer takes (`conf.apart`) or not.

That ranges stay a partition is not seen from the ranges alone: a neighbour that has given up a
part does not have it any more, and who asked for it does not have it yet. What is *due* to a
node is the range in the answer on its way to it, if there is one that it will take, or else
the range it has (`Dues`). The invariant `PartitionInv` says, if checks are apart, that the
arcs of the circle that are due to nodes, and the gaps between neighbours' arcs, are
disjoint and none of the former is empty (`Spread`); that there is one request or answer of a node at a
time, made while its reset is pending, and that it and the node agree: a request still has the range
of who asked, an answer extends it on the side of who answers (`Exchange`); and that, until
somebody is asked to leave, every answer is waited for and there are no gaps (`Meet`).
A step then moves one point of a boundary, and what one arc grows by, another arc or a gap gives
up (`Trade`). Arcs are sets of points on a circle of any size; the arithmetic of remainders is in
lemmas of its own (`Points` to `PointIs`). `WholeAssumption` asks for two nodes or more whose
ranges begin as a partition. `Partition` was first stated without its conditions: the step
that could not be proved was one that the code can take, and TLC then found the
behaviours (below).

*The bootstrap server.* That joiners do not wait for one another in a circle is no invariant
of one node: `Earlier` says that no set of nodes is closed under "joins through". A node
that is answered now is sent to one that was answered before, so a closed set with it would be
one without it. `Remembered` and `Founders`: who was told what to do stays in the list
while it lives, so only the first is told to found a ring. `Reported`, `Known` and `Clear`:
the server counts a node as joined when it has joined, and forgets it only when it died. A
process that starts again breaks these three, which is why `RepsLeadIn` and `AllClear` exclude
restarts. `PlacesFit` is about the static ring: an order of the nodes by distinct idents exists
(by induction on the least counterexample), and steps around it are remainders.

*Messages over TCP.* A stream is cut into messages by the lengths in it alone: one byte too few
or too many, and everything that follows is garbage. `Streams` says of each end that what is
unread is a sequence of whole messages in the order of their numbers, except that the rest of
the one being read comes first (`Framed`), however reads cut it; that it is newer than all that
was heard over the connection, and older than all that its sender has still to send.
`WholeAndInOrder` over one connection follows. For the order over several connections,
and for `NothingStranded`, `Calm` says what holds while nobody died: no connection was closed,
every accepted one is in its node's list, and a message is in no connection but the one
that its sender's table has for the receiver (`StandsIn`), so two nodes that connect to each
other at once use one connection each for good; and every message is still to be sent, in
a connection, or given (`PresentIn`).

*The ring.* For any nodes and ranges, any number of successors kept, any crashes, losses, pings
and datagrams in flight. `RingTypes`: a list holds a peer once; the range of a peer is known
just when it is listed, which is what the reference counts of `Peer` are for. `TypeInv` is
`TypeOK` with the one thing it needs more: a node without range has empty lists, and a
member has a range (`Placed`), or it would tell others a range it does not have. The lists are
changed by loops, recursive functions here; that something holds after each round is `EveryRound`, by the
least round for which it does not (`LoopKeeps`, `LoopLeads`), so neither sorting nor merging takes an induction theorem.
`SortedIs`: sorting keeps the elements whatever the comparison is, and leaves the list in
order if the comparison is an order *on that list*, which `less_peer_t` is not in general.

`StaticRangesApart`: in a ring laid out beforehand no value is ever the business of
two nodes. A range is stretched to where that of the first successor begins
(`HandlePred`), by what the successor said some time ago and on the word of a list that
was sorted, merged and cut in between. So it must never be that somebody alive lies between
a node and its first successor. `StaticInv` says why not. Where a range begins never changes
(`pos`), so whatever a node knows or is told about it is right; distances on the
circle are from a node's own place (`Way`). Successors are listed nearest first
(`InOrder`), and between a node and the first, or one listed and the next, nobody
alive is left out (`NoGap`); the same holds of a list in a message, counted from
its sender (`ListTold`, `Told`). A crash only takes away who could be left out. A list from the
successor continues what the node had, and a predecessor that the successor names is put
in front, where it belongs. Then nobody alive is before the first successor
(`NobodyBefore`), and stretching up to there keeps the beginnings of all others out of the
range (`Sound`, `SoundStretch`), so it meets no other's (`NothingShared`).
It starts like that because of how `BootstrapNode::ReadIdentMap` lays the ring out
(`StaticInit`; `StaticRangeAssumption` states the layout: sorted idents, each range
from one to the next). Where as many peers are kept as there are nodes, a node is its own
last predecessor (`Kept`), as in the code, but never its own successor (`Taken`); the proof allows for it.

*The schedulers.* For any sets of entries and timers and any delays (natural
numbers), simulated or by the wall clock. The danger is that an event is executed on top
of the heap and popped only afterwards: what it raises must not climb above it, or `pop`
takes the new entry and the old one runs again. The invariant says that while an
entry executes no entry of the queue fires before it, that entries raised meanwhile
fire no earlier than now, and how often each entry was executed, by whether it is
queued, executing or gone. `conf.putBack` (a wall clock that is set back) is
excluded in `RunsOnce`: there the event does run twice.

*The network layer.* Packets are counted in measurements that cover a bucket of time each, and
asking for the usage drops measurements from the front of the window, so what a later answer may
count depends on when it was asked for before. The invariant `LayerInv` therefore speaks of every
moment, not only of the one the window begins at now: since any moment the window has measured no
more than came, and since any moment not older than the window no less than came, but for a bucket
(`Fits`). Measurements are in the order of time (`Ascending`), so those that are dropped are all the
old ones and no other. `Used`, the loop that adds the sizes up, is a recursive function here; that
it has a value, and what appending, growing and dropping do to it, follows from the least number
for which it would not (`LeastOf`, `EveryStep`).

*Parts put together.* In `Mercury` the variable `machine` never changes, and while a part runs
the steps of the whole are its own; each theorem of a part becomes one of the whole by
temporal logic alone.

The proofs rest on the following, which is true of the code or named as a limit of the model.
Guids and the nonces of calls are drawn at random; the models take them as unique. The nodes of a hub are finitely
many, and idents in an ident map distinct. A TCP message is not empty, and the models number
the messages of a sender in the order it sends them, to be able to speak about that order.

Only model-checked:

- liveness (`Heals`, `EverybodyStarts`, `EveryTransportHeard`, `CallsReturn`), which is out of
  TLAPS's reach;
- `OneRing`, which takes an argument about all paths at once, by reachability after any number of
  steps, and `NoOverlap` where nodes join one after the other: there a place changes when
  its range is split, and who already knows the new node is part of the invariant;
- `NoMatchLost`, `MatchedOnce`, `HopsAdvance` and `TriggersFollow` of publications: routes are
  chosen by folds over sequences, whose results for every input need induction over data;
- `RepairsBounded`, `LoadsKnown`, `LivingLinksStay` and `NumbersKept`, for the same reason: spans, loads and limbs
  are summed by folds;
- `CarriedWhole`, `QueuesServe` and `EventsArrive`: `Wire`, `Datagrams` and `MercuryNode` use recursive
  operators.

## Where the code and its comments disagree

1. `server.go:299`: *"If the request is a renewal, we don't need to send back the
   initial state, just update TTL"*. `RegisterInterest` never looks at
   `IsRenewal`; each renewal appends a marker. While two markers of a
   server are unexpired it is sent every push twice (run `renewal`).
2. `server.go:411-412`: *"the update will eventually be replicated to us"*. The owner answers
   `RegisterInterest`, applies an event and pushes it; the push arrives first,
   finds no replica and is dropped; then the older snapshot is stored. Nothing
   sends the event again: the replica is behind until the next event, and
   inexact after it (run `at_rest`, no failures, one object).
3. `quadtree.go:125`: *"Query finds all rectangles that intersect"*. An entry in
   the middle is stored, below a full node, in the first quadrant it touches; a
   query in another quadrant does not find it (run `query`).
4. `locator.go:87`: *"Publications are stored in the quadtree for a TTL"*.
   `lastUpdates` does not tell publications from subscriptions, so an object's
   subscription that arrives a millisecond after its publication removes it
   (run `publications`).
5. `mercury/LinkMaintainer.cpp:998`: *"each message contains (a) new range, (b) triggerlist and
   (c) sublist"*. `DoLeaveJoin` empties the stores (`PrepareLeave`) before the message is
   made, so it carries neither: a leave loses what the node stored (run `leave`).
6. `mercury/Constraint.cpp:128`: `Covers` is *"used to test for range ownership (otherwise touching ranges will
   both claim the one overlapping id)"*, but two members may own the same values for a time. Two nodes join
   through one member within a maintenance period; the member's old predecessor hears of
   the second only, introduces itself, and is accepted, because the second knows no
   predecessor yet (`LinkMaintainer.cpp:618`); at the next round it takes everything up to
   its new successor, the first joiner's part included (`:502`, run `ring_joins`). The following rounds repair it,
   unless a join splits the range that is too wide.

Met while modelling Mercury, and excepted by name in the properties concerned:

- *Ring.* A member forgets a joiner after `TCPFailureTimeout`; a request of that joiner that was
  still in the stream is granted another half (`LinkMaintainer.cpp:264`). A leave's notice that comes after the
  node rejoined removes the new peer; the notice to the predecessor and the new join begin
  together (`:993`), so the predecessor may find the node, now elsewhere, without predecessor,
  introduce itself and take everything up to its new place. `CheckLiveness` erases while it iterates.
- *Routing.* `Constraint::Covers` (`Constraint.cpp:124`) is false for wrapped ranges, so with a
  wrapped predecessor `ComputeNextHop` may find nobody and drop the message. Fanned-out
  publications are never marked as the left end and are matched twice.
- *Bootstrap.* A founder that starts again while a joiner waits for it is sent to that joiner: both wait.
- *Load balancing.* With the default intervals a check follows in 8 s while an answer may take 10 s: the reset makes
  the node deaf to it and leaves a gap in the ring (`LoadBalancer.cpp:172-182`), or the late answer is
  taken for that to the next request to the same neighbour, and ranges overlap (`:783`). The timer of
  a leave check is never cancelled (`:454`): it denies a request nobody waits for, and the
  denial resets a node that waits for a neighbour's answer by then (`:408`), which leaves a gap too. When it
  fires for a node that still waits, it denies the request but leaves the node in `CHECKING_SUCC` (`:468-476`), though the
  comment at `:534` says *"ignore the lb request, erase all state"*: a node whose check or answer is lost stays
  busy for good, as does one denied with nobody left to ask (`:415`).
- *Long links.* `Hub.cpp:1608` says a ping is answered by a pong, but a ping that stands in a random walk
  is registered before it is tested (`:1616`), and no pong is sent: a living neighbour that is
  only walked to is dropped after `PeerPongTimeout`. `LivingLinksStay` is checked for pings.
  Samples that begin alike make `MakeSamplesDisjoint` leave one, and `samples[n-2]` is read (`:1945`).
- *Messages.* `MsgJoinResponse::GetLength` counts 4 bytes for an error of which 1 is written
  (`Message.cpp:393,433`), so a denial asserts; `MsgCompressed` writes 64 bits through a pointer to 32
  (`:1381`); a sampler's local estimate is read with a count that is not written (`rpc/MercRPC.h:491`).
- *Transports.* A connection is closed by its peer's address, so the end of a duplicate closes the one in use
  (`TCPTransport.cpp:225`); a header read in parts asserts (`TCPConnection.cpp:61`).
- *Network layer.* The time left to a slice is unsigned and wraps when `select` oversleeps (`RealNet.cpp:120`); usage misses up to one bucket.
- *Scheduler.* A wall clock that is put back makes an event run twice (`WANScheduler.cpp:67`).
- *Moments.* A sum of exactly one second keeps its million microseconds and compares as earlier (`TimeVal.cpp`).
- *Node.* Items taken off the application's queue before a hub is known are dropped silently (`HubManager.cpp:437`).
- *Calls.* `MercuryNodeClientStub::GetSamples` sends `RegisterLoadSampler` and asserts on the result
  (`MercuryNodeClientStub.cpp:181`); an application that dies in a call leaves its node waiting for ever
  (`RealNetMarshaller.cpp:44`); one that starts again is asked about samplers it does not know.

## What is not modelled

- Go: `PublishLoop` and the locator's two handlers, movement and areas of interest, the demo's
  collision rule (see the plan). Hazards there that no
  property covers, beside those in `PROJECT.json`: a subscription's matches are thrown away
  (`server.go:153`), a projectile jumps when an event arrives (`game.go:213`), more than `capacity` entries on one point
  divide the quadtree without end (`quadtree.go:77`).
- Mercury's utilities (`util/`: containers, callbacks, reference counts, threads, options; `Cache`, `Parameters`):
  data structures and adapters that the specifications replace by sets, sequences and
  functions; `callback.h` and `fib.cpp` are third-party code. Drivers, tests, Python bindings, `make_stub.pl`: they exercise the library or generate code.
- Within modelled parts of Mercury: the schema, sanity checks and measurements of the bootstrap
  server; windows of loads; the cache of ranges (off by default); the log of messages; socket
  errors; artificial loss; statistics; `WANScheduler::ProcessFor`, which would run events up to a limit
  in the future (`WANScheduler.h:50`) and has no callers. `PROJECT.json` says for each component what is left out.
- Three servers with two handlers each are no longer an instance of `Colyseus`: what it showed
  is a theorem (`InvariantHolds`).
- `demo/server/game.go`: not used. Generated stubs and scripts: no logic.
- The configuration setters, statistics and logging.
- Data races on `peerEndpoints` and `locatorEndpoint`, which are read without the
  mutex: reads and writes are atomic in the model.
- A server that crashes. Nothing is persisted and nothing reconnects, so a
  restarted server would be a new one.
- `reactions` of `ApplyEvent`: the code never produces one.

## Plan

Done: `Colyseus`, `PrimaryCopy` and `Quadtree` with all their proofs; Mercury from the ring to the
wire, with the proofs of seven of its parts. Next, in this order:

1. `Locator`: `Publish` and `Subscribe` as query-then-insert handlers over `Quadtree`,
   and the calls of `NotifySubscriber`; what two simultaneous requests miss.
2. `Discovery`: servers with `PublishLoop` and the locator, abstracted; liveness
   under weak fairness of the loops: an object in a subscribed area is eventually
   replicated, a replica of a dead or uninteresting object eventually goes.
3. `InterestLease`: a clock, the renewal period and the delay as constants; a
   registered replica is always covered by a live marker when the
   period and delay fit the time to live. Theorem, for all values.
4. `Game`: motion, clamping and areas of interest as functions in fixed point,
   against reference definitions over bounded inputs.
5. Proofs: `NoOverlap` of a ring that nodes join one after the other, by the invariant of the
   static ring with places that change once, at a join; then `OneRing`.
6. `Ring` and `PubSub` together: publications while the ring repairs itself, where today it stands but for one change.
