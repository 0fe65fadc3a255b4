-------------------------------- MODULE PubSub --------------------------------
(***************************************************************************)
(* Publications and subscriptions in one Mercury hub                       *)
(* (mercury/PubsubRouter.cpp): an application queues them at its node, the *)
(* node routes them to the node that answers for the least value of their  *)
(* range, from there they pass along the successors, and wherever one is   *)
(* taken in it is matched with what is stored.                             *)
(*                                                                         *)
(* The ring stands still but for one change: a node may hand half of its   *)
(* range to a joiner, or leave.  Peers' ranges are as they were known when *)
(* the ring was laid out.  UDP messages come in any order; what a node     *)
(* hands over comes in order (PROTO_TCP).  Time is abstract: a stored item *)
(* is live until it lapses.  Acknowledgements and the pong sent after a    *)
(* change of range are left out.                                           *)
(***************************************************************************)
EXTENDS Routing

CONSTANTS
    MaxMessageTTL,
    Scenarios       \* how the ring is laid out, what is queued, what may happen

VARIABLES
    conf,       \* the scenario
    node,       \* what each node holds
    net,        \* datagrams in flight
    pipe,       \* what is handed over to a node, in order
    got         \* how often each node's application has received each publication

vars == <<conf, node, net, pipe, got>>

-----------------------------------------------------------------------------
(***************************************************************************)
(* Storing and matching.  An item is an interest or an event: its id, who  *)
(* made it, its range, and whether it is live yet.                         *)
(***************************************************************************)

Match(n, to, id) == [kind |-> "MATCHED", to |-> to, from |-> n, id |-> id]

Item(m, live) == [id |-> m.id, by |-> m.by, cst |-> m.cst, live |-> live]

\* An interest is stored and answered with the publications stored before it.
HandleSubAtRendezvous(n, h, m) ==
    [h   |-> [h EXCEPT !.subs = Append(@, Item(m, TRUE))],
     out |-> IF ~conf.triggers THEN {}
             ELSE {Match(n, m.by, t.id) :
                      t \in {o \in Range(h.trigs) : Overlaps(m.cst, o.cst)}}]

\* Faulty: a publication goes to every subscriber it meets.
DeliverPubEverywhere(n, h, m, left) ==
    {Match(n, i.by, m.id) : i \in {o \in Range(h.subs) : Overlaps(o.cst, m.cst) /\ o.live}}

\* One message to each subscriber of a live interest; when both ranges begin further to
\* the left, a node there has matched them.
DeliverPubToSubscribers(n, h, m, left) ==
    LET matches(i) ==
            /\ Overlaps(i.cst, m.cst)
            /\ conf.backpub \/ i.by # m.by
            /\ i.live
            /\ ~(left /\ RouteDirections(i.cst, h.range).left)
    IN  {Match(n, i.by, m.id) : i \in {o \in Range(h.subs) : matches(o)}}

\* A publication is matched, and kept for interests to come if triggers are enabled.
HandlePubAtRendezvous(n, h, m, left) ==
    [h   |-> IF conf.triggers THEN [h EXCEPT !.trigs = Append(@, Item(m, TRUE))] ELSE h,
     out |-> DeliverPubToSubscribers(n, h, m, left)]

AtRendezvous(n, h, m, left) ==
    IF m.kind = "SUB" THEN HandleSubAtRendezvous(n, h, m)
    ELSE HandlePubAtRendezvous(n, h, m, left)

-----------------------------------------------------------------------------
(***************************************************************************)
(* Routing: what node n, holding h, does with a message.                   *)
(***************************************************************************)

Hop(m, n, to) == [m EXCEPT !.from = n, !.to = to, !.hops = @ + 1]

\* Every peer concerned gets the part up to the next one.
FanOut(n, h, m, c, eligible) ==
    LET Stop(i) == IF i = Len(eligible) THEN c.max ELSE h.view[eligible[i + 1]].min - 1
    IN  {Hop([m EXCEPT !.fan = TRUE, !.stop = Stop(i)], n, eligible[i]) : i \in DOMAIN eligible}

DoFanout(n, h, m, c) == FanOut(n, h, m, c, GetCoveringPeers(h, c))

\* What a node does, with more messages to send.
Also(r, more) == [r EXCEPT !.out = @ \cup more]

\* A message that fans out has come to a node it concerns.
Linear(n, h, m, c, d) ==
    Also(AtRendezvous(n, h, m, d.left), IF d.right /\ ~Wraps(h.range) THEN DoFanout(n, h, m, c) ELSE {})

HandleLinear(n, h, m) ==
    LET c == [min |-> h.range.max, max |-> m.stop]
    IN  Linear(n, h, m, c, RouteDirections(c, h.range))

Onwards(n, h, m) ==
    IF h.succ = <<>> THEN {} ELSE {Hop([m EXCEPT !.linear = TRUE], n, Head(h.succ))}

\* A message goes towards the node of its least value; there and from there on it is
\* taken in and passed to the successor, as far as its range goes.
RouteRange(n, h, m, d, next) ==
    LET on == IF ~d.right THEN {}
              ELSE IF conf.fanout /\ ~m.linear THEN DoFanout(n, h, m, m.cst)
              ELSE Onwards(n, h, m)
    IN  IF m.hops >= MaxMessageTTL THEN [h |-> h, out |-> {}]
        ELSE IF d.center /\ (m.linear \/ ~d.left) THEN Also(AtRendezvous(n, h, m, d.left), on)
        ELSE IF m.linear THEN [h |-> h, out |-> on]
        ELSE [h |-> h, out |-> IF next = None THEN {} ELSE {Hop(m, n, next)}]

RouteRangeData(n, h, m) ==
    RouteRange(n, h, m, RouteDirections(m.cst, h.range), ComputeNextHop(h, m.cst.min))

Process(n, h, m) ==
    IF h.range = None THEN [h |-> h, out |-> {}]
    ELSE IF m.fan THEN HandleLinear(n, h, m) ELSE RouteRangeData(n, h, m)

-----------------------------------------------------------------------------

\* The node that follows n along the ring.
After(ranges, n) ==
    CHOOSE m \in Node : /\ m # n /\ ranges[m] # None
                        /\ ranges[m].min % AbsMax = ranges[n].max % AbsMax

\* A settled ring: a node knows its successors, and either all nodes or its neighbours.
NewNode(c, n) ==
    LET inside == {m \in Node : c.ranges[m] # None}
        succ == After(c.ranges, n)
        pred == CHOOSE m \in inside : After(c.ranges, m) = n
        known == IF c.far THEN inside \ {n} ELSE {succ, pred}
    IN  [status |-> IF n \in inside THEN "JOINED" ELSE "UNJOINED",
         range |-> c.ranges[n],
         succ |-> IF n \in inside THEN <<succ>> ELSE <<>>,
         pred |-> IF n \in inside THEN pred ELSE None,
         view |-> [m \in Node |-> IF n \in inside /\ m \in known THEN c.ranges[m] ELSE None],
         subs |-> <<>>, trigs |-> <<>>,
         queue |-> SelectSeq(c.queue, LAMBDA q : q.by = n)]

Ids == {q.id : q \in UNION {Range(c.queue) : c \in Scenarios}}

Init ==
    /\ conf \in Scenarios
    /\ node = [n \in Node |-> NewNode(conf, n)]
    /\ net = {}
    /\ pipe = [n \in Node |-> <<>>]
    /\ got = [n \in Node |-> [i \in Ids |-> 0]]

\* A publication or subscription as it leaves node n.
Routed(q, n) ==
    [kind |-> q.kind, id |-> q.id, by |-> n, cst |-> q.cst, from |-> n, to |-> n,
     linear |-> FALSE, fan |-> FALSE, stop |-> 0, hops |-> 0]

Does(n, datagrams, r) ==
    /\ node' = [node EXCEPT ![n] = r.h]
    /\ net' = datagrams \cup r.out

\* What the application queued first is routed from its node, or handed to a member of
\* the hub when the node is none (SendPacket, SendAppPublication, SendAppSubscription).
SendPacket(n) ==
    LET q == Head(node[n].queue)
        m == Routed(q, n)
        h == [node[n] EXCEPT !.queue = Tail(@)]
    IN  /\ node[n].queue # <<>>
        /\ Does(n, net, IF n = conf.outsider THEN [h |-> h, out |-> {Hop(m, n, conf.rep)}]
                        ELSE Process(n, h, m))
        /\ UNCHANGED <<conf, pipe, got>>

\* A publication matched elsewhere is the application's; the rest is for a node that has
\* joined.
ReceiveMessage(m) ==
    LET n == m.to
        others == net \ {m}
    IN  /\ UNCHANGED <<conf, pipe>>
        /\ IF m.kind = "MATCHED"
           THEN /\ got' = [got EXCEPT ![n][m.id] = @ + 1]
                /\ net' = others
                /\ UNCHANGED node
           ELSE /\ UNCHANGED got
                /\ IF node[n].status = "JOINED" THEN Does(n, others, Process(n, node[n], m))
                   ELSE net' = others /\ UNCHANGED node

\* The life of something stored ends.
Lapse(n) ==
    /\ conf.lapse
    /\ \/ \E i \in DOMAIN node[n].subs : node[n].subs[i].live
             /\ node' = [node EXCEPT ![n].subs[i].live = FALSE]
       \/ \E i \in DOMAIN node[n].trigs : node[n].trigs[i].live
             /\ node' = [node EXCEPT ![n].trigs[i].live = FALSE]
    /\ UNCHANGED <<conf, net, pipe, got>>

\* ExpiryTimer, every second.
Expire(n) ==
    LET live(list) == SelectSeq(list, LAMBDA i : i.live)
    IN  /\ \E i \in Range(node[n].subs) \cup Range(node[n].trigs) : ~i.live
        /\ node' = [node EXCEPT ![n].subs = live(@), ![n].trigs = live(@)]
        /\ UNCHANGED <<conf, net, pipe, got>>

-----------------------------------------------------------------------------
(***************************************************************************)
(* Handing over what belongs to another node.                              *)
(***************************************************************************)

\* Faulty: whatever is sent is deleted.
KeptAfterMove(list, r, mine) ==
    SelectSeq(list, LAMBDA i : i.live /\ ~OverlapsNodeRange(i.cst, r))

\* Of a list, what goes to a neighbour with range r, and what stays with a node whose
\* range is "mine" now.
HandedOver(list, r) == SelectSeq(list, LAMBDA i : i.live /\ OverlapsNodeRange(i.cst, r))
KeptAfter(list, r, mine) ==
    SelectSeq(list, LAMBDA i : i.live /\ (OverlapsNodeRange(i.cst, r) => OverlapsNodeRange(i.cst, mine)))

\* A list that is handed over; an empty one is not sent.
HandoverList(t, list) == IF list = <<>> THEN <<>> ELSE <<[type |-> t, list |-> list]>>

\* HandleJoinRequest at n: the joiner gets the lower half, then what is stored for it.
Split(n) ==
    LET h == node[n]
        j == conf.joiner
        kept == [min |-> Middle(h.range), max |-> h.range.max]
        assigned == [min |-> h.range.min, max |-> Middle(h.range)]
        view == [m \in Node |-> IF m = n THEN kept
                                ELSE IF Contains(h.succ, m) THEN h.view[m] ELSE None]
    IN  /\ j # None /\ pipe[j] = <<>> /\ node[j].range = None
        /\ h.status = "JOINED" /\ h.range.max - h.range.min > 1
        /\ node' = [node EXCEPT ![n] =
               [h EXCEPT !.range = kept, !.pred = j, !.view[j] = assigned,
                         !.subs = KeptAfter(@, assigned, kept),
                         !.trigs = KeptAfter(@, assigned, kept)]]
        /\ pipe' = [pipe EXCEPT ![j] =
               <<[type |-> "JOIN_RESPONSE", from |-> n, range |-> assigned, view |-> view]>>
               \o HandoverList("SUB_LIST", HandedOver(h.subs, assigned))
               \o HandoverList("TRIG_LIST", HandedOver(h.trigs, assigned))]
        /\ UNCHANGED <<conf, net, got>>

\* A leaver stops answering for its range and forgets its peers and what it stored.
PrepareLeave(h) ==
    [h EXCEPT !.subs = <<>>, !.trigs = <<>>, !.status = "UNJOINED", !.range = None,
              !.succ = <<>>, !.pred = None, !.view = [m \in Node |-> None]]

Matching(list, r) == SelectSeq(list, LAMBDA i : OverlapsNodeRange(i.cst, r))

\* What overlaps the range comes in.  An interest has no time of death then, so the
\* next ExpiryTimer deletes it; a trigger has a new one.
AddNew(h, list, live) ==
    LET mine == Matching(list, h.range)
    IN  [k \in DOMAIN mine |-> [mine[k] EXCEPT !.live = live]]

\* DoLeaveJoin at n: the store is cleared before the leave notifications are made
\* from it.
Leave(n) ==
    LET h == node[n]
        succ == Head(h.succ)
        rsucc == [min |-> Middle(h.range), max |-> h.view[succ].max]
        rpred == [min |-> h.view[h.pred].min, max |-> Middle(h.range)]
        left == PrepareLeave(h)
        Notice(r) == [type |-> "LEAVE", from |-> n, range |-> r,
                      subs |-> Matching(left.subs, r), trigs |-> Matching(left.trigs, r)]
    IN  /\ conf.leave = n /\ h.status = "JOINED"
        /\ node' = [node EXCEPT ![n] = left]
        /\ pipe' = [pipe EXCEPT ![succ] = Append(@, Notice(rsucc)),
                                ![h.pred] = Append(@, Notice(rpred))]
        /\ UNCHANGED <<conf, net, got>>

\* JOIN_RESPONSE, SUB_LIST, TRIG_LIST or LEAVE.
Receive(n) ==
    LET msg == Head(pipe[n])
        h == node[n]
        moved == [h EXCEPT !.range = msg.range]
    IN  /\ pipe[n] # <<>>
        /\ pipe' = [pipe EXCEPT ![n] = Tail(@)]
        /\ node' = [node EXCEPT ![n] =
              CASE msg.type = "JOIN_RESPONSE" ->
                       [h EXCEPT !.status = "JOINED", !.range = msg.range, !.succ = <<msg.from>>,
                                 !.view = msg.view]
                [] msg.type = "SUB_LIST"  -> [h EXCEPT !.subs = @ \o AddNew(h, msg.list, FALSE)]
                [] msg.type = "TRIG_LIST" -> [h EXCEPT !.trigs = @ \o AddNew(h, msg.list, TRUE)]
                [] msg.type = "LEAVE" ->
                       [moved EXCEPT !.subs = @ \o AddNew(moved, msg.subs, FALSE),
                                     !.trigs = @ \o AddNew(moved, msg.trigs, TRUE),
                                     !.succ = SelectSeq(@, LAMBDA m : m # msg.from),
                                     !.pred = IF @ = msg.from THEN None ELSE @,
                                     !.view[msg.from] = None]]
        /\ UNCHANGED <<conf, net, got>>

Next ==
    \/ \E n \in Node : SendPacket(n) \/ Lapse(n) \/ Expire(n) \/ Split(n) \/ Leave(n) \/ Receive(n)
    \/ \E m \in net : ReceiveMessage(m)

Spec == Init /\ [][Next]_vars

-----------------------------------------------------------------------------
(***************************************************************************)
(* Properties.                                                             *)
(***************************************************************************)

Queued(kind) == {q \in Range(conf.queue) : q.kind = kind}
Still == conf.joiner = None /\ conf.leave = None
AtRest == net = {} /\ \A n \in Node : pipe[n] = <<>> /\ node[n].queue = <<>>
Straight == \A n \in Node : conf.ranges[n] # None => ~Wraps(conf.ranges[n])

\* No pair of an interest and an event is lost: whatever way they take through a ring
\* that stands still, and whichever comes first, at rest the subscriber has the event
\* (RouteRangeData, GetNearestPeer, DoFanout).
NoMatchLost ==
    (AtRest /\ Still /\ ~conf.lapse /\ conf.triggers) =>
        \A s \in Queued("SUB"), p \in Queued("PUB") :
            (Overlaps(s.cst, p.cst) /\ s.by # p.by) => got[s.by][p.id] > 0

\* ... and reported once: an event of a point always, an event of a range as long as
\* nothing is kept for interests to come and the range is passed on from one successor to
\* the next: a part that was fanned out does not know what lies to its left
\* (DeliverPubToSubscribers).
MatchedOnce ==
    (Straight /\ Still) =>
        \A p \in Queued("PUB") : (p.cst.min = p.cst.max \/ ~(conf.triggers \/ conf.fanout)) =>
            \A n \in Node : got[n][p.id] <= Cardinality({s \in Queued("SUB") : s.by = n})

Distance(val, r) == (val - r.min) % AbsMax

Nearer(h, val, next) ==
    IF next = None THEN h.pred # None /\ Wraps(h.view[h.pred])
    ELSE Distance(val, h.view[next]) < Distance(val, h.range)

\* Every hop brings a message nearer to the node that answers for the value, so that a
\* message arrives, unless the predecessor's range wraps: then the message may be dropped
\* (ComputeNextHop, with ranges that a split made stale too).
HopsAdvance ==
    \A n \in Node : LET h == node[n] IN
        (h.status = "JOINED" /\ Peers(h) # {}) =>
            \A val \in (0 .. AbsMax - 1) \ Cells(h.range) :
                Nearer(h, val, ComputeNextHop(h, val))

\* Where event id is kept: the values of its range whose node has it or is being sent it.
KeptFor(id) ==
    LET Holds(n) == \/ \E t \in Range(node[n].trigs) : t.id = id
                    \/ \E msg \in Range(pipe[n]) :
                          \/ msg.type = "TRIG_LIST" /\ \E t \in Range(msg.list) : t.id = id
                          \/ msg.type = "LEAVE" /\ \E t \in Range(msg.trigs) : t.id = id
        Mine(n) == UNION ({Cells(node[n].range) : r \in {node[n].range} \ {None}}
                          \cup {Cells(msg.range) : msg \in {x \in Range(pipe[n]) :
                                   x.type \in {"JOIN_RESPONSE", "LEAVE"}}})
        c == (CHOOSE q \in Range(conf.queue) : q.id = id).cst
    IN  {v \in c.min .. c.max : \E n \in Node : v \in Mine(n) /\ Holds(n)}

\* A stored event follows the range it belongs to: no step makes a node forget it for a
\* value (HandoverTriggers, AddNewTrigger, SendLeaveNotification).
TriggerFollows ==
    ~conf.lapse => \A p \in Queued("PUB") : KeptFor(p.id) \subseteq KeptFor(p.id)'
TriggersFollow == [][TriggerFollows]_vars
=============================================================================
