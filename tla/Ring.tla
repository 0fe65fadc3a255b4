-------------------------------- MODULE Ring --------------------------------
(***************************************************************************)
(* The ring of one Mercury hub (mercury/LinkMaintainer.cpp and the peer    *)
(* lists of mercury/Hub.cpp): nodes join by taking half of the range of a  *)
(* node that has joined, keep lists of successors and predecessors, repair *)
(* them from what their successor says, leave again to rejoin elsewhere,   *)
(* and drop the peers they no longer hear from.                            *)
(*                                                                         *)
(* hub[n] is what node n's MemberHub holds.  A PList is the sequence of    *)
(* its addresses; "known" is the range in the Peer object that all lists   *)
(* of the node share.  Datagrams (PROTO_UDP) are a set, so they come late, *)
(* in any order, or never; PROTO_TCP keeps a sequence for every pair.      *)
(*                                                                         *)
(* A timer's delay is not modelled, but what the delays guarantee is: a    *)
(* node suspects only who can no longer be heard, and gives up joining     *)
(* only when no answer is on its way.  Bounds (the code has none):         *)
(* MaxDatagrams in flight, and the budget of faults chosen at the start.   *)
(***************************************************************************)
EXTENDS Circle, Sequences, FiniteSets, SequencesExt

CONSTANTS
    Node,
    First,              \* the node the bootstrap server lets join first
    None,
    StaticRange,        \* the ranges of a ring that is laid out beforehand
    NSuccessorsToKeep,
    MaxJoinAttempts,
    MaxDatagrams,
    Budgets,            \* how a ring starts and how many faults it may meet
    Light,              \* the nodes whose load balancer may decide to leave ...
    Heavy               \* ... and those it may want to join again

\* static: the ring is laid out beforehand.  apart: nodes join one after the other, and do
\* not leave to join elsewhere.
Budget == [static : BOOLEAN, apart : BOOLEAN, crash : Nat, leave : Nat, loss : Nat, ping : Nat]

ASSUME RingAssumption ==
    /\ First \in Node /\ None \notin Node /\ None \notin NodeRange /\ IsFiniteSet(Node)
    /\ AbsMax \in Nat \ {0} /\ NSuccessorsToKeep \in Nat \ {0}
    /\ MaxJoinAttempts \in Nat /\ MaxDatagrams \in Nat
    /\ Light \subseteq Node /\ Heavy \subseteq Node
    /\ StaticRange \in [1 .. Cardinality(Node) -> [min : 0 .. AbsMax, max : 0 .. AbsMax]]
    /\ Budgets \subseteq {b \in Budget : b.apart => b.leave = 0}

\* The ranges laid out beforehand go round the circle once, each up to the next one.
ASSUME StaticRangeAssumption ==
    LET places == 1 .. Cardinality(Node)
    IN  /\ \A i \in places :
              LET next == StaticRange[IF i = Cardinality(Node) THEN 1 ELSE i + 1].min
              IN  /\ StaticRange[i].min < AbsMax
                  /\ StaticRange[i].max = next \/ (next = 0 /\ StaticRange[i].max = AbsMax)
        /\ \A i, j \in places : i < j => StaticRange[i].min # StaticRange[j].min
        /\ \A i, j, k \in places :
              i < j /\ j < k => IsBetween(StaticRange[j].min, StaticRange[i].min, StaticRange[k].min)

VARIABLES
    hub,        \* what each node's MemberHub and LinkMaintainer hold
    udp,        \* datagrams in flight
    tcp,        \* messages on the connection from one node to another, in order
    budget      \* faults that may still happen

vars == <<hub, udp, tcp, budget>>

Status == {"UNJOINED", "JOINED", "DEAD"}

Hub == [status : Status, range : NodeRange \cup {None},
        succ : Seq(Node), pred : Seq(Node),
        known : [Node -> NodeRange \cup {None}],
        answered : SUBSET Node, rep : Node \cup {None}, attempts : 0 .. MaxJoinAttempts + 1,
        away : [pred : Node, range : NodeRange] \cup {None}]

-----------------------------------------------------------------------------
(***************************************************************************)
(* Peer lists: operators that take what a node holds and give it back      *)
(* changed.                                                                *)
(***************************************************************************)

Listed(h) == Range(h.succ) \cup Range(h.pred)

\* A peer on no list is unregistered, and its range forgotten.
UnRegister(h) ==
    [h EXCEPT !.known = [m \in Node |-> IF m \in Listed(h) THEN h.known[m] ELSE None]]

Least(S) == CHOOSE i \in S : \A j \in S : i <= j

\* What comes before the first of the places at which to stop.
Upto(list, stops) == SubSeq(list, 1, IF stops = {} THEN Len(list) ELSE Least(stops) - 1)

\* A loop that begins with b, and does steps[i] to what there is in round i.
Loop(b, steps) ==
    LET after[i \in 0 .. Len(steps)] == IF i = 0 THEN b ELSE steps[i][after[i - 1]]
    IN  after[Len(steps)]

\* Those in S, in their order.
Only(list, S) ==
    Loop(<<>>, [i \in DOMAIN list |->
        [s \in Seq(Range(list)) |-> IF list[i] \in S THEN Append(s, list[i]) ELSE s]])

\* std::list::sort by a comparison that need not be an order: every element goes
\* before the first one it is less than.
Inserted(s, e, less) ==
    LET before == {i \in DOMAIN s : <<e, s[i]>> \in less}
    IN  InsertAt(s, IF before = {} THEN Len(s) + 1 ELSE Least(before), e)
Sorted(list, less) ==
    Loop(<<>>, [i \in DOMAIN list |-> [s \in Seq(Range(list)) |-> Inserted(s, list[i], less)]])

SameSide(a, b, me) == (a <= me /\ b <= me) \/ (a >= me /\ b >= me)

\* less_peer_t, on the lower ends of two ranges and of the node's own.
NearerBack(a, b, me) ==
    /\ a # me
    /\ \/ b = me
       \/ SameSide(a, b, me) /\ a > b
       \/ ~SameSide(a, b, me) /\ a <= me /\ b >= me

\* greater_peer_t
NearerAhead(a, b, me) ==
    \/ SameSide(a, b, me) /\ a < b
    \/ ~SameSide(a, b, me) /\ ~(a <= me /\ b >= me)

\* Of two peers on a list, the first is nearer.
Back(h) == {p \in Range(h.pred) \X Range(h.pred) :
               NearerBack(h.known[p[1]].min, h.known[p[2]].min, h.range.min)}
Ahead(h) == {p \in Range(h.succ) \X Range(h.succ) :
                NearerAhead(h.known[p[1]].min, h.known[p[2]].min, h.range.min)}

\* The nearest first ("sorted" is there for h to be evaluated once).
SortPred(h) ==
    LET sorted == [k \in {h} |-> [k EXCEPT !.pred = Sorted(@, Back(k))]]
    IN  IF h.range = None THEN h ELSE sorted[h]
SortSucc(h) ==
    LET sorted == [k \in {h} |-> [k EXCEPT !.succ = Sorted(@, Ahead(k))]]
    IN  IF h.range = None THEN h ELSE sorted[h]

\* PList::Add: registers the peer with its range; one that is listed stays in place.
AddSuccessor(h, m, r) ==
    [h EXCEPT !.known[m] = r,
              !.succ = IF Contains(@, m) THEN @ ELSE Append(@, m)]

\* A predecessor is added to an end, then the list is sorted.
SetPredecessor(h, m, r) ==
    SortPred([h EXCEPT !.known[m] = r,
                       !.pred = IF Contains(@, m) THEN @ ELSE <<m>> \o @])
AddPredecessor(h, m, r) ==
    SortPred([h EXCEPT !.known[m] = r,
                       !.pred = IF Contains(@, m) THEN @ ELSE Append(@, m)])

\* The peer becomes the only successor.
SetSuccessor(h, m, r) == AddSuccessor(UnRegister([h EXCEPT !.succ = <<>>]), m, r)

MergeSuccessor(h, m, r) == SortSucc(AddSuccessor(h, m, r))

\* Faulty: it may take itself.
TakenWhole(n, list) == Upto(list, {i \in DOMAIN list : i > NSuccessorsToKeep + 1})

\* What a node takes of a list of peers: up to itself, at most one more than it keeps.
Taken(n, list) == Upto(list, {i \in DOMAIN list : list[i].addr = n \/ i > NSuccessorsToKeep + 1})

\* PList::Add for one after the other, while there is room.
AddAll(h, list) ==
    Loop(h, [i \in DOMAIN list |-> [k \in Hub |->
        IF Len(k.succ) > NSuccessorsToKeep THEN k ELSE AddSuccessor(k, list[i].addr, list[i].range)]])

SetSuccessorList(h, n, list) ==
    AddAll(UnRegister([h EXCEPT !.succ = <<>>]), Taken(n, list))

\* Successors the list does not name go; those it names come in.
MergeSuccessorList(h, n, list) ==
    LET taken == Taken(n, list)
        named == {taken[i].addr : i \in DOMAIN taken}
    IN  SortSucc(AddAll(UnRegister([h EXCEPT !.succ = Only(@, named)]), taken))

\* Without successor a node stops itself (OnPeerDeath).
OrDie(h) == IF h.succ = <<>> THEN [h EXCEPT !.status = "DEAD"] ELSE h

RemovePeer(h, m) ==
    IF m \notin Listed(h) THEN h
    ELSE OrDie(UnRegister([h EXCEPT !.succ = Only(@, Node \ {m}), !.pred = Only(@, Node \ {m})]))

HasSucc(h) == h.succ # <<>>
HasPred(h) == h.pred # <<>>
Successor(h) == Head(h.succ)
Predecessor(h) == Head(h.pred)

\* A node's range and successors, itself first, as it tells others.
PeerInfoList(n, r, h) ==
    <<[addr |-> n, range |-> r]>> \o
    LET others == Only(h.succ, Node \ {n})
    IN  [i \in DOMAIN others |-> [addr |-> others[i], range |-> h.known[others[i]]]]

-----------------------------------------------------------------------------
(***************************************************************************)
(* The network.                                                            *)
(***************************************************************************)

Alive(n) == hub[n].status # "DEAD"

\* A datagram is taken from the network and others put there.
Datagrams(taken, sent) == udp' = (udp \ taken) \cup {d \in sent : Alive(d.to)}

\* The first message from m to n is taken, if asked, and others are sent by n.
Received(m, n) == [tcp EXCEPT ![<<m, n>>] = Tail(@)]
Sent(pipes, n, m, msg) == IF Alive(m) THEN [pipes EXCEPT ![<<n, m>>] = Append(@, msg)] ELSE pipes

Room(k) == Cardinality(udp) + k <= MaxDatagrams

\* The messages, by what the handlers look at.
JoinResponse(r, only, list) ==
    [type |-> "JOIN_RESPONSE", assigned |-> r, only |-> only, succs |-> list]
LeaveNotification(r) == [type |-> "LEAVE", assigned |-> r]

Datagram(t, n, m) == [type |-> t, from |-> n, to |-> m]
Pred(n, m, h) ==
    [type |-> "PRED", from |-> n, to |-> m,
     pred |-> IF HasPred(h) THEN Predecessor(h) ELSE None,
     predRange |-> IF HasPred(h) THEN h.known[Predecessor(h)] ELSE None,
     curRange |-> IF HasPred(h) THEN h.range ELSE None]
SuccessorList(n, m, list) == [type |-> "SUCCLIST", from |-> n, to |-> m, list |-> list]
HeartBeat(t, n, m, r) == [type |-> t, from |-> n, to |-> m, range |-> r]

-----------------------------------------------------------------------------
(***************************************************************************)
(* Joining.                                                                *)
(***************************************************************************)

NewHub == [status |-> "UNJOINED", range |-> None, succ |-> <<>>, pred |-> <<>>,
           known |-> [m \in Node |-> None],
           answered |-> {},     \* whom it sent a join response lately
           rep |-> None,        \* whom its join timer asks
           attempts |-> 0,
           away |-> None]       \* the rest of a leave that has begun

\* The first node has the whole range and is its own successor; the others wait for
\* their representative, which got its answer from the bootstrap server before they did.
DynamicStart(order, rep) ==
    [n \in Node |->
       IF n # First THEN [NewHub EXCEPT !.rep = rep[n]]
       ELSE [SetSuccessor([NewHub EXCEPT !.range = Whole], n, Whole) EXCEPT !.status = "JOINED"]]

\* The i-th place round the ring, who is there, and how many peers there are on a list, which
\* ends with the node itself when it goes all the way round.
Place(i) == IF i > Cardinality(Node) THEN i - Cardinality(Node) ELSE i
InfoAt(order, i) == [addr |-> order[Place(i)], range |-> StaticRange[Place(i)]]
Kept == IF NSuccessorsToKeep < Cardinality(Node) THEN NSuccessorsToKeep ELSE Cardinality(Node)

\* A ring laid out beforehand (static join), once all have been told that all are there.
StaticHub(order, i) ==
    LET succs == [j \in 1 .. Kept |-> InfoAt(order, i + j)]
        preds == [j \in 1 .. Kept |-> InfoAt(order, i - j + Cardinality(Node))]
        h == [NewHub EXCEPT !.range = StaticRange[i], !.status = "JOINED"]
    IN  Loop(SetSuccessorList(h, order[i], succs),
             [j \in 1 .. Kept |-> [k \in Hub |-> AddPredecessor(k, preds[j].addr, preds[j].range)]])
StaticStart(order) ==
    [n \in Node |-> StaticHub(order, CHOOSE i \in 1 .. Cardinality(Node) : order[i] = n)]

Init ==
    /\ budget \in Budgets
    /\ \E order \in {s \in Bijection(1 .. Cardinality(Node), Node) : s[1] = First} :
          IF budget.static THEN hub = StaticStart(order)
          ELSE \E rep \in [Node \ {First} -> Node] :
                  /\ \A i, j \in DOMAIN order : (i > 1 /\ rep[order[i]] = order[j]) => j < i
                  /\ hub = DynamicStart(order, rep)
    /\ udp = {}
    /\ tcp = [p \in Node \X Node |-> <<>>]

\* Nobody else is joining, and maintenance has told every successor of its predecessor.
Calm ==
    /\ \A m \in Node : hub[m].rep # None => hub[m].attempts = 0 \/ ~Alive(m)
    /\ \A m \in Node :
          (hub[m].status = "JOINED" /\ HasSucc(hub[m]) /\ Successor(hub[m]) # m) =>
              LET s == hub[Successor(hub[m])] IN HasPred(s) /\ Predecessor(s) = m

\* JoinRequestTimer: ask the representative, again and again; give up in the end.
JoinTimeout(n) ==
    LET h == hub[n]
    IN  /\ h.status # "DEAD" /\ h.rep # None /\ h.away = None
        /\ (budget.apart /\ h.attempts = 0) => Calm
        /\ IF h.attempts > MaxJoinAttempts
           THEN /\ tcp[<<n, h.rep>>] = <<>> /\ tcp[<<h.rep, n>>] = <<>>
                /\ hub' = [hub EXCEPT ![n].status = "DEAD"]
                /\ UNCHANGED tcp
           ELSE /\ hub' = [hub EXCEPT ![n] = UnRegister([h EXCEPT !.attempts = @ + 1,
                                                                  !.pred = <<>>])]
                /\ tcp' = Sent(tcp, n, h.rep, [type |-> "JOIN_REQUEST"])
        /\ UNCHANGED <<udp, budget>>

\* Faulty: a repeated request is answered again.
HandleJoinRequestAgain(n, m) ==
    LET h == hub[n]
        kept == [min |-> Middle(h.range), max |-> h.range.max]
        assigned == [min |-> h.range.min, max |-> Middle(h.range)]
    IN  /\ HasSucc(h) /\ h.status = "JOINED"
        /\ tcp' = Sent(Received(m, n), n, m,
                       JoinResponse(assigned, FALSE, PeerInfoList(n, kept, h)))
        /\ hub' = [hub EXCEPT ![n] = SetPredecessor([h EXCEPT !.range = kept], m, assigned)]
        /\ UNCHANGED <<udp, budget>>

\* Give the lower half of the range to the joiner, who becomes the predecessor; nothing
\* changes when the answer cannot be sent.
HandleJoinRequest(n, m) ==
    LET h == hub[n]
        kept == [min |-> Middle(h.range), max |-> h.range.max]
        assigned == [min |-> h.range.min, max |-> Middle(h.range)]
        only == Successor(h) = n
        split == [h EXCEPT !.range = kept]
        told == IF only THEN SetSuccessor(split, m, assigned) ELSE split
    IN  /\ UNCHANGED <<udp, budget>>
        /\ \/ /\ m \in h.answered \/ ~HasSucc(h)
              /\ tcp' = Received(m, n)
              /\ UNCHANGED hub
           \/ /\ m \notin h.answered /\ HasSucc(h) /\ h.status = "UNJOINED"
              /\ tcp' = Sent(Received(m, n), n, m, [type |-> "AM_UNJOINED"])
              /\ UNCHANGED hub
           \/ /\ m \notin h.answered /\ HasSucc(h) /\ h.status = "JOINED"
              /\ tcp' = Sent(Received(m, n), n, m,
                             JoinResponse(assigned, only, PeerInfoList(n, kept, h)))
              /\ \/ hub' = [hub EXCEPT ![n] = [SetPredecessor(told, m, assigned)
                                               EXCEPT !.answered = @ \cup {m}]]
                 \/ ~Alive(m) /\ UNCHANGED hub

\* TCPFailureTimeout after the response the joiner is forgotten: by then the response
\* and the requests that crossed it have come, or never will.
ForgetJoin(n, m) ==
    /\ Alive(n) /\ m \in hub[n].answered
    /\ tcp[<<n, m>>] = <<>> /\ tcp[<<m, n>>] = <<>>
    /\ hub' = [hub EXCEPT ![n].answered = @ \ {m}]
    /\ UNCHANGED <<udp, tcp, budget>>

\* The first answer counts.  HandleNotifySuccessor, called for an only successor,
\* returns at once: the status is not JOINED yet.
HandleJoinResponse(n, m, msg) ==
    /\ tcp' = Received(m, n)
    /\ hub' = IF hub[n].range # None THEN hub
              ELSE [hub EXCEPT ![n] =
                       [SetSuccessorList([hub[n] EXCEPT !.range = msg.assigned], n, msg.succs)
                        EXCEPT !.status = "JOINED", !.rep = None]]
    /\ UNCHANGED <<udp, budget>>

HandleAmUnjoined(n, m) ==
    /\ tcp' = Received(m, n)
    /\ hub' = [hub EXCEPT ![n].status = "UNJOINED"]
    /\ UNCHANGED <<udp, budget>>

-----------------------------------------------------------------------------
(***************************************************************************)
(* Maintenance: a node asks its successor for its predecessor and its      *)
(* successors.                                                             *)
(***************************************************************************)

DoSuccListMaintenance(n) ==
    LET h == hub[n]
        Ask(t) == Datagram(t, n, Successor(h))
    IN  /\ h.status = "JOINED" /\ HasSucc(h) /\ Successor(h) # n
        /\ Room(2)
        /\ Datagrams({}, {Ask("GET_PRED"), Ask("GET_SUCCLIST")})
        /\ UNCHANGED <<hub, tcp, budget>>

HandleGetPred(d) ==
    LET h == hub[d.to]
    IN  /\ Datagrams({d}, IF h.status = "JOINED" THEN {Pred(d.to, d.from, h)} ELSE {})
        /\ UNCHANGED <<hub, tcp, budget>>

\* Only the nearest predecessor is answered.
HandleGetSuccList(d) ==
    LET h == hub[d.to]
        answer == SuccessorList(d.to, d.from, PeerInfoList(d.to, h.range, h))
    IN  /\ Datagrams({d}, IF h.status = "JOINED" /\ HasPred(h) /\ Predecessor(h) = d.from
                          THEN {answer} ELSE {})
        /\ UNCHANGED <<hub, tcp, budget>>

Notify(n, m, r) == HeartBeat("NOTIFY", n, m, r)

\* Faulty: the range is taken from an answer that names no predecessor too.
HandlePredRangeFirst(d) ==
    LET n == d.to
        h == hub[n]
    IN  /\ HasSucc(h) /\ Successor(h) = d.from
        /\ hub' = [hub EXCEPT ![n].known[d.from] = d.curRange]
        /\ Datagrams({d}, {Notify(n, d.from, h.range)})
        /\ UNCHANGED <<tcp, budget>>

\* Faulty: the range grows over nothing that was given up.
StretchNever(h, newmax) == h

\* A node answers for everything up to its successor, unless nothing would be left.
Stretch(h, newmax) == IF h.range.min = newmax THEN h ELSE [h EXCEPT !.range.max = newmax]

\* From the successor only: its predecessor is nobody, this node, or somebody else.
HandlePred(d) ==
    LET n == d.to
        h == hub[n]
        k == [h EXCEPT !.known[d.from] = d.curRange]
        newmax == IF d.curRange.min = 0 THEN AbsMax ELSE d.curRange.min
        merged == MergeSuccessor(k, d.pred, d.predRange)
    IN  /\ UNCHANGED <<tcp, budget>>
        /\ \/ /\ ~HasSucc(h) \/ (HasSucc(h) /\ Successor(h) # d.from)
              /\ Datagrams({d}, {}) /\ UNCHANGED hub
           \/ /\ HasSucc(h) /\ Successor(h) = d.from /\ d.pred = None
              /\ Datagrams({d}, {Notify(n, d.from, h.range)}) /\ UNCHANGED hub
           \/ /\ HasSucc(h) /\ Successor(h) = d.from /\ d.pred = n
              /\ hub' = [hub EXCEPT ![n] = Stretch(k, newmax)]
              /\ Datagrams({d}, {})
           \/ /\ HasSucc(h) /\ Successor(h) = d.from /\ d.pred \notin {None, n}
              /\ IF IsBetweenRightInclusive(d.predRange.min, h.range.min, d.curRange.min)
                 THEN /\ hub' = [hub EXCEPT ![n] = merged]
                      /\ Datagrams({d}, {Notify(n, Successor(merged), h.range)})
                 ELSE /\ hub' = [hub EXCEPT ![n] = k]
                      /\ Datagrams({d}, {Notify(n, d.from, h.range)})

HandleSuccList(d) ==
    LET h == hub[d.to]
    IN  /\ hub' = IF HasSucc(h) /\ Successor(h) = d.from
                  THEN [hub EXCEPT ![d.to] = MergeSuccessorList(h, d.to, d.list)] ELSE hub
        /\ Datagrams({d}, {})
        /\ UNCHANGED <<tcp, budget>>

\* A node in front of this one: taken as predecessor when it is nearer than the one
\* there is, and as only successor when it is also the successor.
Closer(new, cur, mine) ==
    \/ new.max = cur.max /\ IsBetween(new.min, cur.min, mine.min)
    \/ IsBetween(new.max, cur.max, mine.max)

HandleNotifySuccessor(d) ==
    LET h == hub[d.to]
        k == SetPredecessor(h, d.from, d.range)
    IN  /\ hub' = [hub EXCEPT ![d.to] =
               IF h.status # "JOINED" THEN h
               ELSE IF ~HasPred(h) THEN k
               ELSE IF Predecessor(h) = d.from THEN [h EXCEPT !.known[d.from] = d.range]
               ELSE IF ~Closer(d.range, h.known[Predecessor(h)], h.range) THEN h
               ELSE IF HasSucc(k) /\ Successor(k) = d.from THEN SetSuccessor(k, d.from, d.range)
               ELSE k]
        /\ Datagrams({d}, {})
        /\ UNCHANGED <<tcp, budget>>

-----------------------------------------------------------------------------
(***************************************************************************)
(* Liveness of peers.                                                      *)
(***************************************************************************)

\* PingPeers, one peer of its list.
SendLivenessPing(n, m) ==
    /\ hub[n].status = "JOINED" /\ Contains(hub[n].succ, m) /\ m # n
    /\ Room(1) /\ budget.ping > 0
    /\ budget' = [budget EXCEPT !.ping = @ - 1]
    /\ Datagrams({}, {HeartBeat("PING", n, m, hub[n].range)})
    /\ UNCHANGED <<hub, tcp>>

\* A successor's ping makes its sender a predecessor only of a node that has one.
HandleLivenessPing(d) ==
    LET h == hub[d.to]
        k == IF HasPred(h) THEN AddPredecessor(h, d.from, d.range) ELSE h
    IN  /\ hub' = [hub EXCEPT ![d.to] = k]
        /\ Datagrams({d}, IF Contains(k.pred, d.from)
                          THEN {HeartBeat("PONG", d.to, d.from, k.range)}
                          ELSE {})
        /\ UNCHANGED <<tcp, budget>>

\* A peer whose range moved at both ends is dropped.
HandleLivenessPong(d) ==
    LET h == hub[d.to]
        old == h.known[d.from]
        moved == \/ d.range = None
                 \/ d.range.min # old.min /\ d.range.max # old.max
    IN  /\ hub' = [hub EXCEPT ![d.to] =
               IF d.from \notin Listed(h) THEN h
               ELSE IF moved THEN RemovePeer(h, d.from)
               ELSE IF Contains(h.succ, d.from) THEN [h EXCEPT !.known[d.from] = d.range]
               ELSE h]
        /\ Datagrams({d}, {})
        /\ UNCHANGED <<tcp, budget>>

\* By PeerPongTimeout everything between two nodes has arrived, and a leave is complete.
Silent(m, n) ==
    /\ \A d \in udp : ~(d.from = m /\ d.to = n)
    /\ tcp[<<m, n>>] = <<>> /\ tcp[<<n, m>>] = <<>>
    /\ Alive(m) => hub[m].away = None

\* A successor that stopped, and a predecessor that stopped or pings no more, is dropped.
CheckLiveness(n, m) ==
    LET h == hub[n]
        lostSucc == Contains(h.succ, m) /\ ~Alive(m)
        lostPred == Contains(h.pred, m) /\ (~Alive(m) \/ ~Contains(hub[m].succ, n))
        Without(list, lost) == IF lost THEN Only(list, Node \ {m}) ELSE list
    IN  /\ h.status = "JOINED" /\ m # n
        /\ lostSucc \/ lostPred
        /\ Silent(m, n)
        /\ hub' = [hub EXCEPT ![n] = OrDie(UnRegister(
               [h EXCEPT !.succ = Without(@, lostSucc), !.pred = Without(@, lostPred)]))]
        /\ UNCHANGED <<udp, tcp, budget>>

-----------------------------------------------------------------------------
(***************************************************************************)
(* Leaving, to join again in front of a node with too much load.           *)
(***************************************************************************)

\* The upper half of the range goes to the successor now, the lower half to the
\* predecessor after PeerPingInterval; the other peers that knew the node are told.
DoLeaveJoin(n, target) ==
    LET h == hub[n]
        rpred == [min |-> h.known[Predecessor(h)].min, max |-> Middle(h.range)]
        rsucc == [min |-> Middle(h.range), max |-> h.known[Successor(h)].max]
        others == Range(h.pred) \ {Predecessor(h), Successor(h), n}
    IN  /\ budget.leave > 0
        /\ h.status = "JOINED" /\ HasSucc(h) /\ HasPred(h) /\ Successor(h) # n
        /\ n \in Light /\ target \in Heavy \ {n}
        /\ budget' = [budget EXCEPT !.leave = @ - 1]
        /\ hub' = [hub EXCEPT ![n] = UnRegister(
               [h EXCEPT !.status = "UNJOINED", !.range = None, !.succ = <<>>, !.pred = <<>>,
                         !.away = [pred |-> Predecessor(h), range |-> rpred],
                         !.rep = target, !.attempts = 0])]
        /\ Datagrams({}, {Datagram("LINK_BREAK", n, m) : m \in others})
        /\ tcp' = Sent(tcp, n, Successor(h), LeaveNotification(rsucc))

\* What a member sends of its own accord, and what it is answered.
OfMember(d, n) ==
    \/ d.from = n /\ d.type \in {"GET_PRED", "GET_SUCCLIST", "NOTIFY", "PING", "LINK_BREAK"}
    \/ d.to = n /\ d.type \in {"PRED", "SUCCLIST", "PONG"}

\* LNContinuation: tell the predecessor, and start to join.  By PeerPingInterval all that
\* the node sent as a member, and the answers, have come, or never will.
EndLeave(n) ==
    /\ Alive(n) /\ hub[n].away # None
    /\ \A m \in Node : tcp[<<n, m>>] = <<>>
    /\ \A d \in udp : ~OfMember(d, n)
    /\ tcp' = Sent(tcp, n, hub[n].away.pred, LeaveNotification(hub[n].away.range))
    /\ hub' = [hub EXCEPT ![n].away = None]
    /\ UNCHANGED <<udp, budget>>

\* The range is taken over as it is told, whatever the node's own is by now.
HandleLeaveNotification(n, m, msg) ==
    LET h == hub[n]
    IN  /\ tcp' = Received(m, n)
        /\ hub' = [hub EXCEPT ![n] = IF ~HasPred(h) \/ ~HasSucc(h) THEN h
                                     ELSE RemovePeer([h EXCEPT !.range = msg.assigned], m)]
        /\ UNCHANGED <<udp, budget>>

HandleLinkBreak(d) ==
    /\ hub' = [hub EXCEPT ![d.to] = RemovePeer(@, d.from)]
    /\ Datagrams({d}, {})
    /\ UNCHANGED <<tcp, budget>>

-----------------------------------------------------------------------------
(***************************************************************************)
(* Faults of the environment.                                              *)
(***************************************************************************)

Lose(d) ==
    /\ budget.loss > 0
    /\ budget' = [budget EXCEPT !.loss = @ - 1]
    /\ Datagrams({d}, {})
    /\ UNCHANGED <<hub, tcp>>

\* What was on its way to the node is gone; what it sent still comes.
Crash(n) ==
    /\ budget.crash > 0 /\ Alive(n)
    /\ budget' = [budget EXCEPT !.crash = @ - 1]
    /\ hub' = [hub EXCEPT ![n].status = "DEAD"]
    /\ UNCHANGED <<udp, tcp>>

\* Whatever is on its way to a node that is no more.
Discard(n) ==
    /\ ~Alive(n)
    /\ \/ \E d \in udp : d.to = n
       \/ \E m \in Node : tcp[<<m, n>>] # <<>>
    /\ udp' = {d \in udp : d.to # n}
    /\ tcp' = [p \in Node \X Node |-> IF p[2] = n THEN <<>> ELSE tcp[p]]
    /\ UNCHANGED <<hub, budget>>

Deliver(d) ==
    /\ Alive(d.to)
    /\ CASE d.type = "GET_PRED"     -> HandleGetPred(d)
         [] d.type = "GET_SUCCLIST" -> HandleGetSuccList(d)
         [] d.type = "PRED"         -> HandlePred(d)
         [] d.type = "SUCCLIST"     -> HandleSuccList(d)
         [] d.type = "NOTIFY"       -> HandleNotifySuccessor(d)
         [] d.type = "PING"         -> HandleLivenessPing(d)
         [] d.type = "PONG"         -> HandleLivenessPong(d)
         [] d.type = "LINK_BREAK"   -> HandleLinkBreak(d)

Receive(m, n) ==
    /\ Alive(n) /\ tcp[<<m, n>>] # <<>>
    /\ LET msg == Head(tcp[<<m, n>>])
       IN  CASE msg.type = "JOIN_REQUEST"  -> HandleJoinRequest(n, m)
             [] msg.type = "JOIN_RESPONSE" -> HandleJoinResponse(n, m, msg)
             [] msg.type = "AM_UNJOINED"   -> HandleAmUnjoined(n, m)
             [] msg.type = "LEAVE"         -> HandleLeaveNotification(n, m, msg)

Next ==
    \/ \E n \in Node :
          \/ JoinTimeout(n) \/ DoSuccListMaintenance(n) \/ EndLeave(n)
          \/ Crash(n) \/ Discard(n)
          \/ \E m \in Node :
                \/ Receive(m, n) \/ ForgetJoin(n, m) \/ SendLivenessPing(n, m)
                \/ CheckLiveness(n, m) \/ DoLeaveJoin(n, m)
    \/ \E d \in udp : Deliver(d) \/ Lose(d)

Spec == Init /\ [][Next]_vars

-----------------------------------------------------------------------------
(***************************************************************************)
(* Fairness: timers fire and what was sent is delivered.  Strong fairness  *)
(* of the maintenance timer makes up for MaxDatagrams, which may refuse a  *)
(* timer that the code would let fire.                                     *)
(***************************************************************************)

Fairness ==
    /\ \A n \in Node : SF_vars(DoSuccListMaintenance(n))
    /\ \A n \in Node : WF_vars(JoinTimeout(n))
    /\ \A n \in Node : WF_vars(\E m \in Node : Receive(m, n))
    /\ \A n \in Node : WF_vars(\E m \in Node : CheckLiveness(n, m))
    /\ WF_vars(\E n \in Node : EndLeave(n))
    /\ WF_vars(\E n \in Node : Discard(n))
    /\ WF_vars(\E d \in udp : Deliver(d))

FairSpec == Spec /\ Fairness

-----------------------------------------------------------------------------
(***************************************************************************)
(* Properties.                                                             *)
(***************************************************************************)

Joined == {n \in Node : hub[n].status = "JOINED"}

Info == [addr : Node, range : NodeRange]

Message ==
    [type : {"JOIN_REQUEST", "AM_UNJOINED"}]
    \cup [type : {"JOIN_RESPONSE"}, assigned : NodeRange, only : BOOLEAN, succs : Seq(Info)]
    \cup [type : {"LEAVE"}, assigned : NodeRange]

DatagramMessage ==
    [type : {"GET_PRED", "GET_SUCCLIST", "LINK_BREAK"}, from : Node, to : Node]
    \cup [type : {"PRED"}, from : Node, to : Node, pred : Node, predRange : NodeRange, curRange : NodeRange]
    \cup [type : {"PRED"}, from : Node, to : Node, pred : {None}, predRange : {None}, curRange : {None}]
    \cup [type : {"SUCCLIST"}, from : Node, to : Node, list : Seq(Info)]
    \cup [type : {"NOTIFY", "PING", "PONG"}, from : Node, to : Node, range : NodeRange]

\* Lists hold a peer once, and the range of a peer is known just when it is listed: the
\* Peer object that a node's lists share lives as long as it is on one of them.
TypeOK ==
    /\ hub \in [Node -> Hub]
    /\ \A n \in Node : /\ IsInjective(hub[n].succ) /\ IsInjective(hub[n].pred)
                       /\ \A m \in Node : m \in Listed(hub[n]) <=> hub[n].known[m] # None
    /\ udp \subseteq DatagramMessage
    /\ tcp \in [Node \X Node -> Seq(Message)]
    /\ budget \in Budget

Responses(n) == {msg \in UNION {Range(tcp[<<m, n>>]) : m \in Node} : msg.type = "JOIN_RESPONSE"}

\* What a node answers for, or will once the join response under way has come.
Share(n) ==
    IF hub[n].range # None THEN Cells(hub[n].range)
    ELSE UNION {Cells(msg.assigned) : msg \in Responses(n)}

\* No value is ever the business of two nodes, though ranges are split and stretched by nodes
\* that act on what they heard some time ago (HandleJoinRequest, HandlePred), in a ring that
\* is laid out beforehand and nobody leaves, and in one that nodes join one after the other.
NoOverlap ==
    budget.apart => \A n, m \in Node :
        (n # m /\ Alive(n) /\ Alive(m)) => Share(n) \cap Share(m) = {}

\* What Constraint::Covers is for: "used to test for range ownership (otherwise touching
\* ranges will both claim the one overlapping id)" (mercury/Constraint.cpp:128): no value is covered
\* by the ranges of two members.
ClaimedOnce ==
    \A n, m \in Joined : n # m => Cells(hub[n].range) \cap Cells(hub[m].range) = {}

\* The nodes first successors lead to from n.
Onward(n) ==
    LET step(S) == S \cup {Successor(hub[m]) : m \in {o \in S : HasSucc(hub[o])}}
    IN  FoldLeft(LAMBDA S, i : step(S), {n}, [i \in 1 .. Cardinality(Node) |-> i])

\* A node that has joined has a successor, and the ring never falls apart into two: the
\* first successors of any two such nodes lead to a common one, or to a joiner who is told
\* its successors by the join response that is on its way.
OneRing ==
    /\ \A n \in Joined : HasSucc(hub[n])
    /\ \A n, m \in Joined : \/ Onward(n) \cap Onward(m) # {}
                            \/ \E o \in Onward(n) \cup Onward(m) : Responses(o) # {}

\* Everybody alive has joined, the ranges cover all values, and each ends where that of
\* the first successor begins.
Settled ==
    /\ \A n \in Node : Alive(n) => n \in Joined
    /\ UNION {Cells(hub[n].range) : n \in Joined} = 0 .. AbsMax - 1
    /\ \A n \in Joined :
          hub[n].range.max % AbsMax = hub[Successor(hub[n])].range.min % AbsMax

\* Whatever joins at once, leaves, crashes or is lost: the maintenance of successors
\* makes the ring whole again and keeps it so.
Heals == <>[](Joined # {} => Settled)
=============================================================================
