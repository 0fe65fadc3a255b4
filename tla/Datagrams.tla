----------------------------- MODULE Datagrams -----------------------------
(***************************************************************************)
(* One node's datagrams (wan-env/UDPTransport.cpp), sent at a bounded rate *)
(* if it is configured so (CBRTransport.cpp), and with an artificial delay *)
(* on the receiving side (DelayedTransport.cpp).                           *)
(*                                                                         *)
(* Datagrams come in any order, or never.  Time is counted in milliseconds,*)
(* and a packet's size by the milliseconds it keeps its flow busy and the  *)
(* transport: sizes below one millisecond are left out (with those, the    *)
(* flow's rate is not bounded).  No connection is closed: nobody calls     *)
(* RealNet::CloseConnection.  Bounds: the clock, the datagrams.            *)
(***************************************************************************)
EXTENDS Naturals, Sequences, SequencesExt

CONSTANTS
    AppQueueSize,       \* APP_QUEUE_SIZE
    SendQueueSize,      \* SEND_QUEUE_SIZE
    MaxServiceBurst,    \* MAX_SERVICE_BURST
    Scenarios           \* what arrives, what is sent, the latency graph, the bound of the clock

VARIABLES
    conf,       \* the scenario
    now,        \* the clock
    coming,     \* datagrams that have not arrived, when the others did, and packets still to send
    inbound,    \* m_ConnectionList of the transport, and of the delaying one
    outbound    \* m_SenderList, m_SendTime, and what has been sent

vars == <<conf, now, coming, inbound, outbound>>

-----------------------------------------------------------------------------
(***************************************************************************)
(* Connections.                                                            *)
(***************************************************************************)

NewConnection(peer) ==
    [peer |-> peer, status |-> "CONN_NEWINCOMING", queue |-> <<>>,
     arrived |-> <<>>, got |-> <<>>, passed |-> <<>>]

\* Where the connection with a peer is in a list, which gets one if there is none (AddConnection).
With(list, peer) ==
    IF \E i \in DOMAIN list : list[i].peer = peer THEN list ELSE Append(list, NewConnection(peer))
Place(list, peer) == CHOOSE i \in DOMAIN list : list[i].peer = peer

\* Faulty: the new packet goes, not the oldest.
InsertTail(c, p) ==
    IF Len(c.queue) > AppQueueSize THEN [c EXCEPT !.arrived = Append(@, p.id)]
    ELSE [c EXCEPT !.queue = Append(@, p), !.arrived = Append(@, p.id)]

\* A queue that is too long loses its head (Q_DROPHEAD).
Insert(c, p) ==
    [c EXCEPT !.queue = IF Len(@) > AppQueueSize THEN Append(Tail(@), p) ELSE Append(@, p),
              !.arrived = Append(@, p.id)]

Waiting(list) == {i \in DOMAIN list : list[i].queue # <<>>}

\* ReadyStatus
Ready(list) == {i \in Waiting(list) : Head(list[i].queue).time <= now}

\* Faulty: the connection that is served stays where it is.
RotatedNever(list, i) == list

\* The connection that is served goes to the end of the list.
Rotated(list, i) == Append(RemoveAt(list, i), list[i])

\* Note who is served while the others wait.
Note(list, served, waiting) ==
    [j \in DOMAIN list |->
        IF j = served THEN [list[j] EXCEPT !.passed = <<>>]
        ELSE IF j \in waiting THEN [list[j] EXCEPT !.passed = Append(@, list[served].peer)] ELSE list[j]]

\* The first that is ready gives its oldest packet.
Serve(list, ready) ==
    LET i == Min(ready)
        given == [list[i] EXCEPT !.queue = Tail(@), !.status = "CONN_OK",
                      !.got = Append(@, [id |-> Head(list[i].queue).id, at |-> now])]
    IN  Rotated([Note(list, i, ready) EXCEPT ![i] = [given EXCEPT !.passed = <<>>]], i)

-----------------------------------------------------------------------------
(***************************************************************************)
(* Receiving.                                                              *)
(***************************************************************************)

\* InitLatMap: half of the round trip between the node's id in the graph and the peer's; the
\* lines that name the ids come first.
Latency(peer) ==
    LET mine == CHOOSE i \in DOMAIN conf.names : conf.me \in conf.names[i]
        pairs == {l \in conf.graph : l.a = mine \/ l.b = mine}
        other(l) == IF l.a = mine THEN l.b ELSE l.a
    IN  IF \E l \in pairs : peer \in conf.names[other(l)]
        THEN (CHOOSE l \in pairs : peer \in conf.names[other(l)]).rtt \div 2
        ELSE 0          \* no artificial latency

\* _ServiceOnce
ServiceOnce(d) ==
    LET list == With(inbound.list, d.from)
        i == Place(list, d.from)
    IN  /\ inbound' = [inbound EXCEPT !.list = [list EXCEPT ![i] = Insert(@, [id |-> d.id, time |-> now])]]
        /\ coming' = [coming EXCEPT !.arriving = @ \ {d}, !.since[d.id] = now]
        /\ UNCHANGED <<conf, now, outbound>>

\* UDPTransport::GetReadyConnection, when nothing is delayed
GetReadyConnection ==
    /\ ~conf.latency /\ Waiting(inbound.list) # {}
    /\ inbound' = [inbound EXCEPT !.list = Serve(@, Waiting(@))]
    /\ UNCHANGED <<conf, now, coming, outbound>>

\* One packet is taken off the transport; the connection's status is set back to what it was,
\* and the packet counts as received when the latency is over.
Delayed(inb) ==
    LET c == inb.list[Min(Waiting(inb.list))]
        p == [Head(c.queue) EXCEPT !.time = @ + Latency(c.peer)]
        served == Serve(inb.list, Waiting(inb.list))
        list == With(inb.delayed, c.peer)
        i == Place(list, c.peer)
    IN  [inb EXCEPT
            !.list = [served EXCEPT ![Place(served, c.peer)].status = c.status],
            !.delayed = [list EXCEPT ![i].queue = Append(@, p), ![i].arrived = Append(@, p.id)]]

RECURSIVE AllDelayed(_)
AllDelayed(inb) == IF Waiting(inb.list) = {} THEN inb ELSE AllDelayed(Delayed(inb))

\* DelayedTransport::DoWork
DelayedDoWork ==
    /\ conf.latency /\ Waiting(inbound.list) # {}
    /\ inbound' = AllDelayed(inbound)
    /\ UNCHANGED <<conf, now, coming, outbound>>

\* DelayedTransport::GetReadyConnection
DelayedGetReadyConnection ==
    /\ Ready(inbound.delayed) # {}
    /\ inbound' = [inbound EXCEPT !.delayed = Serve(@, Ready(@))]
    /\ UNCHANGED <<conf, now, coming, outbound>>

-----------------------------------------------------------------------------
(***************************************************************************)
(* Sending.                                                                *)
(***************************************************************************)

NewSender(to) == [peer |-> to, queue |-> <<>>, sendTime |-> 0, passed |-> <<>>]

\* CBRConnection::Send, on a connection that GetConnection may have to make: a full queue
\* loses its head.
Send ==
    LET p == Head(coming.sending)
        known == \E i \in DOMAIN outbound.senders : outbound.senders[i].peer = p.to
        senders == IF known THEN outbound.senders ELSE Append(outbound.senders, NewSender(p.to))
    IN  /\ coming.sending # <<>>
        /\ coming' = [coming EXCEPT !.sending = Tail(@)]
        /\ inbound' = [inbound EXCEPT !.list = With(@, p.to)]
        /\ outbound' = [outbound EXCEPT !.senders =
               [senders EXCEPT ![Place(senders, p.to)].queue =
                    IF Len(@) >= SendQueueSize THEN Append(Tail(@), p) ELSE Append(@, p)]]
        /\ UNCHANGED <<conf, now>>

MayDoWork(s) == s.queue # <<>> /\ s.sendTime <= now

\* One connection's turn. It sends one packet: that keeps the flow busy for at least a burst. When
\* the transport is busy for exactly a burst the turn is over without a packet.
Turn(o, s) ==
    LET p == Head(s.queue)
    IN  IF o.sendTime > now + MaxServiceBurst \/ ~MayDoWork(s)
        THEN [o EXCEPT !.kept = Append(@, s)]
        ELSE IF o.sendTime = now + MaxServiceBurst THEN [o EXCEPT !.serviced = Append(@, s)]
        ELSE [o EXCEPT !.sendTime = now + p.share,
                       !.serviced = Append(@, [s EXCEPT !.queue = Tail(@), !.sendTime = now + p.size]),
                       !.sent = Append(@, [to |-> s.peer, id |-> p.id, size |-> p.size, at |-> now])]

\* CBRTransport::DoWork: whoever had a turn goes to the end of the list.
CBRDoWork ==
    LET o == FoldLeft(Turn, [sendTime |-> outbound.sendTime, sent |-> outbound.sent,
                             kept |-> <<>>, serviced |-> <<>>], outbound.senders)
        served == {o.sent[i].to : i \in (Len(outbound.sent) + 1)..Len(o.sent)}
        noted(list) == [i \in DOMAIN list |->
                           IF list[i].peer \in served THEN [list[i] EXCEPT !.passed = <<>>]
                           ELSE IF MayDoWork(list[i])
                                THEN [list[i] EXCEPT !.passed = @ \o SetToSeq(served)] ELSE list[i]]
    IN  /\ outbound.sendTime <= now /\ \E i \in DOMAIN outbound.senders : MayDoWork(outbound.senders[i])
        /\ outbound' = [sendTime |-> o.sendTime, sent |-> o.sent, senders |-> noted(o.kept \o o.serviced)]
        /\ UNCHANGED <<conf, now, coming, inbound>>

Tick ==
    /\ now < conf.time
    /\ now' = now + 1
    /\ UNCHANGED <<conf, coming, inbound, outbound>>

\* A transport that listens.
NewInbound == [list |-> <<>>, delayed |-> <<>>]
NewOutbound == [senders |-> <<>>, sendTime |-> 0, sent |-> <<>>]

Init ==
    /\ conf \in Scenarios
    /\ now = 0
    /\ coming = [arriving |-> conf.arriving, sending |-> conf.sending,
                 since |-> [d \in {x.id : x \in conf.arriving} |-> 0]]
    /\ inbound = NewInbound
    /\ outbound = NewOutbound

Next ==
    \/ \E d \in coming.arriving : ServiceOnce(d)
    \/ GetReadyConnection \/ DelayedDoWork \/ DelayedGetReadyConnection
    \/ Send \/ CBRDoWork \/ Tick

Spec == Init /\ [][Next]_vars

-----------------------------------------------------------------------------
(***************************************************************************)
(* Properties.                                                             *)
(***************************************************************************)

\* Nobody is passed over: while a connection has a packet to give, or one to send and may,
\* no other is served twice (the lists are rotated).
TakeTurns ==
    \A list \in {inbound.list, inbound.delayed, outbound.senders} :
        \A i \in DOMAIN list : IsInjective(list[i].passed)

\* What waits is what arrived last, in the order it arrived, and not more than the queue may
\* hold; what is given to the node comes in that order as well, and no sooner than the latency
\* after it arrived.
QueuesKeepLatest ==
    \A list \in {inbound.list, inbound.delayed} : \A i \in DOMAIN list :
        LET c == list[i]
            queue == [j \in DOMAIN c.queue |-> c.queue[j].id]
            given == [j \in DOMAIN c.got |-> c.got[j].id] \o queue
        IN  /\ IsSuffix(queue, c.arrived)
            /\ list = inbound.list => Len(queue) <= AppQueueSize + 1
            /\ \E at \in [DOMAIN given -> DOMAIN c.arrived] :
                  /\ \A j \in DOMAIN given : given[j] = c.arrived[at[j]]
                  /\ \A j, k \in DOMAIN given : j < k => at[j] < at[k]
            /\ list = inbound.delayed =>
                  \A j \in DOMAIN c.got : c.got[j].at >= coming.since[c.got[j].id] + Latency(c.peer)

\* The queues of the transports serve everybody, and the latest first to be lost is the oldest.
QueuesServe == TakeTurns /\ QueuesKeepLatest
=============================================================================
