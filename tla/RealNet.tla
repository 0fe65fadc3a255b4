------------------------------- MODULE RealNet -------------------------------
(***************************************************************************)
(* The network layer of one node (wan-env/RealNet.cpp) above its           *)
(* transports: the loop that selects among their sockets and lets each     *)
(* read, the choice of the transport whose message is handed over next,    *)
(* and the bandwidth it tells its user.  What a transport does with its    *)
(* connections is in TCPTransport and Datagrams; here it is what the       *)
(* kernel holds for it and what it is ready to hand over.                  *)
(***************************************************************************)
EXTENDS Integers, Sequences, SequencesExt, FiniteSetsExt

CONSTANTS
    Proto,
    Datagram,           \* the protocol read without asking select
    BucketSize,         \* BUCKET_SIZE, the time one measurement covers
    AppQueueSize,       \* APP_QUEUE_SIZE
    MaxPktsService,     \* MAX_PKTS_SERVICE, what a datagram transport reads in one turn
    Broken, Closed,     \* among the sizes: a packet that is no message, a connection that was closed
    Scenarios           \* [record, window, minsz, items: what may arrive,
                        \*  sizes: what may be sent, most: how many, until: the last moment,
                        \*  stream: a protocol that is never idle, few: what arrives at another]

VARIABLES
    conf,
    now,                \* the scheduler's clock
    queue,              \* for each transport [kernel, ready, left, open]
    window,             \* [in, out]: measurements [time, size], the oldest first
    past                \* [in, out]: every packet counted, as [time, size]

vars == <<conf, now, queue, window, past>>

RealNetAssumption ==
    /\ BucketSize \in Nat \ {0} /\ AppQueueSize \in Nat
    /\ \A c \in Scenarios : /\ {c.window, c.minsz, c.few, c.until} \cup c.sizes \subseteq Nat
                            /\ c.items \ {Broken, Closed} \subseteq Nat

-----------------------------------------------------------------------------
(* Bandwidth *)

Measurement(size) == [time |-> now, size |-> size]

\* Faulty: a measurement's time is that of the last packet added to it.
RecordMoving(w, size) ==
    IF w # <<>> /\ now - Last(w).time < BucketSize
    THEN [w EXCEPT ![Len(w)] = [time |-> now, size |-> @.size + size]]
    ELSE Append(w, Measurement(size))

\* RecordOutbound and RecordInbound: one measurement for all that falls within a bucket
Record(w, size) ==
    IF w # <<>> /\ now - Last(w).time < BucketSize
    THEN [w EXCEPT ![Len(w)].size = @ + size]
    ELSE Append(w, Measurement(size))

\* What GetOutboundUsage and GetInboundUsage leave: they drop from the front.
Recent(w) ==
    LET recent == {i \in DOMAIN w : w[i].time + conf.window >= now}
    IN  SubSeq(w, IF recent = {} THEN Len(w) + 1 ELSE Min(recent), Len(w))

\* The bytes the usage is reckoned from.
Used(w) ==
    LET used[i \in 0 .. Len(w)] == IF i = 0 THEN 0 ELSE used[i - 1] + w[i].size
    IN  used[Len(w)]

Counted(dir, size) ==
    /\ window' = IF conf.record THEN [window EXCEPT ![dir] = Record(@, size)] ELSE window
    /\ past' = IF conf.record THEN [past EXCEPT ![dir] = Append(@, Measurement(size))]
               ELSE past

\* The size a message of "len" bytes goes out with: compressed if that makes it smaller
Compressed(len) == len \div 2 + 2
Packed(len) == IF len > conf.minsz /\ len > Compressed(len) THEN Compressed(len) ELSE len

-----------------------------------------------------------------------------

Nothing == [kernel |-> <<>>, ready |-> <<>>, left |-> 0, open |-> FALSE]

Init ==
    /\ conf \in Scenarios
    /\ now = 0
    /\ queue = [p \in Proto |-> [Nothing EXCEPT !.left = conf.few]]
    /\ window = [in |-> <<>>, out |-> <<>>]
    /\ past = [in |-> <<>>, out |-> <<>>]

\* StartListening: a protocol has one transport.
StartListening(p) ==
    /\ ~queue[p].open
    /\ queue' = [queue EXCEPT ![p].open = TRUE]
    /\ UNCHANGED <<conf, now, window, past>>

\* SendMessage and _SendMessage; without a connection nothing is sent or counted.
SendMessage(p, len) ==
    /\ queue[p].open /\ Len(past.out) < conf.most
    /\ Counted("out", Packed(len))
    /\ UNCHANGED <<conf, now, queue>>

\* Something arrives at the socket of a transport.
Arrive(p, item) ==
    /\ queue[p].open
    /\ Len(queue[p].kernel) + (IF p = Datagram THEN 0 ELSE Len(queue[p].ready)) < 2   \* flow control
    /\ p = conf.stream \/ queue[p].left > 0
    /\ p = Datagram => item # Closed
    /\ queue' = [queue EXCEPT ![p].kernel = Append(@, item),
                              ![p].left = IF p = conf.stream THEN @ ELSE @ - 1]
    /\ UNCHANGED <<conf, now, window, past>>

\* What "n" reads of the socket of transport p leave; a datagram transport drops its oldest.
Read(p, n) ==
    LET q     == queue[p]
        ready == q.ready \o SubSeq(q.kernel, 1, n)
        drop  == IF p = Datagram THEN Max({0, Len(ready) - (AppQueueSize + 1)}) ELSE 0
    IN  [q EXCEPT !.kernel = SubSeq(@, n + 1, Len(@)),
                  !.ready  = SubSeq(ready, drop + 1, Len(ready))]

\* DoWorkUsec: every transport is given its slice.  A datagram transport reads at least once, whether
\* select was interrupted or not; the other one reads what select has found.
DoWork ==
    \E interrupted \in BOOLEAN, n \in 1 .. MaxPktsService :
        /\ \E p \in Proto : queue[p].open
        /\ queue' = [p \in Proto |->
                        Read(p, IF p = Datagram THEN Min({n, Len(queue[p].kernel)})
                                ELSE IF interrupted THEN 0 ELSE Min({1, Len(queue[p].kernel)}))]
        /\ UNCHANGED <<conf, now, window, past>>

\* Faulty: the transports are tried in the same order every time.
ChosenAlike(order) ==
    {p \in Proto : queue[p].ready # <<>> /\ (p = Datagram \/ queue[Datagram].ready = <<>>)}

\* The transport GetNextMessage takes from: the first one that is ready, in the order tried
Chosen(order) ==
    LET ready == {i \in DOMAIN order : queue[order[i]].ready # <<>>}
    IN  {order[i] : i \in {j \in ready : \A k \in ready : j <= k}}

\* GetNextMessage, with the order random_shuffle gave.  What is no message is not counted.
GetNextMessage(order) ==
    \E p \in Chosen(order) :
        LET item == Head(queue[p].ready)
        IN  /\ queue' = [queue EXCEPT ![p].ready = Tail(@)]
            /\ IF item \in {Broken, Closed} THEN UNCHANGED <<window, past>> ELSE Counted("in", item)
            /\ UNCHANGED <<conf, now>>

\* GetOutboundUsage and GetInboundUsage drop what is too old.
GetUsage(dir) ==
    /\ window[dir] # <<>>
    /\ window' = [window EXCEPT ![dir] = Recent(@)]
    /\ UNCHANGED <<conf, now, queue, past>>

Tick ==
    /\ now < conf.until
    /\ now' = now + 1
    /\ UNCHANGED <<conf, queue, window, past>>

Next ==
    \/ \E p \in Proto : StartListening(p) \/ (\E len \in conf.sizes : SendMessage(p, len))
                        \/ (\E item \in conf.items : Arrive(p, item))
    \/ DoWork
    \/ \E order \in SetToSeqs(Proto) : GetNextMessage(order)
    \/ \E dir \in {"in", "out"} : GetUsage(dir)
    \/ Tick

\* Select is not interrupted for ever, and random_shuffle puts every transport first again and again.
Served(p) == DoWork /\ queue'[p].kernel # queue[p].kernel
Heard(p) == \E order \in SetToSeqs(Proto) : GetNextMessage(order) /\ queue'[p].ready # queue[p].ready

Fairness == \A p \in Proto : WF_vars(Served(p)) /\ WF_vars(Heard(p))

Spec == Init /\ [][Next]_vars /\ Fairness

-----------------------------------------------------------------------------

\* The bytes of what was measured at moment t or later.
Since(w, t) == Used([i \in DOMAIN w |-> [w[i] EXCEPT !.size = IF w[i].time < t THEN 0 ELSE @]])

(***************************************************************************)
(* The usage told covers every byte of the window but for its first bucket *)
(* and none from before the window, whatever the rhythm of the packets and *)
(* of the questions.                                                       *)
(***************************************************************************)
UsageTold ==
    \A dir \in {"in", "out"} :
        LET used == Used(Recent(window[dir]))
        IN  /\ used <= Since(past[dir], now - conf.window)
            /\ used >= Since(past[dir], now - conf.window + BucketSize - 1)

(***************************************************************************)
(* No transport starves: what has arrived for one is handed over, however  *)
(* much keeps arriving for another.                                        *)
(***************************************************************************)
Arrived(p) == p # conf.stream /\ queue[p].kernel # <<>>
Idle(p) == queue[p].kernel = <<>> /\ queue[p].ready = <<>>

EveryTransportHeard ==
    \A p \in Proto :
        Arrived(p) ~> Idle(p)
=============================================================================
