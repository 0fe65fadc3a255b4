---------------------------- MODULE TCPTransport ----------------------------
(***************************************************************************)
(* Messages over TCP (wan-env/TCPTransport.cpp, TCPConnection.cpp, under   *)
(* RealNet): a node opens a connection to whom it has none with, uses one  *)
(* it accepted for answers, and cuts the stream into messages by the       *)
(* length each begins with.  Two nodes may connect to each other at the    *)
(* same time: then each sends on its own connection and reads both.        *)
(*                                                                         *)
(* A message is the sequence of its pieces; a stream is what was written   *)
(* and not read yet, of which any beginning may have arrived.  A process   *)
(* that dies closes its sockets, and may be started again.  The worker     *)
(* thread is not built (ENABLE_REALNET_THREAD is undefined), so a node's   *)
(* steps are those of one thread.                                          *)
(***************************************************************************)
EXTENDS Naturals, Sequences

CONSTANTS
    Node, None,
    Scenarios       \* what each node sends to whom, and who may die how often

VARIABLES
    conf,       \* the scenario
    left,       \* what each node has still to send, and deaths
    conn,       \* all connections there ever were, with both ends
    net,        \* per process: whether it runs, its hash and list of connections
    got         \* what each process has been given by GetNextMessage

vars == <<conf, left, conn, net, got>>

Ends(c) == {conn[c].from, conn[c].to}
Peer(c, n) == IF conn[c].from = n THEN conn[c].to ELSE conn[c].from

\* The bytes of a message: its length, then its pieces (_Send_TCP).
Bytes(m) == <<[length |-> m.size, of |-> m.id]>> \o [i \in 1..m.size |-> [length |-> 0, of |-> m.id]]

\* What has been read of a message, and how much it lacks.
NewEnd(status) ==
    [status |-> status, open |-> TRUE, unread |-> <<>>, need |-> 0, packet |-> <<>>]

\* The connections that are used, and that select looks at (FillReadSet).
Usable(c, n) == conn[c].end[n].status \in {"CONN_NEWINCOMING", "CONN_OK"}

\* What is written to a peer that closed its end is lost.
Write(cs, c, to, m) ==
    IF ~cs[c].end[to].open THEN cs
    ELSE [cs EXCEPT ![c].end[to].unread = @ \o Bytes(m)]

-----------------------------------------------------------------------------

\* _Connect_TCP, and the peer has not accepted yet.
Connect(n, to) ==
    Append(conn, [from |-> n, to |-> to,
                  end |-> [e \in {n, to} |-> NewEnd(IF e = n THEN "CONN_OK" ELSE "BACKLOG")]])

\* A connection that is closed is replaced; None if nobody listens for a number of trials.
GetConnection(n, to) ==
    LET c == net[n].hash[to] IN
    IF c # None /\ Usable(c, n) THEN c
    ELSE IF net[to].up THEN Len(conn) + 1 ELSE None

SendMessage(n) ==
    LET m == Head(left.todo[n])
        c == GetConnection(n, m.to)
    IN  /\ net[n].up /\ left.todo[n] # <<>>
        /\ left' = [left EXCEPT !.todo[n] = Tail(@)]
        /\ IF c = None THEN UNCHANGED <<conn, net>>
           ELSE IF c \in DOMAIN conn THEN conn' = Write(conn, c, m.to, m) /\ UNCHANGED net
           ELSE /\ conn' = Write(Connect(n, m.to), c, m.to, m)
                /\ net' = [net EXCEPT ![n].hash[m.to] = c,
                                      ![n].list = (@ \ {net[n].hash[m.to]}) \cup {c}]
        /\ UNCHANGED <<conf, got>>

\* Faulty: the new connection takes the place of the one there is.
RegisterInstead(n) ==
    LET backlog == {c \in DOMAIN conn : n \in Ends(c) /\ conn[c].end[n].status = "BACKLOG"}
        c == CHOOSE x \in backlog : \A y \in backlog : x <= y
        p == Peer(c, n)
    IN  /\ net[n].up /\ backlog # {}
        /\ conn' = [conn EXCEPT ![c].end[n].status = "CONN_NEWINCOMING"]
        /\ net' = [net EXCEPT ![n].list = (@ \ {net[n].hash[p]}) \cup {c}, ![n].hash[p] = c]
        /\ UNCHANGED <<conf, left, got>>

\* _RegisterNewTCPConnections: the peer says who it is; a second connection with it is read,
\* but not sent on.
RegisterNewTCPConnections(n) ==
    LET backlog == {c \in DOMAIN conn : n \in Ends(c) /\ conn[c].end[n].status = "BACKLOG"}
        c == CHOOSE x \in backlog : \A y \in backlog : x <= y
        p == Peer(c, n)
    IN  /\ net[n].up /\ backlog # {}
        /\ conn' = [conn EXCEPT ![c].end[n].status = "CONN_NEWINCOMING"]
        /\ net' = [net EXCEPT ![n].list = @ \cup {c},
                              ![n].hash[p] = IF @ = None THEN c ELSE @]
        /\ UNCHANGED <<conf, left, got>>

-----------------------------------------------------------------------------
(***************************************************************************)
(* Reading.                                                                *)
(***************************************************************************)

\* _InitNewMessage: the length of the next message is read, if none has been begun.
InitNewMessage(e) ==
    IF e.need > 0 \/ e.unread = <<>> THEN e
    ELSE [e EXCEPT !.need = Head(e.unread).length, !.unread = Tail(@)]

\* Faulty: what has arrived is read, to whichever message it belongs.
ReadMessageOver(e, k) ==
    [e EXCEPT !.packet = @ \o SubSeq(e.unread, 1, k),
              !.unread = SubSeq(@, k + 1, Len(@)),
              !.need = IF k > @ THEN 0 ELSE @ - k]

\* _ReadMessage_TCP reads k pieces, no more than the message lacks.
ReadMessage(e, k) ==
    LET some == IF k <= e.need THEN k ELSE e.need IN
    [e EXCEPT !.packet = @ \o SubSeq(e.unread, 1, some),
              !.unread = SubSeq(@, some + 1, Len(@)),
              !.need = @ - some]

\* GetNextPacket takes the packet away (_ResetPacket).
GetLatestMessage(e) == [e EXCEPT !.status = "CONN_OK", !.need = 0, !.packet = <<>>]

\* PerformRead: the message goes on, or is complete, and GetNextMessage gives it to the node;
\* the connection is a new one no more.
PerformRead(n, c) ==
    LET e == InitNewMessage(conn[c].end[n]) IN
    /\ Usable(c, n) /\ conn[c].end[n].unread # <<>>
    /\ \E k \in 0..Len(e.unread) :
          LET r == ReadMessage(e, k) IN
          IF r.need > 0
          THEN conn' = [conn EXCEPT ![c].end[n] = r] /\ UNCHANGED got
          ELSE /\ conn' = [conn EXCEPT ![c].end[n] = GetLatestMessage(r)]
               /\ got' = [got EXCEPT ![n] = Append(@, [via |-> c, packet |-> r.packet])]
    /\ UNCHANGED <<conf, left, net>>

\* A socket is closed.  If it had not been read to its end, the peer may lose what it has not
\* read either (a reset).
Close(cs, c, n) ==
    LET p == Peer(c, n)
        shut == [cs EXCEPT ![c].end[n] = [@ EXCEPT !.open = FALSE, !.status = "CONN_CLOSED",
                                                   !.unread = <<>>]]
    IN  {shut} \cup IF cs[c].end[n].unread = <<>> THEN {}
                    ELSE {[shut EXCEPT ![c].end[p].unread = <<>>]}

\* READ_CLOSE and READ_ERROR, with CloseConnection, which closes whatever connection the hash
\* has for the peer.
ReadClose(n, c) ==
    LET p == Peer(c, n)
        h == net[n].hash[p]
        marked == [conn EXCEPT ![c].end[n].status = "CONN_CLOSED", ![c].end[n].packet = <<>>]
    IN  /\ Usable(c, n)
        /\ conn[c].end[n].unread = <<>> /\ ~conn[c].end[p].open
        /\ IF h = None THEN conn' = marked ELSE conn' \in Close(marked, h, n)
        /\ UNCHANGED <<conf, left, net, got>>

\* _CleanupConnections, once a second: closed connections go, and with them whatever the hash
\* has for their peers.
CleanupConnections(n) ==
    LET closed == {c \in net[n].list : ~Usable(c, n)} IN
    /\ net[n].up /\ closed # {}
    /\ net' = [net EXCEPT ![n].list = @ \ closed,
                          ![n].hash = [p \in DOMAIN @ |->
                              IF \E c \in closed : Peer(c, n) = p THEN None ELSE @[p]]]
    /\ UNCHANGED <<conf, left, conn, got>>

DoWork(n) == RegisterNewTCPConnections(n) \/ CleanupConnections(n)

\* GetReadyConnection goes round the list; which sockets have data waiting is open.
GetReadyConnection(n) == \E c \in net[n].list : PerformRead(n, c) \/ ReadClose(n, c)

-----------------------------------------------------------------------------

NewNet == [up |-> TRUE, hash |-> [p \in Node |-> None], list |-> {}]

\* The process dies, or stops (_ClearConnections): the kernel closes its sockets.
Die(n) ==
    /\ left.deaths[n] > 0 /\ net[n].up
    /\ left' = [left EXCEPT !.deaths[n] = @ - 1]
    /\ net' = [net EXCEPT ![n] = [NewNet EXCEPT !.up = FALSE]]
    /\ conn' = [c \in DOMAIN conn |->
                   IF n \notin Ends(c) \/ ~conn[c].end[n].open THEN conn[c]
                   ELSE [conn[c] EXCEPT !.end[n] = [NewEnd("DEAD") EXCEPT !.open = FALSE]]]
    /\ UNCHANGED <<conf, got>>

StartListening(n) ==
    /\ ~net[n].up
    /\ net' = [net EXCEPT ![n] = NewNet]
    /\ UNCHANGED <<conf, left, conn, got>>

Init ==
    /\ conf \in Scenarios
    /\ left = [todo |-> conf.todo, deaths |-> conf.deaths]
    /\ conn = <<>>
    /\ net = [n \in Node |-> NewNet]
    /\ got = [n \in Node |-> <<>>]

Next ==
    \E n \in Node :
        \/ SendMessage(n) \/ GetReadyConnection(n) \/ DoWork(n)
        \/ Die(n) \/ StartListening(n)

Spec == Init /\ [][Next]_vars

-----------------------------------------------------------------------------
(***************************************************************************)
(* Properties.                                                             *)
(***************************************************************************)

\* A message is given to the node whole, and the messages of one sender in the order it sent
\* them, over whichever connections they came; after a death, those that came over the same
\* connection (PerformRead, GetConnection).
WholeAndInOrder ==
    \A n \in Node :
        /\ \A i \in DOMAIN got[n] : LET p == got[n][i].packet IN
              p # <<>> /\ \E m \in conf.messages :
                  p = Tail(Bytes(m)) /\ m.to = n /\ m.from = Peer(got[n][i].via, n)
        /\ \A i, j \in DOMAIN got[n] :
              (/\ i < j /\ Peer(got[n][i].via, n) = Peer(got[n][j].via, n)
               /\ got[n][i].via = got[n][j].via \/ left.deaths = conf.deaths) =>
                  Head(got[n][i].packet).of < Head(got[n][j].packet).of

\* As long as nobody died, what was sent is where it will be read: given to its node, or on its
\* way in a connection that the node reads or is going to accept, however the two came to
\* connect (_RegisterNewTCPConnections).
NothingStranded ==
    left.deaths = conf.deaths =>
        \A m \in conf.messages :
            \/ \E i \in DOMAIN left.todo[m.from] : left.todo[m.from][i].id = m.id
            \/ \E i \in DOMAIN got[m.to] : got[m.to][i].packet = Tail(Bytes(m))
            \/ \E c \in DOMAIN conn :
                  LET e == conn[c].end[m.to] IN
                  /\ m.to \in Ends(c)
                  /\ e.status = "BACKLOG" \/ (c \in net[m.to].list /\ Usable(c, m.to))
                  /\ \E i \in DOMAIN (e.packet \o e.unread) : (e.packet \o e.unread)[i].of = m.id
=============================================================================
