-------------------------------- MODULE Wire --------------------------------
(***************************************************************************)
(* Messages in packets (mercury/Packet.cpp; SendMessage and                *)
(* GetNextMessage of wan-env/RealNet.cpp); what is in which message is in  *)
(* Layouts.  A packet is a sequence of cells, a value of width w being w   *)
(* of them; who reads it at another width or place reads garbage.  Values  *)
(* are abstract: a field's own name, or a number for an identifier, whose  *)
(* length depends on it.  Compression is an abstract function whose result *)
(* may be shorter or not.                                                  *)
(***************************************************************************)
EXTENDS Layouts, TLC

CONSTANTS
    Node, None,
    Scenarios       \* the message there is, who sends it to whom, whether it is compressed

VARIABLES
    conf,       \* the scenario, and the layout of every class registered
    node,       \* the message each node holds, and where it has still to send it
    net,        \* packets in flight
    got         \* what has been read, with what was sent

vars == <<conf, node, net, got>>

-----------------------------------------------------------------------------
(***************************************************************************)
(* Writing, measuring and reading.                                         *)
(***************************************************************************)

\* Serialize, GetLength and Clone are virtual: the class is the object's, not the pointer's.
Virtual == {"Message", "MsgPublication", "Event", "Interest", "Metric"}
ClassOf(kind, v) == IF kind \in Virtual THEN v.type ELSE kind

Present(f, v) == f.flag = "" \/ v[f.flag] = f.is

\* MercuryID::GetLength: one bit more than the number has, for the sign.
RawSize(v) == IF v = 0 THEN 0 ELSE (CHOOSE k \in 0..20 : 2^k <= v /\ v < 2^(k + 1)) \div 8 + 1

Cells(v, w) == [i \in 1..w |-> [of |-> v, w |-> w, i |-> i]]

\* WriteByte ... WriteString; a string has two bytes.
WriteValue(kind, v) ==
    CASE kind = "value" -> Cells(RawSize(v), 4) \o Cells(v, RawSize(v))
      [] kind = "string" -> Cells(2, 4) \o Cells(v, 2)
      [] kind = "buffer" -> Cells(v.cells, v.size)
      [] OTHER -> Cells(v, Width[kind])

RECURSIVE Serialize(_, _), SerializeFields(_, _), SerializeAll(_, _)

Serialize(kind, v) ==
    IF kind \in DOMAIN Width \cup {"value", "string", "buffer"} THEN WriteValue(kind, v)
    ELSE SerializeFields(conf.layout[ClassOf(kind, v)].writes, v)

SerializeFields(fs, v) ==
    IF fs = <<>> THEN <<>>
    ELSE LET f == Head(fs)
             cells == IF ~Present(f, v) THEN <<>>
                      ELSE IF f.many
                           THEN Cells(Len(v[f.field]), IF f.counted THEN 4 ELSE 0) \o SerializeAll(f.kind, v[f.field])
                      ELSE Serialize(f.kind, v[f.field])
         IN  cells \o SerializeFields(Tail(fs), v)

SerializeAll(kind, s) ==
    IF s = <<>> THEN <<>> ELSE Serialize(kind, Head(s)) \o SerializeAll(kind, Tail(s))

RECURSIVE GetLength(_, _), LengthOf(_, _), LengthOfAll(_, _)

GetLength(kind, v) ==
    CASE kind = "value" -> 4 + RawSize(v)
      [] kind = "string" -> 4 + 2
      [] kind = "buffer" -> v.size
      [] OTHER -> LengthOf(conf.layout[ClassOf(kind, v)].length, v)

LengthOf(parts, v) ==
    IF parts = <<>> THEN 0
    ELSE LET f == Head(parts)
             len == IF ~Present(f, v) THEN 0
                    ELSE IF f.kind = "bytes" THEN f.field
                    ELSE IF f.many THEN LengthOfAll(f.kind, v[f.field])
                    ELSE GetLength(f.kind, v[f.field])
         IN  len + LengthOf(Tail(parts), v)

LengthOfAll(kind, s) ==
    IF s = <<>> THEN 0 ELSE GetLength(kind, Head(s)) + LengthOfAll(kind, Tail(s))

\* A value of width w at position p; garbage (None) if none was written there.
At(c, p, w) ==
    IF w = 0 THEN 0
    ELSE IF p + w <= Len(c) /\ c[p + 1].w = w /\ c[p + 1].i = 1 THEN c[p + 1].of ELSE None

\* ReadByte ... ReadString, MercuryID's constructor.
ReadValue(kind, c, p) ==
    IF kind \in DOMAIN Width THEN [v |-> At(c, p, Width[kind]), p |-> p + Width[kind]]
    ELSE LET n == At(c, p, 4)
         IN  IF n = None THEN [v |-> None, p |-> p + 4] ELSE [v |-> At(c, p + 4, n), p |-> p + 4 + n]

RECURSIVE Read(_, _, _), ReadFields(_, _, _, _), ReadMany(_, _, _, _)

\* CreateObject looks at the type; elsewhere the constructor called is that of the class named.
Read(kind, c, p) ==
    IF kind \in DOMAIN Width \cup {"value", "string"} THEN ReadValue(kind, c, p)
    ELSE LET class == IF kind \in Virtual \ {"MsgPublication"} THEN At(c, p, 1) ELSE kind
         IN  IF class = None THEN [v |-> None, p |-> p]
             ELSE LET r == ReadFields(conf.layout[class].reads, c, p, <<>>)
                  IN  IF kind \in Virtual THEN [r EXCEPT !.v.type = class] ELSE r

ReadFields(fs, c, p, v) ==
    IF fs = <<>> THEN [v |-> v, p |-> p]
    ELSE LET f == Head(fs)
             r == IF f.many THEN ReadMany(f.kind, c, p + 4, At(c, p, 4)) ELSE Read(f.kind, c, p)
         IN  IF Present(f, v) THEN ReadFields(Tail(fs), c, r.p, (f.field :> r.v) @@ v)
             ELSE ReadFields(Tail(fs), c, p, v)

ReadMany(kind, c, p, n) ==
    IF n \in {0, None} THEN [v |-> <<>>, p |-> p]
    ELSE LET first == Read(kind, c, p)
             rest == ReadMany(kind, c, first.p, n - 1)
         IN  [v |-> <<first.v>> \o rest.v, p |-> rest.p]

-----------------------------------------------------------------------------
(***************************************************************************)
(* Sending and receiving.                                                  *)
(***************************************************************************)

\* MsgCompressed(msg): a packet is made of the message, and shrunk.
Compressed(msg) ==
    LET cells == Serialize("Message", msg)
    IN  [type |-> "MsgCompressed", compLen |-> conf.squeezed, origLen |-> GetLength("Message", msg),
         compBuf |-> [cells |-> cells, size |-> conf.squeezed]]

\* _MakePacket: the packet is as long as GetLength says.
MakePacket(msg) == [cells |-> Serialize("Message", msg), size |-> GetLength("Message", msg)]

MakeCompressedPacket(msg) ==
    LET Packet(m) == [cells |-> Serialize("MsgCompressed", m), size |-> GetLength("MsgCompressed", m)]
    IN  Packet(Compressed(msg))

PacketFor(plain, shrunk) ==
    IF conf.compress /\ plain.size > conf.minsz /\ plain.size > shrunk.size THEN shrunk ELSE plain

\* RealNet::SendMessage: the object itself counts how often it is sent, and it has another
\* nonce afterwards, but not on the wire.
SendMessage(n) ==
    LET msg == [node[n].msg EXCEPT !.hopCount = @ + 1, !.sender = IF node[n].msg.type \in Messages THEN [ip |-> n, port |-> 1] ELSE @]
    IN  /\ node[n].to # <<>>
        /\ net' = net \cup {[to |-> Head(node[n].to), sent |-> msg, pkt |-> PacketFor(MakePacket(msg), MakeCompressedPacket(msg))]}
        /\ node' = [node EXCEPT ![n] = [msg |-> [msg EXCEPT !.nonce = @ + 1], to |-> Tail(@.to)]]
        /\ UNCHANGED <<conf, got>>

\* GetNextMessage: a message that was compressed is unpacked.
Inside(cells, outer) == At(cells, outer.p, outer.v.compLen)
Unpacked(cells) ==
    IF At(cells, 0, 1) # "MsgCompressed" THEN cells
    ELSE Inside(cells, ReadFields(SubSeq(conf.layout["MsgCompressed"].reads, 1, 3), cells, 0, <<>>))

\* Faulty: what is stored is the object that came.
SlicedNever(msg) == msg

\* HandleLinearPublication: the publication is stored, without what is only there for its way.
Sliced(msg) ==
    IF msg.type # "MsgLinearPublication" THEN msg
    ELSE [f \in DOMAIN msg \ {"stopval"} |-> IF f = "type" THEN "MsgPublication" ELSE msg[f]]

\* HandoverTriggers, for one trigger: a new message of the node's own.
Handover(n, msg) ==
    [type |-> "MsgTriggerList", sender |-> [ip |-> n, port |-> 1], hubID |-> msg.hubID, hopCount |-> 0,
     nonce |-> msg.nonce + 1, triggers |-> <<Sliced(msg)>>]

\* What a node does with what it reads: routes it on as it is, or stores it and hands it over later.
Receive(n) ==
    \E m \in net :
        /\ m.to = n
        /\ net' = net \ {m}
        /\ \E cells \in {Unpacked(m.pkt.cells)} : \E r \in {Read("Message", cells, 0)} :
              /\ got' = got \cup {[sent |-> m.sent, read |-> r.v, left |-> Len(cells) - r.p]}
              /\ node' = [node EXCEPT ![n] =
                     [msg |-> IF conf.stored THEN Handover(n, r.v) ELSE r.v, to |-> conf.dests[n]]]
        /\ UNCHANGED conf

-----------------------------------------------------------------------------

\* A message of each class: with k elements in every list, and its flags set or not.
RECURSIVE SampleOf(_, _, _)
SampleOf(kind, k, field) ==
    CASE kind \in {"bool"} -> k > 0
      [] kind = "value" -> IF k = 0 THEN 0 ELSE IF field = "max" THEN 300 ELSE 5 + k
      [] field = "ok" -> k > 0
      [] field \in {"hopCount", "nonce"} -> 0
      [] kind \in DOMAIN Width \cup {"string"} -> field
      [] OTHER ->
         LET class == IF kind = "Event" THEN IF k = 1 THEN "PointEvent" ELSE "MercuryEvent"
                      ELSE IF kind = "Metric" THEN IF k = 1 THEN "NCMetric" ELSE "LoadMetric" ELSE kind
             fs == conf.layout[class].writes
             V(f) == LET f0 == fs[CHOOSE i \in DOMAIN fs : fs[i].field = f]
                     IN  IF f0.many THEN [i \in 1..k |-> SampleOf(f0.kind, (k + i) % 3, f)]
                         ELSE IF f = "type" THEN class ELSE SampleOf(f0.kind, k, f)
             fields == {fs[i].field : i \in {j \in DOMAIN fs : fs[j].flag = "" \/ (k > 0) = fs[j].is}}
         IN  [f \in fields |-> V(f)]

Init ==
    /\ \E s \in Scenarios, m \in Messages \cup Remote \cup {"MsgApp"} :
          /\ s.class \in {m, None}                     \* None: every class
          /\ conf = [s EXCEPT !.class = m] @@ [layout |-> [class \in Messages \cup Remote \cup Parts \cup {"MsgApp", "MsgCompressed"} |-> Layout(class)]]
    /\ node = [n \in Node |-> [msg |-> IF n = conf.first THEN SampleOf(conf.class, conf.k, "") ELSE None,
                               to |-> IF n = conf.first THEN conf.dests[n] ELSE <<>>]]
    /\ net = {}
    /\ got = {}

Next ==
    \E n \in Node : SendMessage(n) \/ Receive(n)

-----------------------------------------------------------------------------
(***************************************************************************)
(* What should hold.                                                       *)
(***************************************************************************)

\* A node reads what the other wrote, to the end of the packet, and a packet is exactly
\* filled, but for a denial to a joiner (Message.cpp:433), however often the message was passed on,
\* compressed, stored or carried in another (_MakePacket, RealNet.cpp:490: "some component of
\* the msg allocated too much or too little space").
CarriedWhole ==
    /\ \A r \in got : r.sent.type = "SamplerMakeLocalEstimate" \/ (r.read = r.sent /\ r.left = 0)
    /\ \A m \in net : \/ m.pkt.size = Len(m.pkt.cells)
                      \/ m.sent.type = "MsgJoinResponse" /\ m.sent.ok = FALSE
=============================================================================
