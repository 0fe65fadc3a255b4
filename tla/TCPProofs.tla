----------------------------- MODULE TCPProofs -----------------------------
(***************************************************************************)
(* Proofs about messages over TCP, for any nodes, messages and deaths:     *)
(* they are given whole and in order, and none is stranded.                *)
(***************************************************************************)
EXTENDS TCPTransport, SequenceTheorems, WellFoundedInduction, TLAPS

\* A node sends to others, and numbers its messages in the order it sends them; a message is
\* not empty.
TCPAssumption ==
    /\ None \notin Nat
    /\ \A s \in Scenarios :
          /\ \A m \in s.messages :
                /\ m \in [id : Nat, from : Node, to : Node, size : Nat \ {0}]
                /\ m.from # m.to
                /\ \E i \in DOMAIN s.todo[m.from] : s.todo[m.from][i] = m
                /\ \A o \in s.messages : m.id = o.id => m = o
          /\ s.todo \in [Node -> Seq(s.messages)]
          /\ \A n \in Node : \A i, j \in DOMAIN s.todo[n] :
                /\ s.todo[n][i].from = n
                /\ i < j => s.todo[n][i].id < s.todo[n][j].id
          /\ s.deaths \in [Node -> Nat]

-----------------------------------------------------------------------------
(***************************************************************************)
(* What is in a stream.                                                    *)
(***************************************************************************)

Message == [id : Nat, from : Node, to : Node, size : Nat \ {0}]
Cell == [length : Nat, of : Nat]
Status == {"BACKLOG", "CONN_NEWINCOMING", "CONN_OK", "CONN_CLOSED", "DEAD"}
End == [status : Status, open : BOOLEAN, unread : Seq(Cell), need : Nat, packet : Seq(Cell)]

Piece(m) == [length |-> 0, of |-> m.id]
Whole(m) == [i \in 1 .. m.size |-> Piece(m)]

\* The message m begins at i, and another one follows it.
MessageAt(s, i, m) ==
    /\ s[i].length = m.size /\ s[i].of = m.id
    /\ i + m.size <= Len(s)
    /\ \A j \in 1 .. m.size : s[i + j] = Piece(m)
    /\ i + m.size < Len(s) => s[i + m.size + 1].length > 0

Increasing(s) ==
    \A i, j \in 1 .. Len(s) : i < j => /\ s[i].of <= s[j].of
                                       /\ s[j].length > 0 => s[i].of < s[j].of

\* Of the message m some pieces are read, and the others come next.
Reading(e, m) ==
    /\ e.need <= m.size
    /\ e.packet = [i \in 1 .. m.size - e.need |-> Piece(m)]
    /\ \A i \in 1 .. Len(e.unread) : IF i <= e.need THEN e.unread[i] = Piece(m)
                                                    ELSE m.id < e.unread[i].of

\* Messages of M, one after the other, in the order of their numbers.
Ordered(s, M) ==
    /\ Increasing(s)
    /\ \A i \in 1 .. Len(s) : s[i].length > 0 => \E m \in M : MessageAt(s, i, m)

\* An end holds such messages; what is lacking comes, unless the connection was cut.
Framed(e, M, cut) ==
    /\ Ordered(e.unread, M)
    /\ e.need < Len(e.unread) => e.unread[e.need + 1].length > 0
    /\ e.need = 0 => e.packet = <<>>
    /\ e.need > 0 => \E m \in M : Reading(e, m)
    /\ e.need <= Len(e.unread) \/ (e.unread = <<>> /\ cut)

\* The message numbers of all that is in an end.
Holds(e, x) ==
    \/ \E i \in 1 .. Len(e.packet) : e.packet[i].of = x
    \/ \E i \in 1 .. Len(e.unread) : e.unread[i].of = x

\* What a sequence of cells has at a place.
LEMMA CellAt ==
    ASSUME NEW s \in Seq(Cell), NEW i \in 1 .. Len(s)
    PROVE  s[i].of \in Nat /\ s[i].length \in Nat
<1>1. s[i] \in Cell
  OBVIOUS
<1>. QED  BY <1>1 DEF Cell

\* What _Send_TCP writes: the length, and then the pieces.
LEMMA BytesOf ==
    ASSUME NEW m \in Message
    PROVE  /\ Bytes(m) \in Seq(Cell)
           /\ Len(Bytes(m)) = m.size + 1
           /\ Bytes(m)[1] = [length |-> m.size, of |-> m.id]
           /\ \A j \in 1 .. m.size : Bytes(m)[j + 1] = Piece(m)
           /\ Tail(Bytes(m)) = Whole(m)
           /\ Whole(m) \in Seq(Cell) /\ Len(Whole(m)) = m.size /\ Whole(m) # <<>>
<1>. DEFINE head == <<[length |-> m.size, of |-> m.id]>>
<1>1. m.size \in Nat \ {0} /\ m.id \in Nat
  BY DEF Message
<1>2. head \in Seq(Cell) /\ Len(head) = 1 /\ head[1] = [length |-> m.size, of |-> m.id]
  BY <1>1 DEF Cell
<1>3. Whole(m) \in Seq(Cell) /\ Len(Whole(m)) = m.size
      /\ \A j \in 1 .. m.size : Whole(m)[j] = Piece(m)
  <2>1. Piece(m) \in Cell
    BY <1>1 DEF Piece, Cell
  <2>. QED  BY <1>1, <2>1 DEF Whole
<1>4. Bytes(m) = head \o Whole(m)
  BY DEF Bytes, Whole, Piece
<1>. HIDE DEF head
<1>5. /\ Bytes(m) \in Seq(Cell) /\ Len(Bytes(m)) = 1 + m.size
      /\ \A i \in 1 .. 1 + m.size : Bytes(m)[i] = IF i <= 1 THEN head[i] ELSE Whole(m)[i - 1]
  BY <1>2, <1>3, <1>4, ConcatProperties
<1>6. Bytes(m)[1] = [length |-> m.size, of |-> m.id]
  BY <1>1, <1>2, <1>5
<1>7. ASSUME NEW j \in 1 .. m.size
      PROVE  Bytes(m)[j + 1] = Piece(m)
  <2>1. j + 1 \in 1 .. 1 + m.size /\ ~(j + 1 <= 1) /\ (j + 1) - 1 = j
    BY <1>1
  <2>2. Bytes(m)[j + 1] = Whole(m)[(j + 1) - 1]
    BY <2>1, <1>5
  <2>. QED  BY <2>1, <2>2, <1>3
<1>8. Tail(Bytes(m)) = Whole(m)
  <2>1. Bytes(m) # <<>>
    BY <1>5, <1>1
  <2>2. /\ Tail(Bytes(m)) \in Seq(Cell) /\ Len(Tail(Bytes(m))) = m.size
        /\ \A i \in 1 .. m.size : Tail(Bytes(m))[i] = Bytes(m)[i + 1]
    BY <2>1, <1>5, <1>1, HeadTailProperties
  <2>3. \A i \in 1 .. m.size : Tail(Bytes(m))[i] = Whole(m)[i]
    BY <2>2, <1>7, <1>3
  <2>. QED  BY <2>2, <2>3, <1>3, SeqEqual
<1>. QED  BY <1>1, <1>3, <1>5, <1>6, <1>7, <1>8

\* A message is written behind what there is (WriteBlock).
LEMMA WrittenFramed ==
    ASSUME NEW e \in End, NEW M \in SUBSET Message, NEW m \in M, NEW f \in End,
           Framed(e, M, FALSE),
           \A x \in Nat : Holds(e, x) => x < m.id,
           f.unread = e.unread \o Bytes(m), f.need = e.need, f.packet = e.packet
    PROVE  /\ Framed(f, M, FALSE)
           /\ \A x : Holds(f, x) => x = m.id \/ Holds(e, x)
           /\ \A x : Holds(e, x) => Holds(f, x)
           /\ Holds(f, m.id)
<1>. DEFINE s == e.unread  t == f.unread  L == Len(s)
<1>0. m \in Message /\ m.size \in Nat \ {0} /\ m.id \in Nat
  BY DEF Message
<1>1. s \in Seq(Cell) /\ L \in Nat /\ e.need \in Nat /\ e.packet \in Seq(Cell)
      /\ \A i \in 1 .. L : s[i] \in Cell
  BY DEF End
<1>b. PICK b \in Seq(Cell) :
          /\ t = s \o b /\ Len(b) = m.size + 1
          /\ b[1] = [length |-> m.size, of |-> m.id]
          /\ \A j \in 1 .. m.size : b[j + 1] = Piece(m)
  BY <1>0, BytesOf
<1>s. /\ Increasing(s)
      /\ \A i \in 1 .. L : s[i].length > 0 => \E o \in M : MessageAt(s, i, o)
      /\ e.need < L => s[e.need + 1].length > 0
      /\ e.need <= L
  BY <1>1 DEF Framed, Ordered
<1>l. Len(s) = L
  OBVIOUS
<1>h. \A x : Holds(e, x) <=> \/ \E i \in 1 .. Len(e.packet) : e.packet[i].of = x
                            \/ \E i \in 1 .. L : s[i].of = x
  BY DEF Holds
<1>f. \A x : Holds(f, x) <=> \/ \E i \in 1 .. Len(e.packet) : e.packet[i].of = x
                            \/ \E i \in 1 .. Len(t) : t[i].of = x
  BY DEF Holds
<1>r. \A o : Reading(e, o) =>
          \A i \in 1 .. L : IF i <= e.need THEN s[i] = Piece(o) ELSE o.id < s[i].of
  BY DEF Reading
<1>n. L \in Nat /\ e.need \in Nat /\ m.size \in Nat /\ m.size > 0 /\ m.id \in Nat
  BY <1>0, <1>1
<1>. HIDE DEF s, t, L
<1>2. /\ t \in Seq(Cell) /\ Len(t) = L + m.size + 1
      /\ \A i \in 1 .. L : t[i] = s[i]
      /\ t[L + 1] = [length |-> m.size, of |-> m.id]
      /\ \A j \in 1 .. m.size : t[L + 1 + j] = Piece(m)
  <2>0. /\ s \o b \in Seq(Cell) /\ Len(s \o b) = Len(s) + Len(b)
        /\ \A i \in 1 .. Len(s) + Len(b) : (s \o b)[i] = IF i <= Len(s) THEN s[i] ELSE b[i - Len(s)]
    BY <1>1, ConcatProperties
  <2>1. /\ t \in Seq(Cell) /\ Len(t) = L + (m.size + 1)
        /\ \A i \in 1 .. L + (m.size + 1) : t[i] = IF i <= L THEN s[i] ELSE b[i - L]
    BY <2>0, <1>b, <1>l
  <2>2. t[L + 1] = b[1]
    <3>1. L + 1 \in 1 .. L + (m.size + 1) /\ ~((L + 1) <= L) /\ (L + 1) - L = 1
      BY <1>n
    <3>. QED  BY <3>1, <2>1
  <2>3. ASSUME NEW j \in 1 .. m.size
        PROVE  t[L + 1 + j] = Piece(m)
    <3>1. L + 1 + j \in 1 .. L + (m.size + 1) /\ ~((L + 1 + j) <= L) /\ (L + 1 + j) - L = j + 1
      BY <1>n
    <3>2. t[L + 1 + j] = b[j + 1]
      BY <3>1, <2>1
    <3>. QED  BY <3>2, <1>0, <1>b
  <2>4. ASSUME NEW i \in 1 .. L
        PROVE  t[i] = s[i]
    <3>1. i \in 1 .. L + (m.size + 1) /\ i <= L
      BY <1>n
    <3>. QED  BY <3>1, <2>1
  <2>5. Len(t) = L + m.size + 1
    BY <2>1, <1>n
  <2>. QED  BY <2>1, <2>2, <2>3, <2>4, <2>5, <1>b
<1>3. \A i \in 1 .. Len(t) : i <= L \/ i = L + 1 \/ \E j \in 1 .. m.size : i = L + 1 + j
  <2>1. ASSUME NEW i \in 1 .. Len(t), ~(i <= L), i # L + 1
        PROVE  i - L - 1 \in 1 .. m.size /\ i = L + 1 + (i - L - 1)
    BY <2>1, <1>n, <1>2
  <2>. QED  BY <2>1
<1>4. \A i \in 1 .. Len(t) : i > L => t[i].of = m.id /\ (t[i].length > 0 <=> i = L + 1)
  <2>1. ASSUME NEW i \in 1 .. Len(t), i > L
        PROVE  t[i].of = m.id /\ (t[i].length > 0 <=> i = L + 1)
    <3>1. CASE i = L + 1
      BY <3>1, <1>2, <1>0
    <3>2. CASE \E j \in 1 .. m.size : i = L + 1 + j
      <4>1. PICK j \in 1 .. m.size : i = L + 1 + j
        BY <3>2
      <4>2. t[i] = Piece(m) /\ i # L + 1
        BY <4>1, <1>2, <1>n
      <4>. QED  BY <4>2 DEF Piece
    <3>3. i = L + 1 \/ \E j \in 1 .. m.size : i = L + 1 + j
      <4>1. ~(i <= L)
        BY <2>1, <1>1
      <4>. QED  BY <4>1, <1>3, Zenon
    <3>. QED  BY <3>1, <3>2, <3>3, Zenon
  <2>. QED  BY <2>1
<1>5. \A i \in 1 .. L : s[i].of \in Nat /\ s[i].of < m.id
  <2>1. \A i \in 1 .. L : s[i].of \in Nat
    BY <1>1 DEF Cell
  <2>. QED  BY <2>1, <1>h
<1>6. Increasing(t)
  <2>. SUFFICES ASSUME NEW i \in 1 .. Len(t), NEW j \in 1 .. Len(t), i < j
                PROVE  t[i].of <= t[j].of /\ (t[j].length > 0 => t[i].of < t[j].of)
    BY DEF Increasing
  <2>1. CASE j <= L
    <3>1. i \in 1 .. L /\ j \in 1 .. L
      BY <2>1, <1>1, <1>2
    <3>2. s[i].of <= s[j].of /\ (s[j].length > 0 => s[i].of < s[j].of)
      BY <3>1, <1>s, <1>l DEF Increasing
    <3>3. t[i] = s[i] /\ t[j] = s[j]
      BY <3>1, <1>2
    <3>. QED  BY <3>2, <3>3
  <2>2. CASE i <= L /\ j > L
    <3>1. i \in 1 .. L
      BY <2>2, <1>1
    <3>2. t[i].of < m.id /\ t[j].of = m.id
      BY <3>1, <2>2, <1>2, <1>4, <1>5
    <3>. QED  BY <3>1, <3>2, <1>0, <1>2, <1>5
  <2>3. CASE i > L
    <3>1. t[i].of = m.id /\ t[j].of = m.id /\ j > L /\ ~(t[j].length > 0)
      BY <2>3, <1>4, <1>1, <1>2
    <3>. QED  BY <3>1, <1>0
  <2>. QED  BY <2>1, <2>2, <2>3, <1>1, <1>2
<1>7. ASSUME NEW i \in 1 .. Len(t), t[i].length > 0
      PROVE  \E o \in M : MessageAt(t, i, o)
  <2>1. CASE i <= L
    <3>1. i \in 1 .. L /\ s[i].length > 0
      BY <2>1, <1>7, <1>1, <1>2
    <3>2. PICK o \in M : MessageAt(s, i, o)
      BY <3>1, <1>s
    <3>3. o.size \in Nat /\ o.size > 0
      BY DEF Message
    <3>4. i + o.size <= L /\ \A j \in 1 .. o.size : s[i + j] = Piece(o)
      BY <3>2, <1>l DEF MessageAt
    <3>5. \A j \in 1 .. o.size : t[i + j] = Piece(o)
      <4>1. \A j \in 1 .. o.size : i + j \in 1 .. L
        BY <3>1, <3>3, <3>4, <1>n
      <4>. QED  BY <4>1, <3>4, <1>2
    <3>6. t[i + o.size + 1].length > 0
      <4>1. CASE i + o.size = L
        BY <4>1, <1>2, <1>0
      <4>2. CASE i + o.size < L
        <5>1. s[i + o.size + 1].length > 0 /\ i + o.size + 1 \in 1 .. L
          BY <4>2, <3>1, <3>2, <3>3, <1>1, <1>l DEF MessageAt
        <5>. QED  BY <5>1, <1>2
      <4>3. i + o.size = L \/ i + o.size < L
        <5>1. i + o.size <= L
          BY <3>4
        <5>2. i + o.size \in Int /\ L \in Int
          BY <3>3, <1>n
        <5>. QED  BY <5>1, <5>2
      <4>. QED  BY <4>1, <4>2, <4>3
    <3>7. t[i].length = o.size /\ t[i].of = o.id
      BY <3>1, <3>2, <1>2 DEF MessageAt
    <3>8. i + o.size <= Len(t)
      BY <3>1, <3>3, <3>4, <1>n, <1>2
    <3>. QED  BY <3>5, <3>6, <3>7, <3>8 DEF MessageAt
  <2>2. CASE i > L
    <3>1. i = L + 1
      BY <2>2, <1>4, <1>7
    <3>2. MessageAt(t, i, m)
      BY <3>1, <1>n, <1>2 DEF MessageAt
    <3>. QED  BY <3>2
  <2>. QED  BY <2>1, <2>2, <1>1, <1>2
<1>8. e.need <= L
  BY <1>s
<1>9. t[e.need + 1].length > 0
  <2>1. CASE e.need = L
    BY <2>1, <1>2, <1>0
  <2>2. CASE e.need < L
    <3>1. s[e.need + 1].length > 0 /\ e.need + 1 \in 1 .. L
      BY <2>2, <1>1, <1>s
    <3>. QED  BY <3>1, <1>2
  <2>. QED  BY <2>1, <2>2, <1>8, <1>1
<1>10. ASSUME e.need > 0
       PROVE  \E o \in M : Reading(f, o)
  <2>1. PICK o \in M : Reading(e, o)
    BY <1>10 DEF Framed
  <2>2. o.id \in Nat
    BY DEF Message
  <2>3. o.id < m.id
    <3>1. 1 \in 1 .. L /\ 1 <= e.need
      BY <1>8, <1>10, <1>1
    <3>2. s[1] = Piece(o)
      BY <3>1, <2>1, <1>r
    <3>. QED  BY <3>1, <3>2, <1>5 DEF Piece
  <2>4. ASSUME NEW i \in 1 .. Len(t)
        PROVE  IF i <= e.need THEN t[i] = Piece(o) ELSE o.id < t[i].of
    <3>1. CASE i <= L
      <4>1. i \in 1 .. L
        BY <3>1, <1>1, <1>2
      <4>2. IF i <= e.need THEN s[i] = Piece(o) ELSE o.id < s[i].of
        BY <4>1, <2>1, <1>r
      <4>3. t[i] = s[i]
        BY <4>1, <1>2
      <4>. QED  BY <4>2, <4>3
    <3>2. CASE i > L
      <4>1. ~(i <= e.need) /\ t[i].of = m.id
        BY <3>2, <1>4, <1>8, <1>1, <1>2
      <4>. QED  BY <4>1, <2>3
    <3>. QED  BY <3>1, <3>2, <1>1, <1>2
  <2>. QED  BY <2>1, <2>4 DEF Reading, t
<1>11. Framed(f, M, FALSE)
  <2>1. f.need <= Len(t)
    BY <1>0, <1>1, <1>2, <1>8
  <2>2. f.need = 0 => f.packet = <<>>
    BY DEF Framed
  <2>3. Ordered(f.unread, M)
    BY <1>6, <1>7 DEF Ordered, t
  <2>. QED  BY <2>1, <2>2, <2>3, <1>6, <1>9, <1>10 DEF Framed, t
<1>12. \A x : Holds(f, x) => x = m.id \/ Holds(e, x)
  <2>1. \A i \in 1 .. Len(t) : t[i].of = m.id \/ \E j \in 1 .. L : s[j].of = t[i].of
    <3>1. ASSUME NEW i \in 1 .. Len(t)
          PROVE  t[i].of = m.id \/ \E j \in 1 .. L : s[j].of = t[i].of
      <4>1. CASE i <= L
        <5>1. i \in 1 .. L
          BY <4>1, <1>1, <1>2
        <5>. QED  BY <5>1, <1>2
      <4>2. CASE i > L
        BY <4>2, <1>4
      <4>. QED  BY <4>1, <4>2, <1>1, <1>2
    <3>. QED  BY <3>1
  <2>. QED  BY <2>1, <1>h, <1>f
<1>13. \A x : Holds(e, x) => Holds(f, x)
  <2>1. \A i \in 1 .. L : i \in 1 .. Len(t)
    BY <1>0, <1>1, <1>2
  <2>2. \A i \in 1 .. L : t[i].of = s[i].of
    BY <1>2
  <2>. QED  BY <2>1, <2>2, <1>h, <1>f
<1>14. Holds(f, m.id)
  <2>1. L + 1 \in 1 .. Len(t) /\ t[L + 1].of = m.id
    BY <1>0, <1>1, <1>2
  <2>. QED  BY <2>1, <1>f
<1>. QED  BY <1>11, <1>12, <1>13, <1>14

IsRest(t, s, k, M) ==
    /\ t \in Seq(Cell) /\ Len(t) = Len(s) - k
    /\ \A i \in 1 .. Len(t) : t[i] = s[i + k] /\ i + k \in 1 .. Len(s)
    /\ \A i \in k + 1 .. Len(s) : i - k \in 1 .. Len(t) /\ t[i - k] = s[i]
    /\ Ordered(t, M)

\* What is left of a stream when its beginning was read (_ReadMessage_TCP).
LEMMA RestOf ==
    ASSUME NEW M \in SUBSET Message, NEW s \in Seq(Cell), NEW k \in 0 .. Len(s), Ordered(s, M)
    PROVE  IsRest(SubSeq(s, k + 1, Len(s)), s, k, M)
<1>. DEFINE t == SubSeq(s, k + 1, Len(s))
<1>0. Len(s) \in Nat /\ k \in Nat /\ k <= Len(s)
  OBVIOUS
<1>1. \A i \in 1 .. Len(s) : s[i] \in Cell
  OBVIOUS
<1>2. /\ t \in Seq(Cell) /\ Len(t) = Len(s) - k
      /\ \A i \in 1 .. Len(s) - k : t[i] = s[i + k]
  <2>1. \A i \in k + 1 .. Len(s) : s[i] \in Cell
    BY <1>0, <1>1
  <2>2. /\ t \in Seq(Cell) /\ Len(t) = IF k + 1 <= Len(s) THEN Len(s) - (k + 1) + 1 ELSE 0
        /\ \A i \in 1 .. Len(s) - (k + 1) + 1 : t[i] = s[(k + 1) + i - 1]
    <3>1. k + 1 \in Int /\ Len(s) \in Int
      BY <1>0
    <3>. QED  BY <2>1, <3>1, SubSeqProperties
  <2>3. Len(t) = Len(s) - k
    BY <2>2, <1>0
  <2>4. ASSUME NEW i \in 1 .. Len(s) - k
        PROVE  t[i] = s[i + k]
    <3>1. i \in 1 .. Len(s) - (k + 1) + 1 /\ (k + 1) + i - 1 = i + k
      BY <1>0
    <3>. QED  BY <3>1, <2>2
  <2>. QED  BY <2>2, <2>3, <2>4
<1>. HIDE DEF t
<1>n. Len(t) \in Nat /\ Len(t) = Len(s) - k
  BY <1>2
<1>3. ASSUME NEW i \in 1 .. Len(t)
      PROVE  t[i] = s[i + k] /\ i + k \in 1 .. Len(s)
  <2>1. i \in 1 .. Len(s) - k
    BY <1>2
  <2>2. t[i] = s[i + k]
    BY <2>1, <1>2
  <2>. QED  BY <2>1, <2>2, <1>0
<1>4. ASSUME NEW i \in k + 1 .. Len(s)
      PROVE  i - k \in 1 .. Len(t) /\ t[i - k] = s[i]
  <2>1. i - k \in 1 .. Len(t) /\ (i - k) + k = i
    BY <1>0, <1>n
  <2>. QED  BY <2>1, <1>3
<1>5. Increasing(t)
  <2>. SUFFICES ASSUME NEW i \in 1 .. Len(t), NEW j \in 1 .. Len(t), i < j
                PROVE  t[i].of <= t[j].of /\ (t[j].length > 0 => t[i].of < t[j].of)
    BY DEF Increasing
  <2>1. i + k \in 1 .. Len(s) /\ j + k \in 1 .. Len(s) /\ i + k < j + k
    BY <1>3, <1>0
  <2>2. s[i + k].of <= s[j + k].of /\ (s[j + k].length > 0 => s[i + k].of < s[j + k].of)
    BY <2>1 DEF Ordered, Increasing
  <2>. QED  BY <2>2, <1>3
<1>6. ASSUME NEW i \in 1 .. Len(t), t[i].length > 0
      PROVE  \E m \in M : MessageAt(t, i, m)
  <2>1. PICK m \in M : MessageAt(s, i + k, m)
    BY <1>3, <1>6 DEF Ordered
  <2>2. m.size \in Nat /\ m.size > 0
    BY DEF Message
  <2>3. /\ s[i + k].length = m.size /\ s[i + k].of = m.id
        /\ (i + k) + m.size <= Len(s)
        /\ \A j \in 1 .. m.size : s[(i + k) + j] = Piece(m)
        /\ (i + k) + m.size < Len(s) => s[(i + k) + m.size + 1].length > 0
    BY <2>1 DEF MessageAt
  <2>4. i + m.size <= Len(t)
    BY <2>2, <2>3, <1>0, <1>n
  <2>5. ASSUME NEW j \in 1 .. m.size
        PROVE  t[i + j] = Piece(m)
    <3>1. i + j \in 1 .. Len(t) /\ (i + j) + k = (i + k) + j
      BY <2>2, <2>4, <1>0, <1>n
    <3>. QED  BY <3>1, <2>3, <1>3
  <2>6. ASSUME i + m.size < Len(t)
        PROVE  t[i + m.size + 1].length > 0
    <3>1. i + m.size + 1 \in 1 .. Len(t) /\ (i + m.size + 1) + k = (i + k) + m.size + 1
      BY <2>6, <2>2, <1>0, <1>n
    <3>2. (i + k) + m.size < Len(s)
      BY <2>6, <2>2, <1>0, <1>n
    <3>. QED  BY <3>1, <3>2, <2>3, <1>3
  <2>7. t[i].length = m.size /\ t[i].of = m.id
    BY <2>3, <1>3
  <2>. QED  BY <2>4, <2>5, <2>6, <2>7 DEF MessageAt
<1>7. Ordered(t, M)
  BY <1>5, <1>6 DEF Ordered
<1>8. IsRest(t, s, k, M)
  BY <1>2, <1>3, <1>4, <1>7 DEF IsRest
<1>. QED  BY <1>8 DEF t

\* The length of the next message is read (_InitNewMessage).
LEMMA InitFramed ==
    ASSUME NEW e \in End, NEW M \in SUBSET Message, NEW cut \in BOOLEAN,
           Framed(e, M, cut), e.unread # <<>>, NEW f, f = InitNewMessage(e)
    PROVE  /\ f \in End /\ f.status = e.status /\ f.open = e.open
           /\ f.need > 0 /\ Framed(f, M, FALSE)
           /\ \A x : Holds(e, x) <=> Holds(f, x)
<1>0. e.unread \in Seq(Cell) /\ Len(e.unread) \in Nat /\ Len(e.unread) > 0 /\ e.need \in Nat
  BY DEF End
<1>1. CASE e.need > 0
  <2>1. f = e
    BY <1>1 DEF InitNewMessage
  <2>. QED  BY <2>1, <1>1 DEF Framed
<1>2. CASE e.need = 0
  <2>. DEFINE s == e.unread  L == Len(s)
  <2>1. PICK m \in M : MessageAt(s, 1, m)
    BY <1>0, <1>2 DEF Framed, Ordered
  <2>2. m.size \in Nat /\ m.size > 0 /\ m.id \in Nat
    BY DEF Message
  <2>3. /\ s[1].length = m.size /\ s[1].of = m.id
        /\ 1 + m.size <= L
        /\ \A j \in 1 .. m.size : s[1 + j] = Piece(m)
        /\ 1 + m.size < L => s[1 + m.size + 1].length > 0
    BY <2>1 DEF MessageAt
  <2>4. Head(s) = s[1] /\ Tail(s) = SubSeq(s, 1 + 1, L)
    BY <1>0
  <2>5. PICK t : t = SubSeq(s, 1 + 1, L)
    OBVIOUS
  <2>6. /\ t \in Seq(Cell) /\ Len(t) = L - 1
        /\ \A i \in 1 .. Len(t) : t[i] = s[i + 1] /\ i + 1 \in 1 .. L
        /\ \A i \in 1 + 1 .. L : i - 1 \in 1 .. Len(t) /\ t[i - 1] = s[i]
        /\ Ordered(t, M)
    <3>1. PICK k \in 0 .. Len(s) : k = 1
      BY <1>0
    <3>2. Ordered(s, M) /\ s \in Seq(Cell)
      BY <1>0 DEF Framed
    <3>3. t = SubSeq(s, k + 1, Len(s))
      BY <2>5, <3>1
    <3>. HIDE DEF s
    <3>4. IsRest(t, s, k, M)
      BY <3>2, <3>3, RestOf
    <3>. QED  BY <3>1, <3>4 DEF IsRest
  <2>7. f = [e EXCEPT !.need = m.size, !.unread = t]
    <3>1. f = [e EXCEPT !.need = Head(s).length, !.unread = Tail(s)]
      BY <1>0, <1>2 DEF InitNewMessage
    <3>. QED  BY <3>1, <2>3, <2>4, <2>5
  <2>8. f \in End /\ f.status = e.status /\ f.open = e.open /\ f.need = m.size
        /\ f.unread = t /\ f.packet = e.packet
    BY <2>2, <2>6, <2>7 DEF End
  <2>9. e.packet = <<>>
    BY <1>2 DEF Framed
  <2>n. L \in Nat /\ Len(t) \in Nat /\ Len(t) = L - 1
    BY <1>0, <2>6
  <2>10. \A i \in 1 .. m.size : t[i] = Piece(m)
    <3>1. ASSUME NEW i \in 1 .. m.size
          PROVE  t[i] = Piece(m)
      <4>1. i \in 1 .. Len(t) /\ i + 1 = 1 + i
        BY <2>2, <2>3, <2>n
      <4>. QED  BY <4>1, <2>3, <2>6
    <3>. QED  BY <3>1
  <2>11. m.size < Len(t) => t[m.size + 1].length > 0
    <3>1. ASSUME m.size < Len(t)
          PROVE  t[m.size + 1].length > 0
      <4>1. m.size + 1 \in 1 .. Len(t) /\ (m.size + 1) + 1 = 1 + m.size + 1 /\ 1 + m.size < L
        BY <3>1, <2>2, <2>n
      <4>. QED  BY <4>1, <2>3, <2>6
    <3>. QED  BY <3>1
  <2>12. \A i \in 1 .. Len(t) : i > m.size => m.id < t[i].of
    <3>1. ASSUME NEW i \in 1 .. Len(t), i > m.size
          PROVE  m.id < t[i].of
      <4>1. m.size + 1 \in 1 .. Len(t) /\ m.size < Len(t) /\ 1 \in 1 .. Len(t) /\ 1 < m.size + 1 /\ 1 \in 1 .. m.size
        BY <3>1, <2>2, <2>n
      <4>2. t[1].of = m.id
        BY <4>1, <2>10 DEF Piece
      <4>3. t[1].of < t[m.size + 1].of
        BY <4>1, <2>6, <2>11 DEF Ordered, Increasing
      <4>4. i = m.size + 1 \/ m.size + 1 < i
        BY <3>1, <2>2, <2>n
      <4>5. t[m.size + 1].of <= t[i].of
        <5>1. CASE i = m.size + 1
          <6>1. t[i].of \in Nat
            BY <2>6, CellAt
          <6>. QED  BY <6>1, <5>1
        <5>2. CASE m.size + 1 < i
          BY <5>2, <4>1, <2>6 DEF Ordered, Increasing
        <5>. QED  BY <5>1, <5>2, <4>4
      <4>6. t[i].of \in Nat /\ t[m.size + 1].of \in Nat
        BY <4>1, <2>6, CellAt
      <4>. QED  BY <4>2, <4>3, <4>5, <4>6, <2>2
    <3>. QED  BY <3>1
  <2>13. Reading(f, m)
    <3>1. f.packet = [i \in 1 .. m.size - m.size |-> Piece(m)]
      BY <2>2, <2>8, <2>9
    <3>2. \A i \in 1 .. Len(t) : IF i <= m.size THEN t[i] = Piece(m) ELSE m.id < t[i].of
      BY <2>10, <2>12, <2>2, <2>n
    <3>. QED  BY <3>1, <3>2, <2>2, <2>8 DEF Reading
  <2>14. Framed(f, M, FALSE)
    <3>1. m.size <= Len(t)
      BY <2>2, <2>3, <2>n
    <3>. HIDE DEF s, L
    <3>. QED  BY <3>1, <2>2, <2>6, <2>8, <2>11, <2>13 DEF Framed
  <2>15. ASSUME NEW x
         PROVE  Holds(e, x) <=> Holds(f, x)
    <3>1. Holds(e, x) <=> \E i \in 1 .. L : s[i].of = x
      BY <2>9 DEF Holds
    <3>2. Holds(f, x) <=> \E i \in 1 .. Len(t) : t[i].of = x
      BY <2>8, <2>9 DEF Holds
    <3>3. ASSUME NEW i \in 1 .. L, s[i].of = x
          PROVE  \E j \in 1 .. Len(t) : t[j].of = x
      <4>1. CASE i = 1
        <5>1. 1 \in 1 .. m.size /\ 1 \in 1 .. Len(t)
          BY <2>2, <2>3, <2>n
        <5>2. t[1].of = m.id
          BY <5>1, <2>10 DEF Piece
        <5>. QED  BY <5>1, <5>2, <4>1, <3>3, <2>3
      <4>2. CASE i # 1
        <5>1. i \in 1 + 1 .. L
          BY <4>2, <2>n
        <5>. QED  BY <5>1, <3>3, <2>6
      <4>. QED  BY <4>1, <4>2
    <3>4. ASSUME NEW i \in 1 .. Len(t), t[i].of = x
          PROVE  \E j \in 1 .. L : s[j].of = x
      BY <3>4, <2>6
    <3>. QED  BY <3>1, <3>2, <3>3, <3>4
  <2>. QED  BY <2>2, <2>8, <2>14, <2>15
<1>3. e.need > 0 \/ e.need = 0
  BY <1>0
<1>. QED  BY <1>1, <1>2, <1>3

\* r is what e becomes when some is read: the message still lacks something, or is whole and
\* older than what follows.
ReadsTo(e, r, M) ==
    /\ r \in End /\ r.status = e.status /\ r.open = e.open
    /\ r.need > 0 => Framed(r, M, FALSE) /\ \A x : Holds(r, x) <=> Holds(e, x)
    /\ ~(r.need > 0) =>
          \E m \in M : /\ r.packet = Whole(m)
                       /\ Framed(GetLatestMessage(r), M, FALSE)
                       /\ GetLatestMessage(r) \in End
                       /\ \A x : Holds(e, x) <=> x = m.id \/ Holds(GetLatestMessage(r), x)
                       /\ \A x : Holds(GetLatestMessage(r), x) => m.id < x

\* No more is read than the message lacks (_ReadMessage_TCP); a whole one is taken away
\* (GetLatestMessage).
LEMMA ReadFramed ==
    ASSUME NEW e \in End, NEW M \in SUBSET Message, Framed(e, M, FALSE), e.need > 0,
           NEW k \in 0 .. Len(e.unread), NEW r, r = ReadMessage(e, k)
    PROVE  ReadsTo(e, r, M)
<1>. DEFINE s == e.unread  L == Len(s)  some == IF k <= e.need THEN k ELSE e.need
            t == SubSeq(s, some + 1, L)  a == SubSeq(s, 1, some)  q == e.packet \o a
            need == e.need - some
<1>1. PICK m \in M : Reading(e, m)
  BY DEF Framed
<1>2. m.size \in Nat /\ m.size > 0 /\ m.id \in Nat /\ m \in Message
  BY DEF Message
<1>3. /\ e.need <= m.size
      /\ e.packet = [i \in 1 .. m.size - e.need |-> Piece(m)]
      /\ \A i \in 1 .. L : IF i <= e.need THEN s[i] = Piece(m) ELSE m.id < s[i].of
  BY <1>1 DEF Reading
<1>4. s \in Seq(Cell) /\ e.need \in Nat /\ e.packet \in Seq(Cell)
  BY DEF End
<1>5. /\ Ordered(s, M) /\ (e.need < L => s[e.need + 1].length > 0)
      /\ e.need <= L
  <2>1. L \in Nat
    BY <1>4
  <2>. QED  BY <2>1 DEF Framed
<1>6. r = [e EXCEPT !.packet = q, !.unread = t, !.need = need]
  BY DEF ReadMessage
<1>. HIDE DEF s, L
<1>n. L \in Nat /\ e.need \in Nat /\ L = Len(s)
  BY <1>4 DEF L
<1>7. k \in Nat /\ k <= L
  BY DEF L, s
<1>8. some \in Nat /\ some <= e.need /\ some <= L /\ (need = 0 => some = e.need) /\ need \in Nat
      /\ need + some = e.need
  BY <1>n, <1>5, <1>7
<1>. HIDE DEF some, need
<1>9. IsRest(t, s, some, M)
  <2>1. some \in 0 .. Len(s)
    BY <1>8, <1>n
  <2>. QED  BY <2>1, <1>4, <1>5, <1>n, RestOf
<1>10. a \in Seq(Cell) /\ Len(a) = some /\ \A i \in 1 .. some : a[i] = Piece(m)
  <2>1. \A i \in 1 .. some : i \in 1 .. L /\ i <= e.need
    BY <1>8, <1>n
  <2>2. \A i \in 1 .. some : s[i] \in Cell /\ s[i] = Piece(m)
    BY <2>1, <1>3, <1>4, <1>n
  <2>3. /\ a \in Seq(Cell) /\ Len(a) = IF 1 <= some THEN some - 1 + 1 ELSE 0
        /\ \A i \in 1 .. some - 1 + 1 : a[i] = s[1 + i - 1]
    <3>1. 1 \in Int /\ some \in Int
      BY <1>8
    <3>. QED  BY <2>2, <3>1, SubSeqProperties
  <2>4. Len(a) = some
    BY <2>3, <1>8
  <2>5. \A i \in 1 .. some : a[i] = s[i]
    <3>1. ASSUME NEW i \in 1 .. some
          PROVE  a[i] = s[i]
      <4>1. i \in 1 .. some - 1 + 1 /\ 1 + i - 1 = i
        BY <1>8
      <4>. QED  BY <4>1, <2>3
    <3>. QED  BY <3>1
  <2>. QED  BY <2>2, <2>3, <2>4, <2>5
<1>. HIDE DEF t, a
<1>11. q \in Seq(Cell) /\ q = [i \in 1 .. m.size - need |-> Piece(m)]
  <2>1. PICK j \in Nat : j = m.size - e.need
    BY <1>2, <1>3, <1>n
  <2>2. Len(e.packet) = j /\ \A i \in 1 .. j : e.packet[i] = Piece(m)
    <3>1. e.packet = [i \in 1 .. j |-> Piece(m)]
      BY <1>3, <2>1
    <3>. QED  BY <3>1
  <2>3. /\ q \in Seq(Cell) /\ Len(q) = Len(e.packet) + Len(a)
        /\ \A i \in 1 .. Len(e.packet) + Len(a) :
              q[i] = IF i <= Len(e.packet) THEN e.packet[i] ELSE a[i - Len(e.packet)]
    BY <1>4, <1>10, ConcatProperties
  <2>4. /\ Len(q) = j + some
        /\ \A i \in 1 .. j + some : q[i] = IF i <= j THEN e.packet[i] ELSE a[i - j]
    BY <2>2, <2>3, <1>10
  <2>5. ASSUME NEW i \in 1 .. j + some
        PROVE  q[i] = Piece(m)
    <3>1. CASE i <= j
      <4>1. i \in 1 .. j
        BY <3>1
      <4>. QED  BY <4>1, <2>2, <2>4
    <3>2. CASE ~(i <= j)
      <4>1. i - j \in 1 .. some
        BY <3>2, <1>8
      <4>. QED  BY <4>1, <3>2, <2>4, <1>10
    <3>. QED  BY <3>1, <3>2
  <2>6. m.size - need = j + some
    BY <2>1, <1>2, <1>8, <1>n
  <2>. DEFINE w == [i \in 1 .. m.size - need |-> Piece(m)]
  <2>. HIDE DEF q
  <2>7. Piece(m) \in Cell
    BY <1>2 DEF Piece, Cell
  <2>8. w = [i \in 1 .. j + some |-> Piece(m)] /\ j + some \in Nat
    BY <2>6, <1>8
  <2>9. w \in Seq(Cell) /\ Len(w) = j + some /\ \A i \in 1 .. j + some : w[i] = Piece(m)
    <3>1. PICK n \in Nat : n = j + some
      BY <2>8
    <3>2. w = [i \in 1 .. n |-> Piece(m)]
      BY <2>8, <3>1
    <3>. HIDE DEF w
    <3>3. w \in Seq(Cell) /\ Len(w) = n /\ \A i \in 1 .. n : w[i] = Piece(m)
      BY <2>7, <3>2
    <3>. QED  BY <3>1, <3>3
  <2>. HIDE DEF w
  <2>10. q = w
    BY <2>3, <2>4, <2>5, <2>9, SeqEqual
  <2>. QED  BY <2>3, <2>10 DEF w
<1>. HIDE DEF q
<1>12. /\ r \in End /\ r.status = e.status /\ r.open = e.open
       /\ r.unread = t /\ r.need = need /\ r.packet = q
  <2>1. t \in Seq(Cell)
    BY <1>9 DEF IsRest
  <2>. QED  BY <2>1, <1>6, <1>8, <1>11 DEF End
<1>13. /\ t \in Seq(Cell) /\ Len(t) \in Nat /\ Len(t) = L - some
       /\ \A i \in 1 .. Len(t) : t[i] = s[i + some] /\ i + some \in 1 .. L
       /\ \A i \in some + 1 .. L : i - some \in 1 .. Len(t) /\ t[i - some] = s[i]
       /\ Ordered(t, M)
  BY <1>9, <1>n DEF IsRest
<1>14. need <= Len(t)
  BY <1>5, <1>8, <1>13, <1>n
<1>15. ASSUME need < Len(t)
       PROVE  t[need + 1].length > 0
  <2>1. need + 1 \in 1 .. Len(t) /\ (need + 1) + some = e.need + 1 /\ e.need < L
    BY <1>15, <1>8, <1>13, <1>n
  <2>2. t[need + 1] = s[e.need + 1]
    BY <2>1, <1>13
  <2>. QED  BY <2>1, <2>2, <1>5
<1>16. \A i \in 1 .. Len(t) : IF i <= need THEN t[i] = Piece(m) ELSE m.id < t[i].of
  <2>1. ASSUME NEW i \in 1 .. Len(t)
        PROVE  IF i <= need THEN t[i] = Piece(m) ELSE m.id < t[i].of
    <3>1. i <= need <=> i + some <= e.need
      BY <1>8, <1>n
    <3>. QED  BY <3>1, <1>3, <1>13
  <2>. QED  BY <2>1
<1>17. \A x : Holds(e, x) <=> \/ \E i \in 1 .. Len(e.packet) : e.packet[i].of = x
                              \/ \E i \in 1 .. L : s[i].of = x
  BY DEF Holds, L, s
<1>18. \A x : (\E i \in 1 .. Len(e.packet) : e.packet[i].of = x) => x = m.id
  <2>1. \A i \in 1 .. Len(e.packet) : e.packet[i] = Piece(m)
    <3>1. PICK j \in Nat : j = m.size - e.need
      BY <1>2, <1>3, <1>n
    <3>2. e.packet = [i \in 1 .. j |-> Piece(m)]
      BY <1>3, <3>1
    <3>. QED  BY <3>2
  <2>. QED  BY <2>1 DEF Piece
<1>19. \E i \in 1 .. L : s[i].of = m.id
  <2>1. 1 \in 1 .. L /\ 1 <= e.need
    BY <1>5, <1>n
  <2>2. s[1].of = m.id
    BY <2>1, <1>3 DEF Piece
  <2>. QED  BY <2>1, <2>2
<1>20. \A x : (\E i \in 1 .. L : s[i].of = x) <=> x = m.id \/ \E i \in 1 .. Len(t) : t[i].of = x
  <2>1. ASSUME NEW x, NEW i \in 1 .. L, s[i].of = x
        PROVE  x = m.id \/ \E j \in 1 .. Len(t) : t[j].of = x
    <3>1. CASE i <= some
      <4>1. i <= e.need
        BY <3>1, <1>8, <1>n
      <4>2. s[i] = Piece(m)
        BY <4>1, <1>3
      <4>. QED  BY <4>2, <2>1 DEF Piece
    <3>2. CASE ~(i <= some)
      <4>1. i \in some + 1 .. L
        BY <3>2, <1>8, <1>n
      <4>. QED  BY <4>1, <2>1, <1>13
    <3>. QED  BY <3>1, <3>2
  <2>2. ASSUME NEW x, NEW i \in 1 .. Len(t), t[i].of = x
        PROVE  \E j \in 1 .. L : s[j].of = x
    BY <2>2, <1>13
  <2>. QED  BY <2>1, <2>2, <1>19
<1>21. ASSUME need > 0
       PROVE  Framed(r, M, FALSE) /\ \A x : Holds(r, x) <=> Holds(e, x)
  <2>1. Reading(r, m)
    <3>1. need <= m.size
      BY <1>2, <1>3, <1>8, <1>n
    <3>. QED  BY <3>1, <1>11, <1>12, <1>16 DEF Reading
  <2>2. Framed(r, M, FALSE)
    BY <2>1, <1>8, <1>12, <1>13, <1>14, <1>15, <1>21 DEF Framed
  <2>3. \A x : Holds(r, x) <=> \/ \E i \in 1 .. Len(q) : q[i].of = x
                               \/ \E i \in 1 .. Len(t) : t[i].of = x
    BY <1>12 DEF Holds
  <2>4. \A x : (\E i \in 1 .. Len(q) : q[i].of = x) => x = m.id
    <3>1. PICK j \in Nat : j = m.size - need
      BY <1>2, <1>3, <1>8, <1>n
    <3>2. q = [i \in 1 .. j |-> Piece(m)]
      BY <1>11, <3>1
    <3>3. \A i \in 1 .. Len(q) : q[i] = Piece(m)
      BY <3>2
    <3>. QED  BY <3>3 DEF Piece
  <2>5. \E i \in 1 .. Len(t) : t[i].of = m.id
    <3>1. 1 \in 1 .. Len(t) /\ 1 <= need
      BY <1>14, <1>21, <1>8, <1>13
    <3>2. t[1].of = m.id
      BY <3>1, <1>16 DEF Piece
    <3>. QED  BY <3>1, <3>2
  <2>. QED  BY <2>2, <2>3, <2>4, <2>5, <1>17, <1>18, <1>20
<1>22. ASSUME ~(need > 0)
       PROVE  /\ r.packet = Whole(m)
              /\ Framed(GetLatestMessage(r), M, FALSE)
              /\ GetLatestMessage(r) \in End
              /\ \A x : Holds(e, x) <=> x = m.id \/ Holds(GetLatestMessage(r), x)
              /\ \A x : Holds(GetLatestMessage(r), x) => m.id < x
  <2>. DEFINE g == GetLatestMessage(r)
  <2>1. need = 0
    BY <1>22, <1>8
  <2>2. r.packet = Whole(m)
    <3>1. m.size - need = m.size
      BY <2>1, <1>2
    <3>. QED  BY <3>1, <1>11, <1>12 DEF Whole
  <2>3. g \in End /\ g.need = 0 /\ g.packet = <<>> /\ g.unread = t
    <3>1. PICK none \in Seq(Cell) : none = <<>>
      BY EmptySeq
    <3>2. g = [r EXCEPT !.status = "CONN_OK", !.need = 0, !.packet = none]
      BY <3>1 DEF GetLatestMessage
    <3>. HIDE DEF g
    <3>3. PICK ok \in Status, zero \in Nat : ok = "CONN_OK" /\ zero = 0
      BY DEF Status
    <3>4. g = [r EXCEPT !.status = ok, !.need = zero, !.packet = none]
      BY <3>2, <3>3
    <3>5. g \in End /\ g.need = 0 /\ g.packet = none /\ g.unread = r.unread
      <4>1. r \in End
        BY <1>12
      <4>2. g \in End /\ g.need = zero /\ g.packet = none /\ g.unread = r.unread
        BY <3>4, <4>1 DEF End
      <4>. QED  BY <4>2, <3>3
    <3>. QED  BY <3>1, <3>5, <1>12
  <2>. HIDE DEF g
  <2>4. Framed(g, M, FALSE)
    BY <2>1, <2>3, <1>13, <1>14, <1>15 DEF Framed
  <2>5. \A x : Holds(g, x) <=> \E i \in 1 .. Len(t) : t[i].of = x
    BY <2>3 DEF Holds
  <2>6. \A x : Holds(g, x) => m.id < x
    <3>1. \A i \in 1 .. Len(t) : m.id < t[i].of
      BY <2>1, <1>16
    <3>. QED  BY <2>5, <3>1
  <2>7. \A x : Holds(e, x) <=> x = m.id \/ Holds(g, x)
    BY <2>5, <1>17, <1>18, <1>20
  <2>. QED  BY <2>2, <2>3, <2>4, <2>6, <2>7 DEF g
<1>. QED  BY <1>12, <1>21, <1>22 DEF ReadsTo

-----------------------------------------------------------------------------
(***************************************************************************)
(* The invariant.                                                          *)
(***************************************************************************)

\* The end is still read, or will be once it is accepted.
Live(e) == e.status \in {"BACKLOG", "CONN_NEWINCOMING", "CONN_OK"}

Conns ==
    {x \in [from : Node, to : Node, end : UNION {[S -> End] : S \in SUBSET Node}] :
        x.from # x.to /\ x.end \in [{x.from, x.to} -> End]}

Net == [up : BOOLEAN, hash : [Node -> Nat \cup {None}], list : SUBSET Nat]
Gift == [via : Nat, packet : Seq(Cell)]

TypeOK ==
    /\ conf \in Scenarios
    /\ left \in [todo : [Node -> Seq(conf.messages)], deaths : [Node -> Nat]]
    /\ conn \in Seq(Conns)
    /\ net \in [Node -> Net]
    /\ got \in [Node -> Seq(Gift)]

\* The two processes of a connection.
Two(x) == {x.from, x.to}
Other(x, n) == IF x.from = n THEN x.to ELSE x.from

\* A process has under a peer's name a connection with that peer, which it has accepted.
KnownIn(cs, nt) ==
    \A n \in Node :
        /\ \A p \in Node : LET c == nt[n].hash[p] IN
              c # None => /\ c \in DOMAIN cs /\ n \in Two(cs[c]) /\ Other(cs[c], n) = p
                          /\ cs[c].end[n].status # "BACKLOG"
        /\ \A c \in nt[n].list :
              c \in DOMAIN cs /\ n \in Two(cs[c]) /\ cs[c].end[n].status # "BACKLOG"

Known == KnownIn(conn, net)

\* What a node has still to send is its own, in the order of the numbers.
Pending ==
    \A n \in Node :
        /\ \A i \in DOMAIN left.todo[n] : left.todo[n][i].from = n
        /\ \A i, j \in DOMAIN left.todo[n] : i < j => left.todo[n][i].id < left.todo[n][j].id
        /\ left.deaths[n] <= conf.deaths[n]

SentBy(M, p, n) == {m \in M : m.from = p /\ m.to = n}

\* The numbers of the messages in g that came over c.
Heard(g, c) == {Head(g[i].packet).of : i \in {i \in DOMAIN g : g[i].via = c}}

\* An end holds messages that are older than what is still to be sent, and newer than what
\* was heard over this connection.
StreamOK(e, other, M, todo, heard) ==
    Live(e) =>
        /\ Framed(e, M, ~Live(other))
        /\ \A x : Holds(e, x) => /\ \A i \in DOMAIN todo : x < todo[i].id
                                 /\ \A y \in heard : y < x

StreamsIn(cs, M, todo, gt) ==
    \A c \in DOMAIN cs : \A n \in Two(cs[c]) : LET p == Other(cs[c], n) IN
        StreamOK(cs[c].end[n], cs[c].end[p], SentBy(M, p, n), todo[p], Heard(gt[n], c))

Streams == StreamsIn(conn, conf.messages, left.todo, got)

\* What was given is whole, and in order as far as it came over one connection.
GivenIn(cs, M, todo, gt) ==
    \A n \in Node :
        /\ \A i \in DOMAIN gt[n] :
              LET c == gt[n][i].via IN
              /\ c \in DOMAIN cs /\ n \in Two(cs[c])
              /\ \E m \in SentBy(M, Other(cs[c], n), n) :
                    /\ gt[n][i].packet = Whole(m)
                    /\ \A j \in DOMAIN todo[m.from] : m.id < todo[m.from][j].id
        /\ \A i, j \in DOMAIN gt[n] :
              i < j /\ gt[n][i].via = gt[n][j].via =>
                  Head(gt[n][i].packet).of < Head(gt[n][j].packet).of

Given == GivenIn(conn, conf.messages, left.todo, got)

\* While nobody died, every connection stands, and all that goes from one node to another
\* goes over the same one.
StandsIn(cs, nt, gt) ==
    /\ \A n \in Node : nt[n].up
    /\ \A c \in DOMAIN cs : \A n \in Two(cs[c]) :
          /\ cs[c].end[n].open /\ Live(cs[c].end[n])
          /\ cs[c].end[n].status # "BACKLOG" => c \in nt[n].list
          /\ \A x : Holds(cs[c].end[n], x) => nt[Other(cs[c], n)].hash[n] = c
    /\ \A n \in Node : \A i \in DOMAIN gt[n] :
          nt[Other(cs[gt[n][i].via], n)].hash[n] = gt[n][i].via

\* Then a message is still to be sent, or was given, or is in a connection.
PresentIn(cs, todo, gt, m) ==
    \/ \E i \in DOMAIN todo[m.from] : todo[m.from][i] = m
    \/ \E i \in DOMAIN gt[m.to] : gt[m.to][i].packet = Whole(m)
    \/ \E c \in DOMAIN cs : m.to \in Two(cs[c]) /\ Holds(cs[c].end[m.to], m.id)

CalmIn(cs, nt, M, todo, gt) == StandsIn(cs, nt, gt) /\ \A m \in M : PresentIn(cs, todo, gt, m)

Calm == left.deaths = conf.deaths => CalmIn(conn, net, conf.messages, left.todo, got)

Inv == TypeOK /\ Known /\ Pending /\ Streams /\ Given /\ Calm

-----------------------------------------------------------------------------
(***************************************************************************)
(* Connections and their ends.                                             *)
(***************************************************************************)

\* Of some numbers one is the least.
LEMMA LeastNumber ==
    ASSUME NEW T \in SUBSET Nat, T # {}
    PROVE  \E n \in T : \A m \in T : n <= m
<1>. DEFINE R == OpToRel(<, Nat)
<1>1. IsWellFoundedOn(R, Nat)
  BY NatLessThanWellFounded
<1>2. \A m, n \in Nat : <<m, n>> \in R <=> m < n
  BY DEF OpToRel
<1>. HIDE DEF R
<1>3. PICK n \in T : \A m \in T : ~(<<m, n>> \in R)
  BY <1>1, WFMin, Zenon
<1>4. \A m \in T : ~(m < n)
  BY <1>2, <1>3
<1>. QED  BY <1>4

\* The scenarios.
LEMMA Scenario ==
    ASSUME TCPAssumption, conf \in Scenarios
    PROVE  /\ conf.messages \subseteq Message
           /\ \A m \in conf.messages : m.from # m.to
           /\ \A m \in conf.messages : \E i \in DOMAIN conf.todo[m.from] : conf.todo[m.from][i] = m
           /\ \A m, o \in conf.messages : m.id = o.id => m = o
           /\ conf.todo \in [Node -> Seq(conf.messages)]
           /\ \A n \in Node : \A i, j \in DOMAIN conf.todo[n] :
                 /\ conf.todo[n][i].from = n
                 /\ i < j => conf.todo[n][i].id < conf.todo[n][j].id
           /\ conf.deaths \in [Node -> Nat]
BY DEF TCPAssumption, Message

\* What a connection of the list is made of.
LEMMA ConnAt ==
    ASSUME NEW a \in Seq(Conns), NEW c \in DOMAIN a
    PROVE  /\ a[c].from \in Node /\ a[c].to \in Node /\ a[c].from # a[c].to
           /\ a[c].end \in [{a[c].from, a[c].to} -> End]
           /\ \A n \in {a[c].from, a[c].to} : a[c].end[n] \in End
           /\ a[c] = [from |-> a[c].from, to |-> a[c].to, end |-> a[c].end]
<1>1. a[c] \in Conns
  OBVIOUS
<1>. QED  BY <1>1 DEF Conns

\* Both ends of a connection.
LEMMA OtherOf ==
    ASSUME NEW a \in Seq(Conns), NEW c \in DOMAIN a, NEW n \in Two(a[c])
    PROVE  /\ n \in Node /\ Other(a[c], n) \in Node /\ Other(a[c], n) # n
           /\ Other(a[c], n) \in Two(a[c]) /\ Other(a[c], Other(a[c], n)) = n
           /\ Two(a[c]) = {n, Other(a[c], n)}
           /\ a[c].end[n] \in End /\ a[c].end[Other(a[c], n)] \in End
           /\ c \in Nat
<1>1. /\ a[c].from \in Node /\ a[c].to \in Node /\ a[c].from # a[c].to
      /\ \A m \in {a[c].from, a[c].to} : a[c].end[m] \in End
  BY ConnAt
<1>2. c \in Nat
  OBVIOUS
<1>. QED  BY <1>1, <1>2 DEF Two, Other

\* a and b are the same connections, but for the end of n of c, which is r.
Differs(a, b, c, n, r) ==
    /\ b \in Seq(Conns) /\ DOMAIN b = DOMAIN a
    /\ \A d \in DOMAIN a :
          /\ b[d].from = a[d].from /\ b[d].to = a[d].to
          /\ \A m \in {a[d].from, a[d].to} : b[d].end[m] = IF d = c /\ m = n THEN r ELSE a[d].end[m]

\* y is the connection x, but for the end of n, which is r.
Puts(x, y, n, r) ==
    /\ y \in Conns /\ y.from = x.from /\ y.to = x.to
    /\ \A m \in {x.from, x.to} : y.end[m] = IF m = n THEN r ELSE x.end[m]

\* Replacing one end of a connection leaves the other one.
LEMMA EndPut ==
    ASSUME NEW x \in Conns, NEW n \in {x.from, x.to}, NEW r \in End
    PROVE  Puts(x, [x EXCEPT !.end[n] = r], n, r)
<1>. DEFINE y == [x EXCEPT !.end[n] = r]
<1>1. /\ x.from \in Node /\ x.to \in Node /\ x.from # x.to
      /\ x.end \in [{x.from, x.to} -> End]
      /\ x = [from |-> x.from, to |-> x.to, end |-> x.end]
  BY DEF Conns
<1>2. PICK f : f = [x.end EXCEPT ![n] = r]
  OBVIOUS
<1>3. /\ f \in [{x.from, x.to} -> End]
      /\ \A m \in {x.from, x.to} : f[m] = IF m = n THEN r ELSE x.end[m]
  BY <1>1, <1>2
<1>4. y = [from |-> x.from, to |-> x.to, end |-> f]
  BY <1>1, <1>2
<1>. HIDE DEF y
<1>5. y.from = x.from /\ y.to = x.to /\ y.end = f
  BY <1>4
<1>6. {x.from, x.to} \in SUBSET Node
  BY <1>1
<1>7. f \in UNION {[S -> End] : S \in SUBSET Node}
  BY <1>3, <1>6
<1>8. y \in [from : Node, to : Node, end : UNION {[S -> End] : S \in SUBSET Node}]
  BY <1>7, <1>1, <1>4
<1>9. y \in Conns
  BY <1>8, <1>1, <1>3, <1>5 DEF Conns
<1>10. Puts(x, y, n, r)
  BY <1>3, <1>5, <1>9 DEF Puts
<1>. QED  BY <1>10 DEF y

\* Replacing one end of one connection leaves all the others.
LEMMA EndSet ==
    ASSUME NEW a \in Seq(Conns), NEW c \in DOMAIN a, NEW n \in {a[c].from, a[c].to}, NEW r \in End
    PROVE  Differs(a, [a EXCEPT ![c].end[n] = r], c, n, r)
<1>1. a[c] \in Conns /\ c \in 1 .. Len(a)
  OBVIOUS
<1>2. PICK x : x = [a[c] EXCEPT !.end[n] = r]
  OBVIOUS
<1>3. /\ x \in Conns /\ x.from = a[c].from /\ x.to = a[c].to
      /\ \A m \in {a[c].from, a[c].to} : x.end[m] = IF m = n THEN r ELSE a[c].end[m]
  <2>1. PICK w \in Conns : w = a[c]
    BY <1>1
  <2>2. n \in {w.from, w.to} /\ x = [w EXCEPT !.end[n] = r]
    BY <2>1, <1>2
  <2>3. Puts(w, x, n, r)
    BY <2>2, EndPut
  <2>. QED  BY <2>1, <2>3 DEF Puts
<1>4. PICK b : b = [a EXCEPT ![c] = x]
  OBVIOUS
<1>5. b \in Seq(Conns) /\ Len(b) = Len(a) /\ \A d \in 1 .. Len(a) : b[d] = IF d = c THEN x ELSE a[d]
  BY <1>1, <1>3, <1>4, ExceptSeq
<1>6. DOMAIN b = DOMAIN a /\ \A d \in DOMAIN a : b[d] = IF d = c THEN x ELSE a[d]
  BY <1>5
<1>7. Differs(a, b, c, n, r)
  BY <1>3, <1>5, <1>6 DEF Differs
<1>8. b = [a EXCEPT ![c].end[n] = r]
  BY <1>2, <1>4
<1>. QED  BY <1>7, <1>8

\* What a stream is said to be holds on when the sender has less to send or closes its end.
LEMMA StreamKept ==
    ASSUME NEW e, NEW o, NEW o2, NEW M, NEW t, NEW t2, NEW h, NEW h2,
           StreamOK(e, o, M, t, h), Live(o2) => Live(o),
           \A i \in DOMAIN t2 : \E j \in DOMAIN t : t2[i] = t[j],
           h2 \subseteq h
    PROVE  StreamOK(e, o2, M, t2, h2)
<1>. SUFFICES ASSUME Live(e)
              PROVE  /\ Framed(e, M, ~Live(o2))
                     /\ \A x : Holds(e, x) => /\ \A i \in DOMAIN t2 : x < t2[i].id
                                              /\ \A y \in h2 : y < x
  BY DEF StreamOK
<1>1. /\ Framed(e, M, ~Live(o))
      /\ \A x : Holds(e, x) => (\A i \in DOMAIN t : x < t[i].id) /\ \A y \in h : y < x
  BY DEF StreamOK
<1>2. Framed(e, M, ~Live(o2))
  BY <1>1 DEF Framed
<1>. QED  BY <1>1, <1>2

-----------------------------------------------------------------------------
(***************************************************************************)
(* Steps that neither write nor read.                                      *)
(***************************************************************************)

\* The connections a are those of b, or some of them.
Within(a, b) ==
    /\ DOMAIN a \subseteq DOMAIN b
    /\ \A c \in DOMAIN a : b[c].from = a[c].from /\ b[c].to = a[c].to

\* Nothing is written or read; an end that is still live is as it was, or was cut.
Quiet(a, b) ==
    /\ Within(a, b) /\ DOMAIN b = DOMAIN a
    /\ \A c \in DOMAIN a : \A n \in Two(a[c]) :
          /\ b[c].end[n].status = "BACKLOG" => a[c].end[n].status = "BACKLOG"
          /\ Live(b[c].end[n]) =>
                /\ Live(a[c].end[n])
                /\ b[c].end[n].need = a[c].end[n].need
                /\ b[c].end[n].packet = a[c].end[n].packet
                /\ \/ b[c].end[n].unread = a[c].end[n].unread
                   \/ b[c].end[n].unread = <<>> /\ ~Live(b[c].end[Other(a[c], n)])

\* A stream that was cut: what was lacking will not come (Close).
LEMMA CutFramed ==
    ASSUME NEW e \in End, NEW f, NEW M, NEW cut \in BOOLEAN, Framed(e, M, cut),
           f.need = e.need, f.packet = e.packet, f.unread = <<>>
    PROVE  Framed(f, M, TRUE) /\ \A x : Holds(f, x) => Holds(e, x)
<1>1. Len(f.unread) = 0 /\ 1 .. Len(f.unread) = {}
  OBVIOUS
<1>2. Ordered(f.unread, M)
  BY <1>1 DEF Ordered, Increasing
<1>3. ~(f.need < Len(f.unread))
  BY <1>1 DEF End
<1>4. \A m : Reading(e, m) => Reading(f, m)
  BY <1>1 DEF Reading
<1>5. Framed(f, M, TRUE)
  BY <1>2, <1>3, <1>4 DEF Framed
<1>. QED  BY <1>1, <1>5 DEF Holds

\* A stream that was not touched, or closed, is still in order.
LEMMA QuietStream ==
    ASSUME NEW e \in End, NEW f, NEW o, NEW o2, NEW M, NEW t, NEW h,
           StreamOK(e, o, M, t, h), Live(o2) => Live(o),
           Live(f) => /\ Live(e) /\ f.need = e.need /\ f.packet = e.packet
                      /\ f.unread = e.unread \/ (f.unread = <<>> /\ ~Live(o2))
    PROVE  StreamOK(f, o2, M, t, h)
<1>. SUFFICES ASSUME Live(f)
              PROVE  /\ Framed(f, M, ~Live(o2))
                     /\ \A x : Holds(f, x) => Holds(e, x)
  BY DEF StreamOK
<1>1. Framed(e, M, ~Live(o))
  BY DEF StreamOK
<1>2. CASE f.unread = e.unread
  <2>1. \A m : Reading(e, m) => Reading(f, m)
    BY <1>2 DEF Reading
  <2>2. Framed(f, M, ~Live(o2))
    BY <1>1, <1>2, <2>1 DEF Framed
  <2>. QED  BY <1>2, <2>2 DEF Holds
<1>3. CASE f.unread = <<>> /\ ~Live(o2)
  <2>1. (~Live(o)) \in BOOLEAN /\ (~Live(o2)) = TRUE
    BY <1>3 DEF Live
  <2>2. Framed(f, M, TRUE) /\ \A x : Holds(f, x) => Holds(e, x)
    BY <1>1, <1>3, <2>1, CutFramed
  <2>. QED  BY <2>1, <2>2
<1>. QED  BY <1>2, <1>3

\* Nothing is read or written: the streams stay in order.
LEMMA QuietKeeps ==
    ASSUME NEW a \in Seq(Conns), NEW b, NEW M, NEW todo, NEW gt,
           StreamsIn(a, M, todo, gt), Quiet(a, b)
    PROVE  StreamsIn(b, M, todo, gt)
<1>. SUFFICES ASSUME NEW c \in DOMAIN b, NEW n \in Two(b[c]), NEW p, p = Other(b[c], n)
              PROVE  StreamOK(b[c].end[n], b[c].end[p], SentBy(M, p, n), todo[p], Heard(gt[n], c))
  BY DEF StreamsIn
<1>1. c \in DOMAIN a /\ n \in Two(a[c]) /\ p = Other(a[c], n)
  BY DEF Quiet, Within, Two, Other
<1>2. p \in Two(a[c]) /\ Other(a[c], p) = n /\ a[c].end[n] \in End
  BY <1>1, OtherOf
<1>3. StreamOK(a[c].end[n], a[c].end[p], SentBy(M, p, n), todo[p], Heard(gt[n], c))
  BY <1>1 DEF StreamsIn
<1>4. Live(b[c].end[p]) => Live(a[c].end[p])
  BY <1>1, <1>2 DEF Quiet
<1>5. Live(b[c].end[n]) =>
            /\ Live(a[c].end[n])
            /\ b[c].end[n].need = a[c].end[n].need
            /\ b[c].end[n].packet = a[c].end[n].packet
            /\ \/ b[c].end[n].unread = a[c].end[n].unread
               \/ b[c].end[n].unread = <<>> /\ ~Live(b[c].end[p])
  BY <1>1 DEF Quiet
<1>. QED  BY <1>2, <1>3, <1>4, <1>5, QuietStream

\* What was given stays as it was given.
LEMMA GivenKept ==
    ASSUME NEW a, NEW b, NEW M, NEW t, NEW t2, NEW gt,
           GivenIn(a, M, t, gt), Within(a, b),
           \A n \in Node : \A i \in DOMAIN t2[n] : \E j \in DOMAIN t[n] : t2[n][i] = t[n][j],
           \A m \in M : m.from \in Node
    PROVE  GivenIn(b, M, t2, gt)
<1>1. ASSUME NEW n \in Node, NEW i \in DOMAIN gt[n], NEW c, c = gt[n][i].via
      PROVE  /\ c \in DOMAIN b /\ n \in Two(b[c])
             /\ \E m \in SentBy(M, Other(b[c], n), n) :
                   /\ gt[n][i].packet = Whole(m)
                   /\ \A j \in DOMAIN t2[m.from] : m.id < t2[m.from][j].id
  <2>1. /\ c \in DOMAIN a /\ n \in Two(a[c])
        /\ \E m \in SentBy(M, Other(a[c], n), n) :
              /\ gt[n][i].packet = Whole(m)
              /\ \A j \in DOMAIN t[m.from] : m.id < t[m.from][j].id
    BY <1>1 DEF GivenIn
  <2>2. PICK m \in SentBy(M, Other(a[c], n), n) :
              /\ gt[n][i].packet = Whole(m)
              /\ \A j \in DOMAIN t[m.from] : m.id < t[m.from][j].id
    BY <2>1
  <2>3. c \in DOMAIN b /\ Two(b[c]) = Two(a[c]) /\ Other(b[c], n) = Other(a[c], n)
    BY <2>1 DEF Within, Two, Other
  <2>4. m.from \in Node
    BY DEF SentBy
  <2>5. \A j \in DOMAIN t2[m.from] : m.id < t2[m.from][j].id
    BY <2>2, <2>4
  <2>. QED  BY <2>1, <2>2, <2>3, <2>5
<1>2. \A n \in Node : \A i, j \in DOMAIN gt[n] :
          i < j /\ gt[n][i].via = gt[n][j].via =>
              Head(gt[n][i].packet).of < Head(gt[n][j].packet).of
  BY DEF GivenIn
<1>. QED  BY <1>1, <1>2 DEF GivenIn

\* A message that was given begins with a piece of it.
LEMMA HeadOf ==
    ASSUME NEW m \in Message
    PROVE  Whole(m) # <<>> /\ Head(Whole(m)).of = m.id
<1>1. /\ Whole(m) \in Seq(Cell) /\ Len(Whole(m)) = m.size /\ Whole(m) # <<>>
  BY BytesOf
<1>2. m.size \in Nat \ {0}
  BY DEF Message
<1>3. Head(Whole(m)) = Whole(m)[1]
  BY <1>1
<1>4. Whole(m)[1] = Piece(m)
  BY <1>2 DEF Whole
<1>. QED  BY <1>1, <1>3, <1>4 DEF Piece

\* What was heard over a connection is older than what its sender has still to send.
LEMMA HeardBefore ==
    ASSUME NEW cs, NEW M \in SUBSET Message, NEW t, NEW gt, NEW n \in Node, NEW c, NEW p,
           GivenIn(cs, M, t, gt), p = Other(cs[c], n), NEW y \in Heard(gt[n], c)
    PROVE  \A j \in DOMAIN t[p] : y < t[p][j].id
<1>1. PICK i \in DOMAIN gt[n] : gt[n][i].via = c /\ y = Head(gt[n][i].packet).of
  BY DEF Heard
<1>2. PICK m \in SentBy(M, p, n) :
          /\ gt[n][i].packet = Whole(m)
          /\ \A j \in DOMAIN t[m.from] : m.id < t[m.from][j].id
  BY <1>1 DEF GivenIn
<1>3. m \in Message /\ m.from = p
  BY DEF SentBy
<1>4. Head(Whole(m)).of = m.id
  BY <1>3, HeadOf
<1>. QED  BY <1>1, <1>2, <1>3, <1>4

-----------------------------------------------------------------------------
(***************************************************************************)
(* Writing and reading.                                                    *)
(***************************************************************************)

\* The message m is written on c for to, unless to closed its end.
Written(a, b, c, to, m) ==
    /\ b \in Seq(Conns) /\ DOMAIN b = DOMAIN a
    /\ \A d \in DOMAIN a :
          /\ b[d].from = a[d].from /\ b[d].to = a[d].to
          /\ \A k \in Two(a[d]) :
                /\ b[d].end[k].status = a[d].end[k].status
                /\ b[d].end[k].open = a[d].end[k].open
                /\ b[d].end[k].need = a[d].end[k].need
                /\ b[d].end[k].packet = a[d].end[k].packet
                /\ \/ b[d].end[k].unread = a[d].end[k].unread
                   \/ /\ d = c /\ k = to
                      /\ b[d].end[k].unread = a[d].end[k].unread \o Bytes(m)
    /\ a[c].end[to].open => b[c].end[to].unread = a[c].end[to].unread \o Bytes(m)

\* What WriteBlock changes: the stream of the other end, if that is open.
LEMMA WriteIs ==
    ASSUME NEW a \in Seq(Conns), NEW c \in DOMAIN a, NEW to \in Two(a[c]), NEW m \in Message
    PROVE  Written(a, Write(a, c, to, m), c, to, m)
<1>1. CASE ~a[c].end[to].open
  <2>1. Write(a, c, to, m) = a
    BY <1>1 DEF Write
  <2>. QED  BY <1>1, <2>1 DEF Written
<1>2. CASE a[c].end[to].open
  <2>. DEFINE e == a[c].end[to]  f == [e EXCEPT !.unread = e.unread \o Bytes(m)]
  <2>1. e \in End
    BY OtherOf
  <2>2. PICK u \in Seq(Cell) : u = e.unread \o Bytes(m)
    <3>1. Bytes(m) \in Seq(Cell)
      BY BytesOf
    <3>2. e.unread \in Seq(Cell)
      BY <2>1 DEF End
    <3>. HIDE DEF e
    <3>. QED  BY <3>1, <3>2, ConcatProperties
  <2>3. f = [e EXCEPT !.unread = u]
    BY <2>2
  <2>4. /\ f \in End /\ f.unread = u
        /\ f.status = e.status /\ f.open = e.open /\ f.need = e.need /\ f.packet = e.packet
    BY <2>1, <2>3 DEF End
  <2>5. Write(a, c, to, m) = [a EXCEPT ![c].end[to] = f]
    <3>1. Write(a, c, to, m) = [a EXCEPT ![c].end[to].unread = @ \o Bytes(m)]
      BY <1>2 DEF Write
    <3>. QED  BY <3>1
  <2>. HIDE DEF f
  <2>6. Differs(a, Write(a, c, to, m), c, to, f)
    <3>1. f \in End /\ to \in {a[c].from, a[c].to}
      BY <2>4 DEF Two
    <3>2. Differs(a, [a EXCEPT ![c].end[to] = f], c, to, f)
      BY <3>1, EndSet
    <3>. QED  BY <3>2, <2>5
  <2>7. PICK b : b = Write(a, c, to, m)
    OBVIOUS
  <2>8. /\ b \in Seq(Conns) /\ DOMAIN b = DOMAIN a
        /\ \A d \in DOMAIN a :
              /\ b[d].from = a[d].from /\ b[d].to = a[d].to
              /\ \A k \in Two(a[d]) : b[d].end[k] = IF d = c /\ k = to THEN f ELSE a[d].end[k]
    BY <2>6, <2>7 DEF Differs, Two
  <2>9. b[c].end[to] = f /\ f.unread = a[c].end[to].unread \o Bytes(m)
    BY <2>2, <2>4, <2>8
  <2>10. ASSUME NEW d \in DOMAIN a, NEW k \in Two(a[d])
         PROVE  /\ b[d].end[k].status = a[d].end[k].status
                /\ b[d].end[k].open = a[d].end[k].open
                /\ b[d].end[k].need = a[d].end[k].need
                /\ b[d].end[k].packet = a[d].end[k].packet
                /\ \/ b[d].end[k].unread = a[d].end[k].unread
                   \/ /\ d = c /\ k = to
                      /\ b[d].end[k].unread = a[d].end[k].unread \o Bytes(m)
    <3>1. CASE d = c /\ k = to
      BY <3>1, <2>4, <2>9
    <3>2. CASE ~(d = c /\ k = to)
      BY <3>2, <2>8
    <3>. QED  BY <3>1, <3>2, SMT
  <2>11. b[c].end[to].unread = a[c].end[to].unread \o Bytes(m)
    BY <2>9
  <2>12. Written(a, b, c, to, m)
    BY <2>8, <2>10, <2>11 DEF Written
  <2>. QED  BY <2>7, <2>12
<1>. QED  BY <1>1, <1>2

\* What is written behind a stream is in it, and what was there stays.
LEMMA HoldsMore ==
    ASSUME NEW e \in End, NEW f, NEW m \in Message,
           f.unread = e.unread \o Bytes(m), f.packet = e.packet
    PROVE  Holds(f, m.id) /\ \A x : Holds(e, x) => Holds(f, x)
<1>1. PICK b \in Seq(Cell) : /\ b = Bytes(m) /\ Len(b) = m.size + 1
                             /\ b[1] = [length |-> m.size, of |-> m.id]
  BY BytesOf
<1>2. m.size \in Nat
  BY DEF Message
<1>3. PICK s \in Seq(Cell) : s = e.unread
  BY DEF End
<1>4. /\ Len(s \o b) = Len(s) + Len(b)
      /\ \A i \in 1 .. Len(s) + Len(b) : (s \o b)[i] = IF i <= Len(s) THEN s[i] ELSE b[i - Len(s)]
  BY ConcatProperties
<1>5. PICK t : t = s \o b
  OBVIOUS
<1>6. f.unread = t
  BY <1>1, <1>3, <1>5
<1>7. Len(s) + 1 \in 1 .. Len(t) /\ t[Len(s) + 1].of = m.id
  <2>1. Len(s) + 1 \in 1 .. Len(s) + Len(b) /\ ~(Len(s) + 1 <= Len(s)) /\ (Len(s) + 1) - Len(s) = 1
    BY <1>1, <1>2
  <2>2. t[Len(s) + 1] = b[1]
    BY <2>1, <1>4, <1>5
  <2>. QED  BY <2>1, <2>2, <1>1, <1>4, <1>5
<1>8. \A i \in 1 .. Len(s) : i \in 1 .. Len(t) /\ t[i] = s[i]
  <2>1. \A i \in 1 .. Len(s) : i \in 1 .. Len(s) + Len(b) /\ i <= Len(s)
    BY <1>1, <1>2
  <2>. QED  BY <2>1, <1>4, <1>5
<1>. QED  BY <1>3, <1>6, <1>7, <1>8 DEF Holds

\* The first message of n has gone from what is to be sent.
Sends(t, u, n, m, M) ==
    /\ u \in [Node -> Seq(M)]
    /\ \A k \in Node : \A i \in DOMAIN u[k] : \E j \in DOMAIN t[k] : u[k][i] = t[k][j]
    /\ \E j \in DOMAIN t[n] : t[n][j] = m
    /\ \A i \in DOMAIN u[n] : m.id < u[n][i].id
    /\ \A k \in Node : \A i, j \in DOMAIN u[k] : i < j => u[k][i].id < u[k][j].id
    /\ \A k \in Node : \A i \in DOMAIN t[k] :
          \/ k = n /\ t[k][i] = m
          \/ \E j \in DOMAIN u[k] : u[k][j] = t[k][i]

\* The ends of b hold what those of a hold, and m besides.
Carries(a, b, c, to, m) ==
    /\ \A d \in DOMAIN a : \A k \in Two(a[d]) : \A x :
          /\ Holds(a[d].end[k], x) => Holds(b[d].end[k], x)
          /\ Holds(b[d].end[k], x) => Holds(a[d].end[k], x) \/ (d = c /\ k = to)
    /\ a[c].end[to].open => Holds(b[c].end[to], m.id)

\* What is written keeps the streams: the message is the newest for its receiver, and older
\* than what its sender has still to send.
LEMMA WriteKeeps ==
    ASSUME NEW a \in Seq(Conns), NEW M \in SUBSET Message, NEW t, NEW t2, NEW gt,
           NEW c \in DOMAIN a, NEW to \in Two(a[c]), NEW from, from = Other(a[c], to),
           NEW m \in M, m.from = from, m.to = to,
           StreamsIn(a, M, t, gt), GivenIn(a, M, t, gt), Live(a[c].end[from]),
           Sends(t, t2, from, m, M), NEW b, Written(a, b, c, to, m)
    PROVE  StreamsIn(b, M, t2, gt) /\ Within(a, b) /\ Carries(a, b, c, to, m)
<1>0. /\ \A k \in Node : \A i \in DOMAIN t2[k] : \E j \in DOMAIN t[k] : t2[k][i] = t[k][j]
      /\ \E j \in DOMAIN t[from] : t[from][j] = m
      /\ \A i \in DOMAIN t2[from] : m.id < t2[from][i].id
  BY DEF Sends
<1>1. Within(a, b)
  BY DEF Written, Within
<1>2. /\ to \in Node /\ from \in Node /\ from # to /\ from \in Two(a[c]) /\ Other(a[c], from) = to
      /\ a[c].end[to] \in End /\ a[c].end[from] \in End
  BY OtherOf
<1>3. m \in Message
  OBVIOUS
<1>4. ASSUME NEW d \in DOMAIN a, NEW k \in Two(a[d]), NEW p, p = Other(a[d], k)
      PROVE  /\ k \in Node /\ p \in Node /\ p \in Two(a[d])
             /\ a[d].end[k] \in End /\ a[d].end[p] \in End /\ b[d].end[k] \in End
             /\ Live(b[d].end[k]) <=> Live(a[d].end[k])
             /\ Live(b[d].end[p]) <=> Live(a[d].end[p])
             /\ b[d].end[k].need = a[d].end[k].need
             /\ b[d].end[k].packet = a[d].end[k].packet
             /\ \/ b[d].end[k].unread = a[d].end[k].unread
                \/ /\ d = c /\ k = to
                   /\ b[d].end[k].unread = a[d].end[k].unread \o Bytes(m)
  <2>1. /\ k \in Node /\ p \in Node /\ p \in Two(a[d])
        /\ a[d].end[k] \in End /\ a[d].end[p] \in End
    BY <1>4, OtherOf
  <2>2. b \in Seq(Conns) /\ d \in DOMAIN b /\ k \in Two(b[d])
    BY DEF Written, Two
  <2>3. b[d].end[k] \in End
    BY <2>2, OtherOf
  <2>. QED  BY <2>1, <2>3 DEF Written, Live
<1>5. ASSUME NEW d \in DOMAIN a, NEW k \in Two(a[d]), NEW x
      PROVE  /\ Holds(a[d].end[k], x) => Holds(b[d].end[k], x)
             /\ Holds(b[d].end[k], x) => Holds(a[d].end[k], x) \/ (d = c /\ k = to)
  <2>1. PICK p : p = Other(a[d], k)
    OBVIOUS
  <2>2. CASE b[d].end[k].unread = a[d].end[k].unread
    BY <2>1, <2>2, <1>4 DEF Holds
  <2>3. CASE d = c /\ k = to /\ b[d].end[k].unread = a[d].end[k].unread \o Bytes(m)
    <3>1. PICK e, f : e = a[d].end[k] /\ f = b[d].end[k]
      OBVIOUS
    <3>2. e \in End /\ f.packet = e.packet /\ f.unread = e.unread \o Bytes(m)
      BY <2>1, <2>3, <3>1, <1>4
    <3>3. Holds(f, m.id) /\ \A y : Holds(e, y) => Holds(f, y)
      BY <3>2, <1>3, HoldsMore
    <3>. QED  BY <3>1, <3>3, <2>3
  <2>. QED  BY <2>1, <2>2, <2>3, <1>4
<1>6. ASSUME a[c].end[to].open
      PROVE  Holds(b[c].end[to], m.id)
  <2>1. PICK e, f : e = a[c].end[to] /\ f = b[c].end[to]
    OBVIOUS
  <2>2. e \in End /\ f.packet = e.packet /\ f.unread = e.unread \o Bytes(m)
    BY <2>1, <1>2, <1>6 DEF Written
  <2>3. Holds(f, m.id) /\ \A y : Holds(e, y) => Holds(f, y)
    BY <2>2, <1>3, HoldsMore
  <2>. QED  BY <2>1, <2>3
<1>7. StreamsIn(b, M, t2, gt)
  <2>. SUFFICES ASSUME NEW d \in DOMAIN b, NEW k \in Two(b[d]), NEW p, p = Other(b[d], k)
                PROVE  StreamOK(b[d].end[k], b[d].end[p], SentBy(M, p, k), t2[p], Heard(gt[k], d))
    BY DEF StreamsIn
  <2>1. d \in DOMAIN a /\ k \in Two(a[d]) /\ p = Other(a[d], k)
    BY DEF Written, Two, Other
  <2>. DEFINE e == a[d].end[k]  o == a[d].end[p]  f == b[d].end[k]  o2 == b[d].end[p]
              S == SentBy(M, p, k)  h == Heard(gt[k], d)
  <2>2. /\ k \in Node /\ p \in Node /\ e \in End /\ o \in End /\ f \in End
        /\ Live(f) <=> Live(e)
        /\ Live(o2) <=> Live(o)
        /\ f.need = e.need
        /\ f.packet = e.packet
        /\ \/ f.unread = e.unread
           \/ d = c /\ k = to /\ f.unread = e.unread \o Bytes(m)
    BY <2>1, <1>4
  <2>3. StreamOK(e, o, S, t[p], h)
    BY <2>1 DEF StreamsIn
  <2>4. \A i \in DOMAIN t2[p] : \E j \in DOMAIN t[p] : t2[p][i] = t[p][j]
    BY <2>2, <1>0
  <2>5. p = Other(a[d], k)
    BY <2>1
  <2>6. \A y \in h : \A j \in DOMAIN t[p] : y < t[p][j].id
    BY <2>2, <2>5, HeardBefore
  <2>7. S \in SUBSET Message /\ (d = c /\ k = to => m \in S /\ p = from)
    BY <2>5 DEF SentBy
  <2>8. d = c /\ k = to => Live(o)
    BY <2>7
  <2>. HIDE DEF e, o, f, o2, S, h
  <2>9. CASE f.unread = e.unread
    <3>1. StreamOK(f, o2, S, t[p], h)
      BY <2>2, <2>3, <2>9, QuietStream
    <3>. QED  BY <3>1, <2>4, StreamKept DEF e, o, f, o2, S, h
  <2>10. CASE d = c /\ k = to /\ f.unread = e.unread \o Bytes(m)
    <3>. SUFFICES ASSUME Live(f)
                  PROVE  /\ Framed(f, S, ~Live(o2))
                         /\ \A x : Holds(f, x) => /\ \A i \in DOMAIN t2[p] : x < t2[p][i].id
                                                  /\ \A y \in h : y < x
      BY DEF StreamOK, e, o, f, o2, S, h
    <3>1. /\ Framed(e, S, ~Live(o))
          /\ \A x : Holds(e, x) => /\ \A i \in DOMAIN t[p] : x < t[p][i].id
                                   /\ \A y \in h : y < x
      BY <2>2, <2>3 DEF StreamOK
    <3>2. PICK j \in DOMAIN t[p] : t[p][j] = m
      BY <2>7, <2>10, <1>0
    <3>3. \A x : Holds(e, x) => x < m.id
      BY <3>1, <3>2
    <3>4. m \in S /\ p = from /\ Live(o) /\ Live(o2)
      BY <2>2, <2>7, <2>8, <2>10
    <3>5. (~Live(o)) = FALSE /\ (~Live(o2)) = FALSE
      BY <3>4 DEF Live
    <3>6. Framed(e, S, FALSE)
      BY <3>1, <3>5
    <3>7. Framed(f, S, FALSE) /\ \A x : Holds(f, x) => x = m.id \/ Holds(e, x)
      BY <3>3, <3>4, <3>6, <2>2, <2>7, <2>10, WrittenFramed
    <3>8. \A y \in h : y < m.id
      BY <2>6, <3>2
    <3>. QED  BY <3>1, <3>4, <3>5, <3>7, <3>8, <2>4, <1>0
  <2>. QED  BY <2>2, <2>9, <2>10
<1>. QED  BY <1>1, <1>5, <1>6, <1>7 DEF Carries

\* What is read keeps the streams.
LEMMA ReadStreams ==
    ASSUME NEW a \in Seq(Conns), NEW M, NEW t, NEW gt, NEW gt2, StreamsIn(a, M, t, gt),
           NEW c \in DOMAIN a, NEW n \in Two(a[c]), NEW r \in End,
           Live(a[c].end[n]), Live(r), Framed(r, SentBy(M, Other(a[c], n), n), FALSE),
           \A x : Holds(r, x) => Holds(a[c].end[n], x),
           \A k \in Node : \A d : k # n \/ d # c => Heard(gt2[k], d) \subseteq Heard(gt[k], d),
           \A x : Holds(r, x) => \A y \in Heard(gt2[n], c) : y < x,
           NEW b, Differs(a, b, c, n, r)
    PROVE  StreamsIn(b, M, t, gt2)
<1>. SUFFICES ASSUME NEW d \in DOMAIN b, NEW k \in Two(b[d]), NEW p, p = Other(b[d], k)
              PROVE  StreamOK(b[d].end[k], b[d].end[p], SentBy(M, p, k), t[p], Heard(gt2[k], d))
  BY DEF StreamsIn
<1>1. d \in DOMAIN a /\ k \in Two(a[d]) /\ p = Other(a[d], k)
  BY DEF Differs, Two, Other
<1>2. k \in Node /\ p \in Two(a[d])
  BY <1>1, OtherOf
<1>3. StreamOK(a[d].end[k], a[d].end[p], SentBy(M, p, k), t[p], Heard(gt[k], d))
  BY <1>1 DEF StreamsIn
<1>4. /\ b[d].end[k] = IF d = c /\ k = n THEN r ELSE a[d].end[k]
      /\ b[d].end[p] = IF d = c /\ p = n THEN r ELSE a[d].end[p]
  BY <1>1, <1>2 DEF Differs, Two
<1>5. Live(b[d].end[p]) => Live(a[d].end[p])
  BY <1>4
<1>6. CASE d = c /\ k = n
  <2>1. /\ Live(a[d].end[k]) /\ b[d].end[k] = r
        /\ Framed(r, SentBy(M, p, k), FALSE)
    BY <1>1, <1>4, <1>6
  <2>2. Framed(r, SentBy(M, p, k), ~Live(b[d].end[p]))
    BY <2>1 DEF Framed
  <2>3. \A x : Holds(r, x) => \A i \in DOMAIN t[p] : x < t[p][i].id
    BY <2>1, <1>3, <1>6 DEF StreamOK
  <2>. QED  BY <2>1, <2>2, <2>3, <1>6 DEF StreamOK
<1>7. CASE ~(d = c /\ k = n)
  <2>1. b[d].end[k] = a[d].end[k] /\ Heard(gt2[k], d) \subseteq Heard(gt[k], d)
    BY <1>2, <1>4, <1>7
  <2>2. \A i \in DOMAIN t[p] : \E j \in DOMAIN t[p] : t[p][i] = t[p][j]
    OBVIOUS
  <2>. QED  BY <2>1, <2>2, <1>3, <1>5, StreamKept
<1>. QED  BY <1>6, <1>7

\* n is given w, which came over c.
GivesOne(g, h, n, c, w) ==
    /\ h \in [Node -> Seq(Gift)]
    /\ \A k \in Node \ {n} : h[k] = g[k]
    /\ DOMAIN g[n] = 1 .. Len(g[n]) /\ DOMAIN h[n] = 1 .. Len(g[n]) + 1
    /\ Len(g[n]) \in Nat
    /\ \A i \in 1 .. Len(g[n]) : h[n][i] = g[n][i]
    /\ h[n][Len(g[n]) + 1].via = c /\ h[n][Len(g[n]) + 1].packet = w

\* What GetNextMessage gives comes behind what was given.
LEMMA GiveOne ==
    ASSUME NEW g \in [Node -> Seq(Gift)], NEW n \in Node, NEW c \in Nat, NEW w \in Seq(Cell)
    PROVE  GivesOne(g, [g EXCEPT ![n] = Append(@, [via |-> c, packet |-> w])], n, c, w)
<1>1. PICK v \in Gift : v = [via |-> c, packet |-> w]
  BY DEF Gift
<1>2. v.via = c /\ v.packet = w
  BY <1>1
<1>3. PICK s \in Seq(Gift) : s = g[n]
  OBVIOUS
<1>4. /\ Append(s, v) \in Seq(Gift) /\ Len(Append(s, v)) = Len(s) + 1 /\ Len(s) \in Nat
      /\ \A i \in 1 .. Len(s) : Append(s, v)[i] = s[i]
      /\ Append(s, v)[Len(s) + 1] = v
  BY AppendProperties
<1>5. PICK u \in Seq(Gift) : u = Append(s, v)
  BY <1>4
<1>6. DOMAIN s = 1 .. Len(s) /\ DOMAIN u = 1 .. Len(s) + 1
  BY <1>4, <1>5
<1>7. [g EXCEPT ![n] = Append(@, [via |-> c, packet |-> w])] = [g EXCEPT ![n] = u]
  BY <1>1, <1>3, <1>5
<1>8. PICK h : h = [g EXCEPT ![n] = u]
  OBVIOUS
<1>9. h \in [Node -> Seq(Gift)] /\ h[n] = u /\ \A k \in Node \ {n} : h[k] = g[k]
  BY <1>8
<1>10. GivesOne(g, h, n, c, w)
  BY <1>2, <1>3, <1>4, <1>5, <1>6, <1>9 DEF GivesOne
<1>. QED  BY <1>7, <1>8, <1>10

\* A message that was read is given whole, after those that came over this connection before.
LEMMA GiveKeeps ==
    ASSUME NEW a \in Seq(Conns), NEW M \in SUBSET Message, NEW t, NEW gt,
           StreamsIn(a, M, t, gt), GivenIn(a, M, t, gt),
           NEW c \in DOMAIN a, NEW n \in Two(a[c]), NEW r \in End,
           Live(a[c].end[n]), Live(r), Framed(r, SentBy(M, Other(a[c], n), n), FALSE),
           NEW m \in SentBy(M, Other(a[c], n), n),
           \A x : Holds(a[c].end[n], x) <=> x = m.id \/ Holds(r, x),
           \A x : Holds(r, x) => m.id < x,
           NEW gt2, GivesOne(gt, gt2, n, c, Whole(m)),
           NEW b, Differs(a, b, c, n, r)
    PROVE  StreamsIn(b, M, t, gt2) /\ GivenIn(b, M, t, gt2)
<1>. DEFINE L == Len(gt[n])  p == Other(a[c], n)
<1>1. n \in Node /\ p \in Node /\ m \in Message /\ m.from = p /\ m.to = n /\ m \in M
  BY OtherOf DEF SentBy
<1>2. /\ \A k \in Node \ {n} : gt2[k] = gt[k]
      /\ DOMAIN gt[n] = 1 .. L /\ DOMAIN gt2[n] = 1 .. L + 1 /\ L \in Nat
      /\ \A i \in 1 .. L : gt2[n][i] = gt[n][i]
      /\ gt2[n][L + 1].via = c /\ gt2[n][L + 1].packet = Whole(m)
  BY DEF GivesOne
<1>3. Head(Whole(m)).of = m.id
  BY <1>1, HeadOf
<1>4. StreamOK(a[c].end[n], a[c].end[p], SentBy(M, p, n), t[p], Heard(gt[n], c))
  BY DEF StreamsIn
<1>5. /\ \A j \in DOMAIN t[p] : m.id < t[p][j].id
      /\ \A y \in Heard(gt[n], c) : y < m.id
  BY <1>4 DEF StreamOK
<1>6. \A x : Holds(r, x) => \A y \in Heard(gt[n], c) : y < x
  BY <1>4 DEF StreamOK
<1>. HIDE DEF L, p
<1>7. \A d : /\ Heard(gt2[n], d) \subseteq Heard(gt[n], d) \cup {m.id}
             /\ d # c => Heard(gt2[n], d) \subseteq Heard(gt[n], d)
  <2>1. ASSUME NEW d, NEW i \in DOMAIN gt2[n], gt2[n][i].via = d
        PROVE  \/ Head(gt2[n][i].packet).of \in Heard(gt[n], d)
               \/ d = c /\ Head(gt2[n][i].packet).of = m.id
    <3>1. CASE i \in 1 .. L
      <4>1. gt2[n][i] = gt[n][i] /\ i \in DOMAIN gt[n]
        BY <3>1, <1>2
      <4>. QED  BY <4>1, <2>1 DEF Heard
    <3>2. CASE i = L + 1
      BY <3>2, <2>1, <1>2, <1>3
    <3>. QED  BY <3>1, <3>2, <1>2
  <2>2. ASSUME NEW d, NEW x \in Heard(gt2[n], d)
        PROVE  x \in Heard(gt[n], d) \/ (d = c /\ x = m.id)
    <3>1. PICK i \in DOMAIN gt2[n] : gt2[n][i].via = d /\ x = Head(gt2[n][i].packet).of
      BY DEF Heard
    <3>. QED  BY <3>1, <2>1
  <2>. QED  BY <2>2
<1>8. \A k \in Node : \A d : k # n \/ d # c => Heard(gt2[k], d) \subseteq Heard(gt[k], d)
  BY <1>2, <1>7
<1>9. \A x : Holds(r, x) => \A y \in Heard(gt2[n], c) : y < x
  BY <1>6, <1>7
<1>10. StreamsIn(b, M, t, gt2)
  BY <1>8, <1>9, ReadStreams
<1>11. \A d \in DOMAIN a : /\ d \in DOMAIN b /\ Two(b[d]) = Two(a[d])
                           /\ \A k : Other(b[d], k) = Other(a[d], k)
  BY DEF Differs, Two, Other
<1>12. ASSUME NEW k \in Node, NEW i \in DOMAIN gt2[k], NEW d, d = gt2[k][i].via
       PROVE  /\ d \in DOMAIN b /\ k \in Two(b[d])
              /\ \E o \in SentBy(M, Other(b[d], k), k) :
                    /\ gt2[k][i].packet = Whole(o)
                    /\ \A j \in DOMAIN t[o.from] : o.id < t[o.from][j].id
  <2>1. CASE i \in DOMAIN gt[k] /\ gt2[k][i] = gt[k][i]
    <3>1. /\ d \in DOMAIN a /\ k \in Two(a[d])
          /\ \E o \in SentBy(M, Other(a[d], k), k) :
                /\ gt[k][i].packet = Whole(o)
                /\ \A j \in DOMAIN t[o.from] : o.id < t[o.from][j].id
      BY <2>1, <1>12 DEF GivenIn
    <3>. QED  BY <3>1, <2>1, <1>11
  <2>2. CASE k = n /\ i = L + 1
    <3>1. d = c /\ gt2[k][i].packet = Whole(m)
      BY <2>2, <1>2, <1>12
    <3>2. Two(b[d]) = Two(a[d]) /\ Other(b[d], k) = p /\ d \in DOMAIN b
      BY <3>1, <2>2, <1>11 DEF p
    <3>3. m \in SentBy(M, p, n)
      BY DEF p
    <3>. QED  BY <3>1, <3>2, <3>3, <2>2, <1>1, <1>5
  <2>3. k # n \/ i \in 1 .. L \/ i = L + 1
    BY <1>2
  <2>. QED  BY <2>1, <2>2, <2>3, <1>2
<1>13. ASSUME NEW k \in Node, NEW i \in DOMAIN gt2[k], NEW j \in DOMAIN gt2[k],
              i < j, gt2[k][i].via = gt2[k][j].via
       PROVE  Head(gt2[k][i].packet).of < Head(gt2[k][j].packet).of
  <2>1. CASE i \in DOMAIN gt[k] /\ j \in DOMAIN gt[k] /\ gt2[k][i] = gt[k][i] /\ gt2[k][j] = gt[k][j]
    BY <2>1, <1>13 DEF GivenIn
  <2>2. CASE k = n /\ i \in 1 .. L /\ j = L + 1
    <3>1. gt[n][i].via = c /\ gt2[n][i] = gt[n][i] /\ i \in DOMAIN gt[n]
      BY <2>2, <1>2, <1>13
    <3>2. Head(gt[n][i].packet).of \in Heard(gt[n], c)
      BY <3>1 DEF Heard
    <3>. QED  BY <3>1, <3>2, <2>2, <1>2, <1>3, <1>5
  <2>3. k # n \/ (i \in 1 .. L /\ j \in 1 .. L) \/ (i \in 1 .. L /\ j = L + 1)
    BY <1>2, <1>13
  <2>. QED  BY <2>1, <2>2, <2>3, <1>2
<1>14. GivenIn(b, M, t, gt2)
  BY <1>12, <1>13 DEF GivenIn
<1>. QED  BY <1>10, <1>14

-----------------------------------------------------------------------------
(***************************************************************************)
(* Connections that are accepted, closed and forgotten.                    *)
(***************************************************************************)

\* The ends of a new connection are empty.
LEMMA NewEndIs ==
    ASSUME NEW s \in Status
    PROVE  /\ NewEnd(s) \in End /\ NewEnd(s).status = s /\ NewEnd(s).open
           /\ NewEnd(s).unread = <<>> /\ NewEnd(s).need = 0 /\ NewEnd(s).packet = <<>>
<1>1. PICK none \in Seq(Cell) : none = <<>>
  BY EmptySeq
<1>2. PICK yes \in BOOLEAN, zero \in Nat : yes = TRUE /\ zero = 0
  OBVIOUS
<1>3. NewEnd(s) = [status |-> s, open |-> yes, unread |-> none, need |-> zero, packet |-> none]
  BY <1>1, <1>2 DEF NewEnd
<1>4. /\ NewEnd(s) \in End /\ NewEnd(s).status = s /\ NewEnd(s).open = yes
      /\ NewEnd(s).unread = none /\ NewEnd(s).need = zero /\ NewEnd(s).packet = none
  BY <1>3 DEF End
<1>. QED  BY <1>1, <1>2, <1>4

\* Nothing is in a new end.
LEMMA NewEndHolds ==
    ASSUME NEW s \in Status, NEW x
    PROVE  ~Holds(NewEnd(s), x)
<1>1. NewEnd(s).unread = <<>> /\ NewEnd(s).packet = <<>>
  BY NewEndIs
<1>2. 1 .. Len(<<>>) = {}
  OBVIOUS
<1>. QED  BY <1>1, <1>2 DEF Holds

\* The processes b are a, but for the hash and the list of n.
Sets(a, b, n, h, l) ==
    /\ b \in [Node -> Net]
    /\ \A k \in Node : /\ b[k].up = a[k].up
                       /\ b[k].hash = IF k = n THEN h ELSE a[k].hash
                       /\ b[k].list = IF k = n THEN l ELSE a[k].list

\* Changing the hash and the list of one process, in either order.
LEMMA NetSet ==
    ASSUME NEW a \in [Node -> Net], NEW n \in Node, NEW h \in [Node -> Nat \cup {None}],
           NEW l \in SUBSET Nat
    PROVE  /\ Sets(a, [a EXCEPT ![n].list = l, ![n].hash = h], n, h, l)
           /\ Sets(a, [a EXCEPT ![n].hash = h, ![n].list = l], n, h, l)
<1>1. a[n] \in Net
  OBVIOUS
<1>2. PICK y : y = [a[n] EXCEPT !.list = l, !.hash = h]
  OBVIOUS
<1>3. y \in Net /\ y.up = a[n].up /\ y.hash = h /\ y.list = l
  BY <1>1, <1>2 DEF Net
<1>4. PICK b : b = [k \in Node |-> IF k = n THEN y ELSE a[k]]
  OBVIOUS
<1>5. Sets(a, b, n, h, l)
  BY <1>3, <1>4 DEF Sets
<1>6. [a EXCEPT ![n].list = l, ![n].hash = h]
        = [k \in Node |-> IF k = n THEN [a[n] EXCEPT !.list = l, !.hash = h] ELSE a[k]]
  OBVIOUS
<1>7. PICK z : z = [a[n] EXCEPT !.hash = h, !.list = l]
  OBVIOUS
<1>8. z \in Net /\ z.up = a[n].up /\ z.hash = h /\ z.list = l
  BY <1>1, <1>7 DEF Net
<1>9. PICK d : d = [k \in Node |-> IF k = n THEN z ELSE a[k]]
  OBVIOUS
<1>10. Sets(a, d, n, h, l)
  BY <1>8, <1>9 DEF Sets
<1>11. [a EXCEPT ![n].hash = h, ![n].list = l]
          = [k \in Node |-> IF k = n THEN [a[n] EXCEPT !.hash = h, !.list = l] ELSE a[k]]
  OBVIOUS
<1>. QED  BY <1>2, <1>4, <1>5, <1>6, <1>7, <1>9, <1>10, <1>11

\* While connections are only accepted, closed or forgotten.
LEMMA QuietStep ==
    ASSUME TypeOK, Streams, Given, conf \in Scenarios, TCPAssumption,
           conf' = conf, left'.todo = left.todo, got' = got, Quiet(conn, conn')
    PROVE  Streams' /\ Given'
<1>1. StreamsIn(conn', conf.messages, left.todo, got)
  BY QuietKeeps DEF TypeOK, Streams
<1>2. \A m \in conf.messages : m.from \in Node
  BY Scenario DEF Message
<1>3. GivenIn(conn', conf.messages, left.todo, got)
  <2>1. Within(conn, conn')
    BY DEF Quiet
  <2>2. \A n \in Node : \A i \in DOMAIN left.todo[n] : \E j \in DOMAIN left.todo[n] :
            left.todo[n][i] = left.todo[n][j]
    OBVIOUS
  <2>. QED  BY <2>1, <2>2, <1>2, GivenKept DEF Given
<1>. QED  BY <1>1, <1>3 DEF Streams, Given

\* _CleanupConnections forgets connections that are closed.
LEMMA CleanupKeeps ==
    ASSUME TCPAssumption, Inv, NEW n \in Node, CleanupConnections(n)
    PROVE  Inv'
<1>1. TypeOK /\ Known /\ Pending /\ Streams /\ Given /\ Calm
  BY DEF Inv
<1>2. PICK closed : closed = {c \in net[n].list : ~Usable(c, n)}
  OBVIOUS
<1>3. /\ closed # {}
      /\ net' = [net EXCEPT ![n].list = @ \ closed,
                            ![n].hash = [p \in DOMAIN @ |->
                                IF \E c \in closed : Peer(c, n) = p THEN None ELSE @[p]]]
      /\ conf' = conf /\ left' = left /\ conn' = conn /\ got' = got
  BY <1>2 DEF CleanupConnections
<1>4. net \in [Node -> Net] /\ net[n].hash \in [Node -> Nat \cup {None}] /\ net[n].list \in SUBSET Nat
  BY <1>1 DEF TypeOK, Net
<1>5. PICK l, h : /\ l = net[n].list \ closed
                  /\ h = [p \in Node |-> IF \E c \in closed : Peer(c, n) = p THEN None ELSE net[n].hash[p]]
  OBVIOUS
<1>6. /\ l \in SUBSET Nat /\ h \in [Node -> Nat \cup {None}] /\ l \subseteq net[n].list
      /\ \A p \in Node : h[p] = None \/ h[p] = net[n].hash[p]
  BY <1>4, <1>5
<1>7. net' = [net EXCEPT ![n].list = l, ![n].hash = h]
  BY <1>3, <1>4, <1>5
<1>8. /\ net' \in [Node -> Net]
      /\ \A k \in Node : /\ net'[k].up = net[k].up
                         /\ net'[k].hash = IF k = n THEN h ELSE net[k].hash
                         /\ net'[k].list = IF k = n THEN l ELSE net[k].list
  <2>1. Sets(net, net', n, h, l)
    BY <1>4, <1>6, <1>7, NetSet
  <2>. QED  BY <2>1 DEF Sets
<1>9. TypeOK'
  BY <1>1, <1>3, <1>8 DEF TypeOK
<1>10. KnownIn(conn, net')
  <2>1. ASSUME NEW k \in Node, NEW p \in Node, NEW c, c = net'[k].hash[p], c # None
        PROVE  c = net[k].hash[p]
    BY <2>1, <1>6, <1>8
  <2>2. ASSUME NEW k \in Node, NEW c \in net'[k].list
        PROVE  c \in net[k].list
    BY <2>2, <1>6, <1>8
  <2>. QED  BY <2>1, <2>2, <1>1 DEF Known, KnownIn
<1>11. Known' /\ Pending'
  BY <1>1, <1>3, <1>10 DEF Known, Pending
<1>12. Streams' /\ Given'
  BY <1>1, <1>3 DEF Streams, Given
<1>13. Calm'
  <2>. SUFFICES ASSUME left.deaths = conf.deaths
                PROVE  FALSE
    BY <1>3 DEF Calm
  <2>1. StandsIn(conn, net, got)
    BY <1>1 DEF Calm, CalmIn
  <2>2. PICK c \in net[n].list : ~Usable(c, n)
    BY <1>2, <1>3
  <2>3. c \in DOMAIN conn /\ n \in Two(conn[c]) /\ conn[c].end[n].status # "BACKLOG"
    BY <1>1 DEF Known, KnownIn
  <2>4. Live(conn[c].end[n])
    BY <2>1, <2>3 DEF StandsIn
  <2>. QED  BY <2>2, <2>3, <2>4 DEF Live, Usable
<1>. QED  BY <1>9, <1>11, <1>12, <1>13 DEF Inv

\* A process that starts again knows no connections.
LEMMA StartKeeps ==
    ASSUME TCPAssumption, Inv, NEW n \in Node, StartListening(n)
    PROVE  Inv'
<1>1. TypeOK /\ Known /\ Pending /\ Streams /\ Given /\ Calm
  BY DEF Inv
<1>2. /\ ~net[n].up /\ net' = [net EXCEPT ![n] = NewNet]
      /\ conf' = conf /\ left' = left /\ conn' = conn /\ got' = got
  BY DEF StartListening
<1>3. net \in [Node -> Net]
  BY <1>1 DEF TypeOK
<1>4. PICK x : x = NewNet
  OBVIOUS
<1>5. x \in Net /\ x.list = {} /\ \A p \in Node : x.hash[p] = None
  <2>1. PICK yes \in BOOLEAN : yes = TRUE
    OBVIOUS
  <2>2. x = [up |-> yes, hash |-> [p \in Node |-> None], list |-> {}]
    BY <1>4, <2>1 DEF NewNet
  <2>. QED  BY <2>2 DEF Net
<1>6. /\ net' \in [Node -> Net]
      /\ \A k \in Node : net'[k] = IF k = n THEN x ELSE net[k]
  BY <1>2, <1>3, <1>4, <1>5
<1>7. TypeOK'
  BY <1>1, <1>2, <1>6 DEF TypeOK
<1>8. KnownIn(conn, net')
  BY <1>1, <1>5, <1>6 DEF Known, KnownIn
<1>9. Known' /\ Pending'
  BY <1>1, <1>2, <1>8 DEF Known, Pending
<1>10. Streams' /\ Given'
  BY <1>1, <1>2 DEF Streams, Given
<1>11. Calm'
  BY <1>1, <1>2 DEF Calm, CalmIn, StandsIn
<1>. QED  BY <1>7, <1>9, <1>10, <1>11 DEF Inv

\* One end is closed, or accepted, or cut because the other one is closed.
LEMMA QuietEnd ==
    ASSUME NEW a \in Seq(Conns), NEW c \in DOMAIN a, NEW n \in Two(a[c]), NEW r,
           NEW b, Differs(a, b, c, n, r),
           \/ ~Live(r)
           \/ /\ r.status = "BACKLOG" => a[c].end[n].status = "BACKLOG"
              /\ Live(a[c].end[n])
              /\ r.need = a[c].end[n].need /\ r.packet = a[c].end[n].packet
              /\ r.unread = a[c].end[n].unread
           \/ /\ r.status = a[c].end[n].status /\ r.need = a[c].end[n].need
              /\ r.packet = a[c].end[n].packet /\ r.unread = <<>>
              /\ ~Live(a[c].end[Other(a[c], n)])
    PROVE  Quiet(a, b)
<1>1. Within(a, b) /\ DOMAIN b = DOMAIN a
  BY DEF Differs, Within
<1>2. ASSUME NEW d \in DOMAIN a, NEW k \in Two(a[d])
      PROVE  /\ b[d].end[k].status = "BACKLOG" => a[d].end[k].status = "BACKLOG"
             /\ Live(b[d].end[k]) =>
                   /\ Live(a[d].end[k])
                   /\ b[d].end[k].need = a[d].end[k].need
                   /\ b[d].end[k].packet = a[d].end[k].packet
                   /\ \/ b[d].end[k].unread = a[d].end[k].unread
                      \/ b[d].end[k].unread = <<>> /\ ~Live(b[d].end[Other(a[d], k)])
  <2>1. CASE d = c /\ k = n
    <3>1. b[d].end[k] = r
      BY <2>1 DEF Differs, Two
    <3>2. Other(a[c], n) \in Two(a[c]) /\ Other(a[c], n) # n
      BY OtherOf
    <3>3. b[c].end[Other(a[c], n)] = a[c].end[Other(a[c], n)]
      BY <3>2 DEF Differs, Two
    <3>4. r.status = "BACKLOG" => Live(r)
      BY DEF Live
    <3>. QED  BY <2>1, <3>1, <3>3, <3>4 DEF Live
  <2>2. CASE ~(d = c /\ k = n)
    <3>1. b[d].end[k] = a[d].end[k]
      BY <2>2 DEF Differs, Two
    <3>. QED  BY <3>1
  <2>. QED  BY <2>1, <2>2
<1>. QED  BY <1>1, <1>2 DEF Quiet

\* Two quiet steps are one.
LEMMA QuietTwice ==
    ASSUME NEW a \in Seq(Conns), NEW b, NEW d, Quiet(a, b), Quiet(b, d)
    PROVE  Quiet(a, d)
<1>1. \A c \in DOMAIN a : Two(b[c]) = Two(a[c]) /\ \A n : Other(b[c], n) = Other(a[c], n)
  BY DEF Quiet, Within, Two, Other
<1>2. Within(a, d) /\ DOMAIN d = DOMAIN a /\ DOMAIN b = DOMAIN a
  BY DEF Quiet, Within
<1>3. ASSUME NEW c \in DOMAIN a, NEW n \in Two(a[c]), NEW p, p = Other(a[c], n)
      PROVE  /\ d[c].end[n].status = "BACKLOG" => a[c].end[n].status = "BACKLOG"
             /\ Live(d[c].end[n]) =>
                   /\ Live(a[c].end[n])
                   /\ d[c].end[n].need = a[c].end[n].need
                   /\ d[c].end[n].packet = a[c].end[n].packet
                   /\ \/ d[c].end[n].unread = a[c].end[n].unread
                      \/ d[c].end[n].unread = <<>> /\ ~Live(d[c].end[p])
  <2>1. p \in Two(a[c])
    BY <1>3, OtherOf
  <2>2. n \in Two(b[c]) /\ p \in Two(b[c]) /\ p = Other(b[c], n) /\ c \in DOMAIN b
    BY <2>1, <1>1, <1>2, <1>3
  <2>3. Live(d[c].end[p]) => Live(b[c].end[p])
    BY <2>2 DEF Quiet
  <2>4. /\ d[c].end[n].status = "BACKLOG" => b[c].end[n].status = "BACKLOG"
        /\ Live(d[c].end[n]) =>
              /\ Live(b[c].end[n])
              /\ d[c].end[n].need = b[c].end[n].need
              /\ d[c].end[n].packet = b[c].end[n].packet
              /\ \/ d[c].end[n].unread = b[c].end[n].unread
                 \/ d[c].end[n].unread = <<>> /\ ~Live(d[c].end[p])
    BY <2>2 DEF Quiet
  <2>5. /\ b[c].end[n].status = "BACKLOG" => a[c].end[n].status = "BACKLOG"
        /\ Live(b[c].end[n]) =>
              /\ Live(a[c].end[n])
              /\ b[c].end[n].need = a[c].end[n].need
              /\ b[c].end[n].packet = a[c].end[n].packet
              /\ \/ b[c].end[n].unread = a[c].end[n].unread
                 \/ b[c].end[n].unread = <<>> /\ ~Live(b[c].end[p])
    BY <1>3 DEF Quiet
  <2>. QED  BY <2>3, <2>4, <2>5
<1>. QED  BY <1>2, <1>3 DEF Quiet

\* The processes keep their connections, when none goes back to those not accepted.
LEMMA KnownKept ==
    ASSUME NEW a, NEW b, NEW nt, KnownIn(a, nt), Within(a, b),
           \A c \in DOMAIN a : \A n \in Two(a[c]) :
               a[c].end[n].status # "BACKLOG" => b[c].end[n].status # "BACKLOG"
    PROVE  KnownIn(b, nt)
<1>1. \A c \in DOMAIN a : /\ c \in DOMAIN b /\ Two(b[c]) = Two(a[c])
                          /\ \A n : Other(b[c], n) = Other(a[c], n)
                          /\ \A n \in Two(a[c]) : a[c].end[n].status # "BACKLOG" =>
                                b[c].end[n].status # "BACKLOG"
  BY DEF Within, Two, Other
<1>2. ASSUME NEW n \in Node, NEW p \in Node, NEW c, c = nt[n].hash[p], c # None
      PROVE  /\ c \in DOMAIN b /\ n \in Two(b[c]) /\ Other(b[c], n) = p
             /\ b[c].end[n].status # "BACKLOG"
  <2>1. /\ c \in DOMAIN a /\ n \in Two(a[c]) /\ Other(a[c], n) = p
        /\ a[c].end[n].status # "BACKLOG"
    BY <1>2 DEF KnownIn
  <2>. QED  BY <2>1, <1>1
<1>3. ASSUME NEW n \in Node, NEW c \in nt[n].list
      PROVE  c \in DOMAIN b /\ n \in Two(b[c]) /\ b[c].end[n].status # "BACKLOG"
  <2>1. c \in DOMAIN a /\ n \in Two(a[c]) /\ a[c].end[n].status # "BACKLOG"
    BY DEF KnownIn
  <2>. QED  BY <2>1, <1>1
<1>. QED  BY <1>2, <1>3 DEF KnownIn

\* Connections that are known stay so when nothing is read or written.
LEMMA QuietKnown ==
    ASSUME NEW a, NEW b, NEW nt, KnownIn(a, nt), Quiet(a, b)
    PROVE  KnownIn(b, nt)
<1>1. /\ Within(a, b)
      /\ \A c \in DOMAIN a : \A n \in Two(a[c]) :
             a[c].end[n].status # "BACKLOG" => b[c].end[n].status # "BACKLOG"
  BY DEF Quiet
<1>. QED  BY <1>1, KnownKept

\* Close: the end of n is closed, and what the other one has not read may be lost.
LEMMA CloseIs ==
    ASSUME NEW a \in Seq(Conns), NEW c \in DOMAIN a, NEW n \in Two(a[c]),
           Other(a[c], n) = Peer(c, n), NEW b \in Close(a, c, n)
    PROVE  b \in Seq(Conns) /\ Quiet(a, b)
<1>. DEFINE e == a[c].end[n]  p == Peer(c, n)
            x == [e EXCEPT !.open = FALSE, !.status = "CONN_CLOSED", !.unread = <<>>]
            shut == [a EXCEPT ![c].end[n] = x]
<1>1. e \in End /\ p \in Two(a[c]) /\ p # n /\ Other(a[c], p) = n
  BY OtherOf
<1>2. PICK none \in Seq(Cell), no \in BOOLEAN, closed \in Status :
          none = <<>> /\ no = FALSE /\ closed = "CONN_CLOSED"
  BY EmptySeq DEF Status
<1>3. x \in End /\ x.status = closed
  <2>1. x = [e EXCEPT !.open = no, !.status = closed, !.unread = none]
    BY <1>2
  <2>. HIDE DEF x, e
  <2>. QED  BY <1>1, <2>1 DEF End
<1>4. shut = [a EXCEPT ![c].end[n] = [@ EXCEPT !.open = FALSE, !.status = "CONN_CLOSED",
                                               !.unread = <<>>]]
  OBVIOUS
<1>. HIDE DEF x
<1>5. Differs(a, shut, c, n, x)
  BY <1>3, EndSet DEF Two
<1>6. ~Live(x)
  BY <1>2, <1>3 DEF Live
<1>7. shut \in Seq(Conns) /\ Quiet(a, shut)
  <2>1. Quiet(a, shut)
    BY <1>5, <1>6, QuietEnd
  <2>. QED  BY <2>1, <1>5 DEF Differs
<1>. DEFINE cut == [shut EXCEPT ![c].end[p].unread = <<>>]
<1>8. b = shut \/ b = cut
  BY <1>4 DEF Close
<1>. HIDE DEF shut
<1>9. cut \in Seq(Conns) /\ Quiet(shut, cut)
  <2>1. /\ c \in DOMAIN shut /\ p \in Two(shut[c]) /\ Other(shut[c], p) = n
        /\ ~Live(shut[c].end[n])
    BY <1>1, <1>5, <1>6 DEF Differs, Two, Other
  <2>. DEFINE f == shut[c].end[p]  y == [f EXCEPT !.unread = none]
  <2>2. f \in End
    BY <1>7, <2>1, OtherOf
  <2>3. cut = [shut EXCEPT ![c].end[p] = y]
    BY <1>2
  <2>4. /\ y \in End /\ y.status = f.status /\ y.need = f.need /\ y.packet = f.packet
        /\ y.unread = none
    <3>. HIDE DEF f
    <3>. QED  BY <2>2 DEF End
  <2>. HIDE DEF y, cut
  <2>5. Differs(shut, cut, c, p, y)
    <3>1. p \in {shut[c].from, shut[c].to}
      BY <2>1 DEF Two
    <3>2. Differs(shut, [shut EXCEPT ![c].end[p] = y], c, p, y)
      BY <3>1, <2>1, <2>4, <1>7, EndSet
    <3>. QED  BY <3>2, <2>3
  <2>6. Quiet(shut, cut)
    BY <2>1, <2>4, <2>5, <1>2, <1>7, QuietEnd
  <2>. QED  BY <2>5, <2>6 DEF Differs
<1>10. cut \in Seq(Conns) /\ Quiet(a, cut)
  BY <1>7, <1>9, QuietTwice
<1>. QED  BY <1>7, <1>8, <1>10

\* A read that finds the connection closed closes it.
LEMMA ReadCloseKeeps ==
    ASSUME TCPAssumption, Inv, NEW n \in Node, NEW c \in net[n].list, ReadClose(n, c)
    PROVE  Inv'
<1>1. TypeOK /\ Known /\ Pending /\ Streams /\ Given /\ Calm
  BY DEF Inv
<1>2. conn \in Seq(Conns) /\ conf \in Scenarios
  BY <1>1 DEF TypeOK
<1>3. c \in DOMAIN conn /\ n \in Two(conn[c])
  BY <1>1 DEF Known, KnownIn
<1>4. PICK p, h, e : p = Peer(c, n) /\ h = net[n].hash[p] /\ e = conn[c].end[n]
  OBVIOUS
<1>5. p = Other(conn[c], n) /\ p \in Node /\ p \in Two(conn[c]) /\ e \in End
  BY <1>2, <1>3, <1>4, OtherOf DEF Peer, Other
<1>6. PICK marked : marked = [conn EXCEPT ![c].end[n].status = "CONN_CLOSED", ![c].end[n].packet = <<>>]
  OBVIOUS
<1>7. /\ ~conn[c].end[p].open
      /\ IF h = None THEN conn' = marked ELSE conn' \in Close(marked, h, n)
      /\ conf' = conf /\ left' = left /\ net' = net /\ got' = got
  BY <1>4, <1>6 DEF ReadClose
<1>8. marked \in Seq(Conns) /\ Quiet(conn, marked)
  <2>1. PICK none \in Seq(Cell), closed \in Status : none = <<>> /\ closed = "CONN_CLOSED"
    BY EmptySeq DEF Status
  <2>2. PICK x : x = [e EXCEPT !.status = closed]
    OBVIOUS
  <2>3. x \in End /\ x.status = closed /\ ~Live(x)
    <3>1. x \in End /\ x.status = closed
      BY <1>5, <2>2 DEF End
    <3>. QED  BY <2>1, <3>1 DEF Live
  <2>4. PICK a : a = [conn EXCEPT ![c].end[n] = x]
    OBVIOUS
  <2>5. Differs(conn, a, c, n, x)
    <3>1. n \in {conn[c].from, conn[c].to}
      BY <1>3 DEF Two
    <3>2. Differs(conn, [conn EXCEPT ![c].end[n] = x], c, n, x)
      BY <1>2, <1>3, <2>3, <3>1, EndSet
    <3>. QED  BY <3>2, <2>4
  <2>6. Quiet(conn, a)
    BY <1>2, <1>3, <2>3, <2>5, QuietEnd
  <2>7. /\ a \in Seq(Conns) /\ c \in DOMAIN a /\ n \in Two(a[c]) /\ n \in {a[c].from, a[c].to}
        /\ a[c].end[n] = x
    BY <1>3, <2>5 DEF Differs, Two
  <2>8. PICK y : y = [x EXCEPT !.packet = none]
    OBVIOUS
  <2>9. y \in End /\ y.status = closed /\ ~Live(y)
    <3>1. y \in End /\ y.status = x.status
      BY <2>3, <2>8 DEF End
    <3>. QED  BY <2>1, <2>3, <3>1 DEF Live
  <2>10. marked = [a EXCEPT ![c].end[n] = y]
    <3>1. marked = [[conn EXCEPT ![c].end[n].status = "CONN_CLOSED"] EXCEPT ![c].end[n].packet = <<>>]
      BY <1>6
    <3>2. [conn EXCEPT ![c].end[n].status = "CONN_CLOSED"] = a
      BY <1>4, <2>1, <2>2, <2>4
    <3>3. marked = [a EXCEPT ![c].end[n].packet = <<>>]
      BY <3>1, <3>2
    <3>. QED  BY <3>3, <2>1, <2>7, <2>8
  <2>11. Differs(a, marked, c, n, y)
    <3>1. Differs(a, [a EXCEPT ![c].end[n] = y], c, n, y)
      BY <2>7, <2>9, EndSet
    <3>. QED  BY <3>1, <2>10
  <2>12. Quiet(a, marked)
    BY <2>7, <2>9, <2>11, QuietEnd
  <2>13. Quiet(conn, marked)
    BY <1>2, <2>6, <2>12, QuietTwice
  <2>. QED  BY <2>11, <2>13 DEF Differs
<1>9. conn' \in Seq(Conns) /\ Quiet(conn, conn')
  <2>1. CASE h = None
    BY <2>1, <1>7, <1>8
  <2>2. CASE h # None
    <3>1. h \in DOMAIN conn /\ n \in Two(conn[h])
      BY <2>2, <1>1, <1>4, <1>5 DEF Known, KnownIn
    <3>2. h \in DOMAIN marked /\ n \in Two(marked[h]) /\ Other(marked[h], n) = Peer(h, n)
      BY <3>1, <1>8 DEF Quiet, Within, Two, Other, Peer
    <3>3. conn' \in Seq(Conns) /\ Quiet(marked, conn')
      BY <3>2, <2>2, <1>7, <1>8, CloseIs
    <3>. QED  BY <3>3, <1>2, <1>8, QuietTwice
  <2>. QED  BY <2>1, <2>2
<1>10. Streams' /\ Given'
  BY <1>1, <1>2, <1>7, <1>9, QuietStep
<1>11. TypeOK'
  BY <1>1, <1>7, <1>9 DEF TypeOK
<1>12. KnownIn(conn', net)
  BY <1>1, <1>9, QuietKnown DEF Known
<1>13. Known' /\ Pending'
  BY <1>1, <1>7, <1>12 DEF Known, Pending
<1>14. Calm'
  <2>. SUFFICES ASSUME left.deaths = conf.deaths
                PROVE  FALSE
    BY <1>7 DEF Calm
  <2>1. StandsIn(conn, net, got)
    BY <1>1 DEF Calm, CalmIn
  <2>. QED  BY <2>1, <1>3, <1>5, <1>7 DEF StandsIn
<1>. QED  BY <1>10, <1>11, <1>13, <1>14 DEF Inv

\* A process that dies closes what it has.
LEMMA DieKeeps ==
    ASSUME TCPAssumption, Inv, NEW n \in Node, Die(n)
    PROVE  Inv'
<1>1. TypeOK /\ Known /\ Pending /\ Streams /\ Given /\ Calm
  BY DEF Inv
<1>2. /\ conn \in Seq(Conns) /\ conf \in Scenarios /\ net \in [Node -> Net]
      /\ left \in [todo : [Node -> Seq(conf.messages)], deaths : [Node -> Nat]]
      /\ conf.deaths \in [Node -> Nat]
  BY <1>1, Scenario DEF TypeOK
<1>3. PICK r : r = [NewEnd("DEAD") EXCEPT !.open = FALSE]
  OBVIOUS
<1>4. r \in End /\ ~Live(r) /\ r.status # "BACKLOG"
  <2>1. PICK no \in BOOLEAN, dead \in Status : no = FALSE /\ dead = "DEAD"
    BY DEF Status
  <2>2. PICK z : z = NewEnd(dead)
    OBVIOUS
  <2>3. z \in End /\ z.status = dead
    BY <2>2, NewEndIs
  <2>4. r = [z EXCEPT !.open = no]
    BY <1>3, <2>1, <2>2
  <2>5. r \in End /\ r.status = dead
    BY <2>3, <2>4 DEF End
  <2>. QED  BY <2>1, <2>5 DEF Live
<1>5. /\ left.deaths[n] > 0
      /\ left' = [left EXCEPT !.deaths[n] = @ - 1]
      /\ net' = [net EXCEPT ![n] = [NewNet EXCEPT !.up = FALSE]]
      /\ conn' = [c \in DOMAIN conn |-> IF n \notin Ends(c) \/ ~conn[c].end[n].open THEN conn[c]
                                        ELSE [conn[c] EXCEPT !.end[n] = r]]
      /\ conf' = conf /\ got' = got
  BY <1>3 DEF Die
<1>6. /\ left'.todo = left.todo /\ left'.deaths \in [Node -> Nat]
      /\ left' \in [todo : [Node -> Seq(conf.messages)], deaths : [Node -> Nat]]
      /\ left'.deaths[n] < left.deaths[n]
      /\ \A k \in Node : left'.deaths[k] <= left.deaths[k]
  <2>1. PICK d : d = [left.deaths EXCEPT ![n] = @ - 1]
    OBVIOUS
  <2>2. left.deaths \in [Node -> Nat]
    BY <1>2
  <2>3. /\ d \in [Node -> Nat] /\ d[n] < left.deaths[n]
        /\ \A k \in Node : d[k] <= left.deaths[k]
    BY <1>5, <2>1, <2>2
  <2>4. left' = [left EXCEPT !.deaths = d]
    BY <1>5, <2>1
  <2>5. left'.todo = left.todo /\ left'.deaths = d
        /\ left' \in [todo : [Node -> Seq(conf.messages)], deaths : [Node -> Nat]]
    BY <1>2, <2>3, <2>4
  <2>. QED  BY <2>3, <2>5
<1>7. ASSUME NEW c \in DOMAIN conn
      PROVE  \/ conn'[c] = conn[c]
             \/ n \in Two(conn[c]) /\ Puts(conn[c], conn'[c], n, r)
  <2>1. CASE n \notin Ends(c) \/ ~conn[c].end[n].open
    BY <2>1, <1>5
  <2>2. CASE ~(n \notin Ends(c) \/ ~conn[c].end[n].open)
    <3>1. conn'[c] = [conn[c] EXCEPT !.end[n] = r] /\ n \in {conn[c].from, conn[c].to}
      BY <2>2, <1>5 DEF Ends
    <3>2. PICK x \in Conns : x = conn[c]
      BY <1>2
    <3>3. Puts(x, [x EXCEPT !.end[n] = r], n, r)
      BY <3>1, <3>2, <1>4, EndPut
    <3>. QED  BY <3>1, <3>2, <3>3 DEF Two
  <2>. QED  BY <2>1, <2>2
<1>8. conn' \in Seq(Conns) /\ DOMAIN conn' = DOMAIN conn
  <2>1. \A c \in DOMAIN conn : conn'[c] \in Conns
    BY <1>2, <1>7 DEF Puts
  <2>2. PICK k \in Nat : k = Len(conn) /\ DOMAIN conn = 1 .. k
    BY <1>2
  <2>3. conn' = [c \in 1 .. k |-> conn'[c]]
    BY <1>5, <2>2
  <2>4. conn' \in [1 .. k -> Conns]
    BY <2>1, <2>2, <2>3
  <2>. QED  BY <2>2, <2>4
<1>9. Quiet(conn, conn')
  <2>1. Within(conn, conn')
    BY <1>7, <1>8 DEF Within, Puts
  <2>2. ASSUME NEW c \in DOMAIN conn, NEW m \in Two(conn[c])
        PROVE  /\ conn'[c].end[m].status = "BACKLOG" => conn[c].end[m].status = "BACKLOG"
               /\ Live(conn'[c].end[m]) => conn'[c].end[m] = conn[c].end[m]
    <3>1. conn'[c].end[m] = conn[c].end[m] \/ conn'[c].end[m] = r
      BY <1>7 DEF Puts, Two
    <3>. QED  BY <3>1, <1>4
  <2>. QED  BY <2>1, <2>2, <1>8 DEF Quiet
<1>10. /\ net' \in [Node -> Net]
       /\ \A k \in Node \ {n} : net'[k] = net[k]
       /\ net'[n].list = {} /\ \A p \in Node : net'[n].hash[p] = None
  <2>1. PICK x : x = [NewNet EXCEPT !.up = FALSE]
    OBVIOUS
  <2>2. x \in Net /\ x.list = {} /\ \A p \in Node : x.hash[p] = None
    <3>1. PICK yes \in BOOLEAN, no \in BOOLEAN : yes = TRUE /\ no = FALSE
      OBVIOUS
    <3>2. NewNet = [up |-> yes, hash |-> [p \in Node |-> None], list |-> {}]
      BY <3>1 DEF NewNet
    <3>3. x = [NewNet EXCEPT !.up = no]
      BY <2>1, <3>1
    <3>. QED  BY <3>2, <3>3 DEF Net
  <2>3. net' = [net EXCEPT ![n] = x]
    BY <1>5, <2>1
  <2>. QED  BY <2>2, <2>3, <1>2
<1>11. Streams' /\ Given'
  BY <1>1, <1>2, <1>5, <1>6, <1>9, QuietStep
<1>12. TypeOK'
  BY <1>1, <1>5, <1>6, <1>8, <1>10 DEF TypeOK
<1>13. KnownIn(conn, net')
  <2>1. \A k \in Node \ {n} : net'[k] = net[k]
    BY <1>10
  <2>. QED  BY <2>1, <1>1, <1>10 DEF Known, KnownIn
<1>14. Known'
  <2>1. KnownIn(conn', net')
    BY <1>9, <1>13, QuietKnown
  <2>. QED  BY <2>1 DEF Known
<1>15. Pending'
  <2>1. ASSUME NEW k \in Node
        PROVE  left'.deaths[k] <= conf.deaths[k]
    <3>1. left'.deaths[k] <= left.deaths[k] /\ left.deaths[k] <= conf.deaths[k]
      BY <1>1, <1>6 DEF Pending
    <3>2. left'.deaths[k] \in Nat /\ left.deaths[k] \in Nat /\ conf.deaths[k] \in Nat
      BY <1>2, <1>6
    <3>. QED  BY <3>1, <3>2
  <2>. QED  BY <2>1, <1>1, <1>5, <1>6 DEF Pending
<1>16. left'.deaths # conf.deaths
  <2>1. left'.deaths[n] < left.deaths[n] /\ left.deaths[n] <= conf.deaths[n]
    BY <1>1, <1>6 DEF Pending
  <2>2. left'.deaths[n] \in Nat /\ left.deaths[n] \in Nat /\ conf.deaths[n] \in Nat
    BY <1>2, <1>6
  <2>3. left'.deaths[n] # conf.deaths[n]
    BY <2>1, <2>2
  <2>. QED  BY <2>3
<1>17. Calm'
  BY <1>5, <1>16 DEF Calm
<1>. QED  BY <1>11, <1>12, <1>14, <1>15, <1>17 DEF Inv

\* One connection is accepted: it is read now, and sent on if there was none with that peer.
LEMMA RegisterKeeps ==
    ASSUME TCPAssumption, Inv, NEW n \in Node, RegisterNewTCPConnections(n)
    PROVE  Inv'
<1>1. TypeOK /\ Known /\ Pending /\ Streams /\ Given /\ Calm
  BY DEF Inv
<1>2. /\ conn \in Seq(Conns) /\ conf \in Scenarios /\ net \in [Node -> Net] /\ None \notin Nat
      /\ net[n].hash \in [Node -> Nat \cup {None}] /\ net[n].list \in SUBSET Nat
  BY <1>1 DEF TypeOK, TCPAssumption, Net
<1>. DEFINE backlog == {x \in DOMAIN conn : n \in Ends(x) /\ conn[x].end[n].status = "BACKLOG"}
            c == CHOOSE x \in backlog : \A y \in backlog : x <= y
            p == Peer(c, n)
<1>6. /\ backlog # {}
      /\ conn' = [conn EXCEPT ![c].end[n].status = "CONN_NEWINCOMING"]
      /\ net' = [net EXCEPT ![n].list = @ \cup {c}, ![n].hash[p] = IF @ = None THEN c ELSE @]
      /\ conf' = conf /\ left' = left /\ got' = got
  BY DEF RegisterNewTCPConnections
<1>. HIDE DEF backlog, c, p
<1>7. c \in backlog
  <2>1. backlog \in SUBSET Nat
    BY <1>2 DEF backlog
  <2>2. \E x \in backlog : \A y \in backlog : x <= y
    BY <2>1, <1>6, LeastNumber
  <2>. QED  BY <2>2 DEF c
<1>8. /\ c \in DOMAIN conn /\ n \in Two(conn[c]) /\ n \in {conn[c].from, conn[c].to}
      /\ conn[c].end[n].status = "BACKLOG"
  BY <1>7 DEF backlog, Ends, Two
<1>9. p = Other(conn[c], n) /\ p \in Node /\ conn[c].end[n] \in End /\ c \in Nat
  BY <1>2, <1>8, OtherOf DEF p, Peer, Other
<1>10. PICK e : e = conn[c].end[n]
  OBVIOUS
<1>11. PICK r : r = [e EXCEPT !.status = "CONN_NEWINCOMING"]
  OBVIOUS
<1>12. /\ r \in End /\ r.status = "CONN_NEWINCOMING" /\ Live(r) /\ r.open = e.open
       /\ r.unread = e.unread /\ r.need = e.need /\ r.packet = e.packet
  <2>1. PICK new \in Status : new = "CONN_NEWINCOMING"
    BY DEF Status
  <2>2. r = [e EXCEPT !.status = new]
    BY <1>11, <2>1
  <2>3. /\ r \in End /\ r.status = new /\ r.open = e.open
        /\ r.unread = e.unread /\ r.need = e.need /\ r.packet = e.packet
    BY <1>9, <1>10, <2>2 DEF End
  <2>. QED  BY <2>1, <2>3 DEF Live
<1>13. Differs(conn, conn', c, n, r)
  <2>1. Differs(conn, [conn EXCEPT ![c].end[n] = r], c, n, r)
    BY <1>2, <1>8, <1>12, EndSet
  <2>2. conn' = [conn EXCEPT ![c].end[n] = r]
    BY <1>6, <1>10, <1>11
  <2>. QED  BY <2>1, <2>2
<1>14. Quiet(conn, conn')
  <2>1. r.status # "BACKLOG" /\ Live(e)
    BY <1>8, <1>10, <1>12 DEF Live
  <2>. QED  BY <2>1, <1>2, <1>8, <1>10, <1>12, <1>13, QuietEnd
<1>15. Streams' /\ Given'
  BY <1>1, <1>2, <1>6, <1>14, QuietStep
<1>16. PICK l, h : /\ l = net[n].list \cup {c}
                   /\ h = [net[n].hash EXCEPT ![p] = IF @ = None THEN c ELSE @]
  OBVIOUS
<1>17. /\ l \in SUBSET Nat /\ h \in [Node -> Nat \cup {None}]
       /\ \A q \in Node : h[q] = IF q = p /\ net[n].hash[p] = None THEN c ELSE net[n].hash[q]
  BY <1>2, <1>9, <1>16
<1>18. net' = [net EXCEPT ![n].list = l, ![n].hash = h]
  <2>1. PICK a : a = [net EXCEPT ![n].list = l]
    OBVIOUS
  <2>2. net' = [a EXCEPT ![n].hash[p] = IF @ = None THEN c ELSE @]
    BY <1>6, <1>16, <2>1
  <2>3. a[n].hash = net[n].hash
    BY <1>2, <2>1 DEF Net
  <2>4. net' = [a EXCEPT ![n].hash = h]
    BY <2>2, <2>3, <1>16
  <2>. QED  BY <2>1, <2>4
<1>19. /\ net' \in [Node -> Net]
       /\ \A k \in Node : /\ net'[k].up = net[k].up
                          /\ net'[k].hash = IF k = n THEN h ELSE net[k].hash
                          /\ net'[k].list = IF k = n THEN l ELSE net[k].list
  <2>1. Sets(net, net', n, h, l)
    BY <1>2, <1>17, <1>18, NetSet
  <2>. QED  BY <2>1 DEF Sets
<1>20. /\ \A k, q \in Node : /\ net[k].hash[q] # None => net'[k].hash[q] = net[k].hash[q]
                             /\ \/ net'[k].hash[q] = net[k].hash[q]
                                \/ k = n /\ q = p /\ net'[k].hash[q] = c
       /\ \A k \in Node : /\ net[k].list \subseteq net'[k].list
                          /\ \A d \in net'[k].list : d \in net[k].list \/ (k = n /\ d = c)
       /\ c \in net'[n].list
  BY <1>16, <1>17, <1>19
<1>21. TypeOK'
  BY <1>1, <1>6, <1>13, <1>19 DEF TypeOK, Differs
<1>22. /\ \A d \in DOMAIN conn : /\ d \in DOMAIN conn' /\ Two(conn'[d]) = Two(conn[d])
                                 /\ \A k : Other(conn'[d], k) = Other(conn[d], k)
       /\ DOMAIN conn' = DOMAIN conn
       /\ conn'[c].end[n] = r
       /\ \A d \in DOMAIN conn : \A k \in Two(conn[d]) :
             d # c \/ k # n => conn'[d].end[k] = conn[d].end[k]
  BY <1>8, <1>13 DEF Differs, Two, Other
<1>23. KnownIn(conn, net) /\ KnownIn(conn', net)
  BY <1>1, <1>14, QuietKnown DEF Known
<1>24. KnownIn(conn', net')
  <2>1. c \in DOMAIN conn' /\ n \in Two(conn'[c]) /\ Other(conn'[c], n) = p
        /\ conn'[c].end[n].status # "BACKLOG"
    BY <1>8, <1>9, <1>12, <1>22
  <2>0. \A k, q \in Node : net[k].hash[q] # None =>
            LET d == net[k].hash[q] IN
            /\ d \in DOMAIN conn' /\ k \in Two(conn'[d]) /\ Other(conn'[d], k) = q
            /\ conn'[d].end[k].status # "BACKLOG"
    BY <1>23 DEF KnownIn
  <2>2. ASSUME NEW k \in Node, NEW q \in Node, NEW d, d = net'[k].hash[q], d # None
        PROVE  /\ d \in DOMAIN conn' /\ k \in Two(conn'[d]) /\ Other(conn'[d], k) = q
               /\ conn'[d].end[k].status # "BACKLOG"
    <3>1. CASE d = net[k].hash[q]
      <4>1. net[k].hash[q] # None
        BY <3>1, <2>2
      <4>2. LET x == net[k].hash[q] IN
            /\ x \in DOMAIN conn' /\ k \in Two(conn'[x]) /\ Other(conn'[x], k) = q
            /\ conn'[x].end[k].status # "BACKLOG"
        BY <4>1, <2>0, Zenon
      <4>. QED  BY <4>2, <3>1, Zenon
    <3>2. CASE k = n /\ q = p /\ d = c
      BY <3>2, <2>1
    <3>. QED  BY <3>1, <3>2, <2>2, <1>20
  <2>3. ASSUME NEW k \in Node, NEW d \in net'[k].list
        PROVE  d \in DOMAIN conn' /\ k \in Two(conn'[d]) /\ conn'[d].end[k].status # "BACKLOG"
    <3>1. CASE d \in net[k].list
      BY <3>1, <1>23 DEF KnownIn
    <3>2. CASE k = n /\ d = c
      BY <3>2, <2>1
    <3>. QED  BY <3>1, <3>2, <2>3, <1>20
  <2>. QED  BY <2>2, <2>3 DEF KnownIn
<1>25. Known' /\ Pending'
  BY <1>1, <1>6, <1>24 DEF Known, Pending
<1>26. \A d \in DOMAIN conn : \A k \in Two(conn[d]) : \A x :
           Holds(conn'[d].end[k], x) <=> Holds(conn[d].end[k], x)
  <2>1. \A x : Holds(r, x) <=> Holds(e, x)
    BY <1>12 DEF Holds
  <2>. QED  BY <2>1, <1>10, <1>22
<1>27. ASSUME left.deaths = conf.deaths
       PROVE  CalmIn(conn', net', conf.messages, left.todo, got)
  <2>1. StandsIn(conn, net, got) /\ \A m \in conf.messages : PresentIn(conn, left.todo, got, m)
    BY <1>1, <1>27 DEF Calm, CalmIn
  <2>2. \A k \in Node : net'[k].up
    BY <2>1, <1>19 DEF StandsIn
  <2>3. ASSUME NEW d \in DOMAIN conn', NEW k \in Two(conn'[d]), NEW q, q = Other(conn'[d], k)
        PROVE  /\ conn'[d].end[k].open /\ Live(conn'[d].end[k])
               /\ conn'[d].end[k].status # "BACKLOG" => d \in net'[k].list
               /\ \A x : Holds(conn'[d].end[k], x) => net'[q].hash[k] = d
    <3>1. d \in DOMAIN conn /\ k \in Two(conn[d]) /\ q = Other(conn[d], k)
      BY <2>3, <1>22
    <3>2. k \in Node /\ q \in Node /\ d \in Nat
      BY <3>1, <1>2, OtherOf
    <3>3. /\ conn[d].end[k].open /\ Live(conn[d].end[k])
          /\ conn[d].end[k].status # "BACKLOG" => d \in net[k].list
          /\ \A x : Holds(conn[d].end[k], x) => net[q].hash[k] = d
      BY <2>1, <3>1 DEF StandsIn
    <3>4. \A x : Holds(conn'[d].end[k], x) => net'[q].hash[k] = d
      <4>1. ASSUME NEW x, Holds(conn'[d].end[k], x)
            PROVE  net'[q].hash[k] = d
        <5>1. Holds(conn[d].end[k], x)
          BY <4>1, <3>1, <1>26
        <5>2. net[q].hash[k] = d /\ d # None
          BY <5>1, <3>2, <3>3, <1>2
        <5>. QED  BY <5>2, <3>2, <1>20
      <4>. QED  BY <4>1
    <3>5. CASE d = c /\ k = n
      BY <3>3, <3>4, <3>5, <1>10, <1>12, <1>20, <1>22
    <3>6. CASE d # c \/ k # n
      <4>1. conn'[d].end[k] = conn[d].end[k]
        BY <3>1, <3>6, <1>22
      <4>. QED  BY <4>1, <3>2, <3>3, <3>4, <1>20
    <3>. QED  BY <3>5, <3>6
  <2>4. ASSUME NEW k \in Node, NEW i \in DOMAIN got[k]
        PROVE  net'[Other(conn'[got[k][i].via], k)].hash[k] = got[k][i].via
    <3>1. PICK d : d = got[k][i].via
      OBVIOUS
    <3>2. d \in DOMAIN conn /\ k \in Two(conn[d])
      BY <3>1, <1>1 DEF Given, GivenIn
    <3>3. d \in Nat /\ Other(conn[d], k) \in Node /\ Other(conn'[d], k) = Other(conn[d], k)
      BY <3>2, <1>2, <1>22, OtherOf
    <3>4. net[Other(conn[d], k)].hash[k] = d
      BY <2>1, <3>1 DEF StandsIn
    <3>. QED  BY <3>1, <3>3, <3>4, <1>2, <1>20
  <2>5. StandsIn(conn', net', got)
    <3>1. \A d \in DOMAIN conn' : \A k \in Two(conn'[d]) :
              /\ conn'[d].end[k].open /\ Live(conn'[d].end[k])
              /\ conn'[d].end[k].status # "BACKLOG" => d \in net'[k].list
              /\ \A x : Holds(conn'[d].end[k], x) => net'[Other(conn'[d], k)].hash[k] = d
      BY <2>3
    <3>2. \A k \in Node : \A i \in DOMAIN got[k] :
              net'[Other(conn'[got[k][i].via], k)].hash[k] = got[k][i].via
      BY <2>4
    <3>. QED  BY <3>1, <3>2, <2>2, Zenon DEF StandsIn
  <2>6. ASSUME NEW m \in conf.messages
        PROVE  PresentIn(conn', left.todo, got, m)
    BY <2>1, <1>22, <1>26 DEF PresentIn
  <2>. QED  BY <2>5, <2>6 DEF CalmIn
<1>28. Calm'
  BY <1>6, <1>27 DEF Calm
<1>. QED  BY <1>15, <1>21, <1>25, <1>28 DEF Inv

-----------------------------------------------------------------------------
(***************************************************************************)
(* Messages that are read.                                                 *)
(***************************************************************************)

\* Only n is given something, and that came over c.
Grows(g, h, n, c) ==
    /\ \A k \in Node : \A i \in DOMAIN g[k] : i \in DOMAIN h[k] /\ h[k][i] = g[k][i]
    /\ \A k \in Node : \A i \in DOMAIN h[k] :
          i \in DOMAIN g[k] \/ (k = n /\ h[k][i].via = c)

\* While nobody died, what is read was on the connection its sender sends on, and is given.
LEMMA ReadCalm ==
    ASSUME NEW a \in Seq(Conns), NEW nt, NEW M \in SUBSET Message, NEW t, NEW gt, NEW gt2,
           CalmIn(a, nt, M, t, gt), GivenIn(a, M, t, gt),
           NEW c \in DOMAIN a, NEW n \in Two(a[c]), NEW r,
           r.open, Live(r), c \in nt[n].list,
           \E x : Holds(a[c].end[n], x),
           \A x : Holds(r, x) => Holds(a[c].end[n], x),
           Grows(gt, gt2, n, c),
           \A m \in M : m.to = n /\ Holds(a[c].end[n], m.id) =>
               Holds(r, m.id) \/ \E i \in DOMAIN gt2[n] : gt2[n][i].packet = Whole(m),
           NEW b, Differs(a, b, c, n, r)
    PROVE  CalmIn(b, nt, M, t, gt2)
<1>0. /\ \A k \in Node : \A i \in DOMAIN gt[k] : i \in DOMAIN gt2[k] /\ gt2[k][i] = gt[k][i]
      /\ \A k \in Node : \A i \in DOMAIN gt2[k] :
            i \in DOMAIN gt[k] \/ (k = n /\ gt2[k][i].via = c)
  BY DEF Grows
<1>1. /\ DOMAIN b = DOMAIN a
      /\ \A d \in DOMAIN a : Two(b[d]) = Two(a[d]) /\ \A k : Other(b[d], k) = Other(a[d], k)
      /\ \A d \in DOMAIN a : \A k \in Two(a[d]) :
            b[d].end[k] = IF d = c /\ k = n THEN r ELSE a[d].end[k]
  BY DEF Differs, Two, Other
<1>2. StandsIn(a, nt, gt) /\ \A m \in M : PresentIn(a, t, gt, m)
  BY DEF CalmIn
<1>3. n \in Node
  BY OtherOf
<1>4. ASSUME NEW d \in DOMAIN b, NEW k \in Two(b[d])
      PROVE  /\ b[d].end[k].open /\ Live(b[d].end[k])
             /\ b[d].end[k].status # "BACKLOG" => d \in nt[k].list
             /\ \A x : Holds(b[d].end[k], x) => nt[Other(b[d], k)].hash[k] = d
  <2>1. d \in DOMAIN a /\ k \in Two(a[d]) /\ Other(b[d], k) = Other(a[d], k)
    BY <1>1
  <2>2. /\ a[d].end[k].open /\ Live(a[d].end[k])
        /\ a[d].end[k].status # "BACKLOG" => d \in nt[k].list
        /\ \A x : Holds(a[d].end[k], x) => nt[Other(a[d], k)].hash[k] = d
    BY <1>2, <2>1 DEF StandsIn
  <2>3. CASE d = c /\ k = n
    <3>1. b[d].end[k] = r
      BY <2>1, <2>3, <1>1
    <3>. QED  BY <3>1, <2>1, <2>2, <2>3
  <2>4. CASE ~(d = c /\ k = n)
    <3>1. b[d].end[k] = a[d].end[k]
      BY <2>1, <2>4, <1>1
    <3>. QED  BY <3>1, <2>1, <2>2
  <2>. QED  BY <2>3, <2>4
<1>5. ASSUME NEW k \in Node, NEW i \in DOMAIN gt2[k]
      PROVE  nt[Other(b[gt2[k][i].via], k)].hash[k] = gt2[k][i].via
  <2>1. CASE i \in DOMAIN gt[k]
    <3>1. gt2[k][i] = gt[k][i]
      BY <2>1, <1>0
    <3>2. gt[k][i].via \in DOMAIN a
      BY <2>1 DEF GivenIn
    <3>3. nt[Other(a[gt[k][i].via], k)].hash[k] = gt[k][i].via
      BY <2>1, <1>2 DEF StandsIn
    <3>4. Other(b[gt[k][i].via], k) = Other(a[gt[k][i].via], k)
      BY <3>2, <1>1
    <3>. QED  BY <3>1, <3>3, <3>4
  <2>2. CASE k = n /\ gt2[k][i].via = c
    <3>1. nt[Other(a[c], n)].hash[n] = c
      BY <1>2 DEF StandsIn
    <3>. QED  BY <3>1, <2>2, <1>1
  <2>. QED  BY <2>1, <2>2, <1>0
<1>6. StandsIn(b, nt, gt2)
  <2>1. \A k \in Node : nt[k].up
    BY <1>2 DEF StandsIn
  <2>. QED  BY <2>1, <1>4, <1>5, Zenon DEF StandsIn
<1>7. ASSUME NEW m \in M
      PROVE  PresentIn(b, t, gt2, m)
  <2>0. m.to \in Node
    BY DEF Message
  <2>1. CASE \E i \in DOMAIN t[m.from] : t[m.from][i] = m
    BY <2>1 DEF PresentIn
  <2>2. CASE \E i \in DOMAIN gt[m.to] : gt[m.to][i].packet = Whole(m)
    <3>1. \E i \in DOMAIN gt2[m.to] : gt2[m.to][i].packet = Whole(m)
      BY <2>0, <2>2, <1>0
    <3>. QED  BY <3>1 DEF PresentIn
  <2>3. ASSUME NEW d \in DOMAIN a, m.to \in Two(a[d]), Holds(a[d].end[m.to], m.id)
        PROVE  PresentIn(b, t, gt2, m)
    <3>1. d \in DOMAIN b /\ m.to \in Two(b[d])
      BY <2>3, <1>1
    <3>2. CASE d = c /\ m.to = n
      <4>1. b[d].end[m.to] = r
        BY <2>3, <3>2, <1>1
      <4>2. Holds(r, m.id) \/ \E i \in DOMAIN gt2[m.to] : gt2[m.to][i].packet = Whole(m)
        BY <2>3, <3>2
      <4>. QED  BY <3>1, <4>1, <4>2 DEF PresentIn
    <3>3. CASE ~(d = c /\ m.to = n)
      <4>1. b[d].end[m.to] = a[d].end[m.to]
        BY <2>3, <3>3, <1>1
      <4>. QED  BY <3>1, <4>1, <2>3 DEF PresentIn
    <3>. QED  BY <3>2, <3>3
  <2>. QED  BY <2>1, <2>2, <2>3, <1>2 DEF PresentIn
<1>. QED  BY <1>6, <1>7 DEF CalmIn

\* A step that changes one end, which stays accepted, and gives at most what is read there.
LEMMA ReadStep ==
    ASSUME Inv, TCPAssumption, NEW n \in Node, NEW c \in net[n].list, NEW r \in End,
           Differs(conn, conn', c, n, r), r.status # "BACKLOG",
           conf' = conf, left' = left, net' = net, got' \in [Node -> Seq(Gift)],
           StreamsIn(conn', conf.messages, left.todo, got'),
           GivenIn(conn', conf.messages, left.todo, got'),
           left.deaths = conf.deaths => CalmIn(conn', net, conf.messages, left.todo, got')
    PROVE  Inv'
<1>1. TypeOK' /\ Pending' /\ Streams' /\ Given' /\ Calm'
  BY DEF Inv, TypeOK, Differs, Pending, Streams, Given, Calm
<1>2. KnownIn(conn', net)
  <2>1. KnownIn(conn, net) /\ Within(conn, conn')
    BY DEF Inv, Known, Differs, Within
  <2>2. \A d \in DOMAIN conn : \A k \in Two(conn[d]) :
            conn[d].end[k].status # "BACKLOG" => conn'[d].end[k].status # "BACKLOG"
    BY DEF Differs, Two
  <2>. QED  BY <2>1, <2>2, KnownKept
<1>. QED  BY <1>1, <1>2 DEF Inv, Known

\* PerformRead reads a part of a message, and gives it when it is whole.
LEMMA PerformReadKeeps ==
    ASSUME TCPAssumption, Inv, NEW n \in Node, NEW c \in net[n].list, PerformRead(n, c)
    PROVE  Inv'
<1>1. TypeOK /\ Known /\ Pending /\ Streams /\ Given /\ Calm
  BY DEF Inv
<1>2. /\ conn \in Seq(Conns) /\ conf \in Scenarios /\ got \in [Node -> Seq(Gift)]
      /\ conf.messages \in SUBSET Message
      /\ \A m, o \in conf.messages : m.id = o.id => m = o
  BY <1>1, Scenario DEF TypeOK
<1>3. c \in DOMAIN conn /\ n \in Two(conn[c]) /\ n \in {conn[c].from, conn[c].to}
  BY <1>1 DEF Known, KnownIn, Two
<1>4. PICK e, f, p, S : /\ e = conn[c].end[n] /\ f = InitNewMessage(e)
                        /\ p = Other(conn[c], n) /\ S = SentBy(conf.messages, p, n)
  OBVIOUS
<1>5. /\ e \in End /\ p \in Node /\ c \in Nat /\ conn[c].end[n] = e
  BY <1>2, <1>3, <1>4, OtherOf
<1>6. /\ Usable(c, n) /\ e.unread # <<>> /\ conf' = conf /\ left' = left /\ net' = net
  BY <1>4 DEF PerformRead
<1>7. PICK k \in 0 .. Len(f.unread) :
          LET r == ReadMessage(f, k) IN
          IF r.need > 0
          THEN conn' = [conn EXCEPT ![c].end[n] = r] /\ got' = got
          ELSE /\ conn' = [conn EXCEPT ![c].end[n] = GetLatestMessage(r)]
               /\ got' = [got EXCEPT ![n] = Append(@, [via |-> c, packet |-> r.packet])]
  BY <1>4 DEF PerformRead
<1>8. PICK r : r = ReadMessage(f, k)
  OBVIOUS
<1>9. Live(e) /\ e.status # "BACKLOG"
  BY <1>5, <1>6 DEF Usable, Live
<1>10. PICK q : q = conn[c].end[p]
  OBVIOUS
<1>11. S \in SUBSET Message
  BY <1>2, <1>4 DEF SentBy
<1>12. /\ Framed(e, S, ~Live(q))
       /\ \A x : Holds(e, x) => \A y \in Heard(got[n], c) : y < x
  <2>1. StreamOK(e, q, S, left.todo[p], Heard(got[n], c))
    BY <1>1, <1>3, <1>4, <1>10 DEF Streams, StreamsIn
  <2>. QED  BY <2>1, <1>9 DEF StreamOK
<1>13. /\ f \in End /\ f.status = e.status /\ f.open = e.open
       /\ f.need > 0 /\ Framed(f, S, FALSE)
       /\ \A x : Holds(e, x) <=> Holds(f, x)
  <2>1. Framed(e, S, TRUE) /\ TRUE \in BOOLEAN
    BY <1>12 DEF Framed
  <2>2. e \in End /\ e.unread # <<>> /\ f = InitNewMessage(e)
    BY <1>4, <1>5, <1>6
  <2>. QED  BY <2>1, <2>2, <1>11, InitFramed
<1>14. /\ r \in End /\ r.status = f.status /\ r.open = f.open
       /\ r.need > 0 => Framed(r, S, FALSE) /\ \A x : Holds(r, x) <=> Holds(f, x)
       /\ ~(r.need > 0) =>
             \E m \in S : /\ r.packet = Whole(m)
                          /\ Framed(GetLatestMessage(r), S, FALSE)
                          /\ GetLatestMessage(r) \in End
                          /\ \A x : Holds(f, x) <=> x = m.id \/ Holds(GetLatestMessage(r), x)
                          /\ \A x : Holds(GetLatestMessage(r), x) => m.id < x
  <2>1. f \in End /\ Framed(f, S, FALSE) /\ f.need > 0
    BY <1>13
  <2>2. ReadsTo(f, r, S)
    BY <2>1, <1>8, <1>11, ReadFramed
  <2>. QED  BY <2>2 DEF ReadsTo
<1>15. \E x : Holds(e, x)
  <2>1. e.unread \in Seq(Cell) /\ Len(e.unread) > 0
    BY <1>5, <1>6 DEF End
  <2>2. 1 \in 1 .. Len(e.unread)
    BY <2>1
  <2>. QED  BY <2>2 DEF Holds
<1>16. CASE r.need > 0
  <2>1. conn' = [conn EXCEPT ![c].end[n] = r] /\ got' = got
    BY <1>7, <1>8, <1>16
  <2>2. Differs(conn, conn', c, n, r)
    <3>1. Differs(conn, [conn EXCEPT ![c].end[n] = r], c, n, r)
      <4>1. conn \in Seq(Conns) /\ c \in DOMAIN conn /\ n \in {conn[c].from, conn[c].to} /\ r \in End
        BY <1>2, <1>3, <1>14
      <4>. QED  BY <4>1, EndSet
    <3>. QED  BY <3>1, <2>1
  <2>3. /\ Live(r) /\ r.status # "BACKLOG" /\ Framed(r, S, FALSE)
        /\ \A x : Holds(r, x) <=> Holds(e, x)
    BY <1>9, <1>13, <1>14, <1>16 DEF Live
  <2>4. StreamsIn(conn', conf.messages, left.todo, got)
    <3>1. StreamsIn(conn, conf.messages, left.todo, got)
      BY <1>1 DEF Streams
    <3>2. \A k1 \in Node : \A d : k1 # n \/ d # c => Heard(got[k1], d) \subseteq Heard(got[k1], d)
      OBVIOUS
    <3>3. /\ Live(conn[c].end[n]) /\ Framed(r, SentBy(conf.messages, Other(conn[c], n), n), FALSE)
          /\ \A x : Holds(r, x) => Holds(conn[c].end[n], x)
          /\ \A x : Holds(r, x) => \A y \in Heard(got[n], c) : y < x
      BY <1>4, <1>9, <1>12, <2>3
    <3>. QED  BY <3>1, <3>2, <3>3, <2>2, <2>3, <1>2, <1>3, <1>14, ReadStreams
  <2>5. GivenIn(conn', conf.messages, left.todo, got)
    <3>1. Within(conn, conn')
      BY <2>2 DEF Differs, Within
    <3>2. \A k1 \in Node : \A i \in DOMAIN left.todo[k1] : \E j \in DOMAIN left.todo[k1] :
              left.todo[k1][i] = left.todo[k1][j]
      OBVIOUS
    <3>3. \A m \in conf.messages : m.from \in Node
      BY <1>2 DEF Message
    <3>. QED  BY <3>1, <3>2, <3>3, <1>1, GivenKept DEF Given
  <2>6. ASSUME left.deaths = conf.deaths
        PROVE  CalmIn(conn', net, conf.messages, left.todo, got)
    <3>1. /\ CalmIn(conn, net, conf.messages, left.todo, got)
          /\ GivenIn(conn, conf.messages, left.todo, got)
      BY <1>1, <2>6 DEF Calm, Given
    <3>2. r.open
      <4>1. e.open
        BY <3>1, <1>3, <1>4 DEF CalmIn, StandsIn
      <4>. QED  BY <4>1, <1>13, <1>14
    <3>3. /\ \E x : Holds(conn[c].end[n], x)
          /\ \A x : Holds(r, x) => Holds(conn[c].end[n], x)
          /\ \A m \in conf.messages : m.to = n /\ Holds(conn[c].end[n], m.id) =>
                 Holds(r, m.id) \/ \E i \in DOMAIN got[n] : got[n][i].packet = Whole(m)
      BY <1>4, <1>15, <2>3
    <3>4. Grows(got, got, n, c)
      BY DEF Grows
    <3>. QED  BY <3>1, <3>2, <3>3, <3>4, <2>2, <2>3, <1>2, <1>3, ReadCalm
  <2>. QED  BY <2>1, <2>2, <2>3, <2>4, <2>5, <2>6, <1>2, <1>6, <1>14, ReadStep
<1>17. CASE ~(r.need > 0)
  <2>1. PICK m \in S : /\ r.packet = Whole(m)
                       /\ Framed(GetLatestMessage(r), S, FALSE)
                       /\ GetLatestMessage(r) \in End
                       /\ \A x : Holds(f, x) <=> x = m.id \/ Holds(GetLatestMessage(r), x)
                       /\ \A x : Holds(GetLatestMessage(r), x) => m.id < x
    BY <1>14, <1>17
  <2>2. PICK g : g = GetLatestMessage(r)
    OBVIOUS
  <2>3. /\ g \in End /\ Framed(g, S, FALSE)
        /\ \A x : Holds(e, x) <=> x = m.id \/ Holds(g, x)
        /\ \A x : Holds(g, x) => m.id < x
    BY <2>1, <2>2, <1>13
  <2>4. g.open = r.open /\ g.status # "BACKLOG" /\ Live(g)
    <3>1. g.open = r.open /\ g.status = "CONN_OK"
      BY <2>2, <1>14 DEF GetLatestMessage, End
    <3>. QED  BY <3>1 DEF Live
  <2>5. /\ conn' = [conn EXCEPT ![c].end[n] = g]
        /\ got' = [got EXCEPT ![n] = Append(@, [via |-> c, packet |-> Whole(m)])]
    BY <1>7, <1>8, <1>17, <2>1, <2>2
  <2>6. Differs(conn, conn', c, n, g)
    <3>1. Differs(conn, [conn EXCEPT ![c].end[n] = g], c, n, g)
      <4>1. conn \in Seq(Conns) /\ c \in DOMAIN conn /\ n \in {conn[c].from, conn[c].to} /\ g \in End
        BY <1>2, <1>3, <2>3
      <4>. QED  BY <4>1, EndSet
    <3>. QED  BY <3>1, <2>5
  <2>7. m \in Message /\ m \in conf.messages /\ m.to = n /\ m.from = p
    BY <1>2, <1>4 DEF SentBy
  <2>8. GivesOne(got, got', n, c, Whole(m))
    <3>1. Whole(m) \in Seq(Cell)
      BY <2>7, BytesOf
    <3>. QED  BY <3>1, <2>5, <1>2, <1>5, GiveOne
  <2>9. /\ StreamsIn(conn', conf.messages, left.todo, got')
        /\ GivenIn(conn', conf.messages, left.todo, got')
    <3>1. /\ StreamsIn(conn, conf.messages, left.todo, got)
          /\ GivenIn(conn, conf.messages, left.todo, got)
      BY <1>1 DEF Streams, Given
    <3>2. /\ Live(conn[c].end[n])
          /\ Framed(g, SentBy(conf.messages, Other(conn[c], n), n), FALSE)
          /\ m \in SentBy(conf.messages, Other(conn[c], n), n)
          /\ \A x : Holds(conn[c].end[n], x) <=> x = m.id \/ Holds(g, x)
      BY <1>4, <1>9, <2>3
    <3>. QED  BY <3>1, <3>2, <2>3, <2>4, <2>6, <2>8, <1>2, <1>3, GiveKeeps
  <2>10. ASSUME left.deaths = conf.deaths
         PROVE  CalmIn(conn', net, conf.messages, left.todo, got')
    <3>1. /\ CalmIn(conn, net, conf.messages, left.todo, got)
          /\ GivenIn(conn, conf.messages, left.todo, got)
      BY <1>1, <2>10 DEF Calm, Given
    <3>2. g.open
      <4>1. e.open
        BY <3>1, <1>3, <1>4 DEF CalmIn, StandsIn
      <4>. QED  BY <4>1, <1>13, <1>14, <2>4
    <3>3. /\ \E x : Holds(conn[c].end[n], x)
          /\ \A x : Holds(g, x) => Holds(conn[c].end[n], x)
      BY <1>4, <1>15, <2>3
    <3>4. /\ Grows(got, got', n, c)
          /\ \E i \in DOMAIN got'[n] : got'[n][i].packet = Whole(m)
      <4>1. PICK L \in Nat : L = Len(got[n])
        BY <2>8 DEF GivesOne
      <4>2. /\ \A j \in Node \ {n} : got'[j] = got[j]
            /\ DOMAIN got[n] = 1 .. L /\ DOMAIN got'[n] = 1 .. L + 1
            /\ \A i \in 1 .. L : got'[n][i] = got[n][i]
            /\ got'[n][L + 1].via = c /\ got'[n][L + 1].packet = Whole(m)
        BY <4>1, <2>8 DEF GivesOne
      <4>3. /\ 1 .. L \subseteq 1 .. L + 1 /\ L + 1 \in 1 .. L + 1
            /\ \A i \in 1 .. L + 1 : i \in 1 .. L \/ i = L + 1
        OBVIOUS
      <4>. QED  BY <4>2, <4>3 DEF Grows
    <3>5. \A o \in conf.messages : o.to = n /\ Holds(conn[c].end[n], o.id) =>
              Holds(g, o.id) \/ \E i \in DOMAIN got'[n] : got'[n][i].packet = Whole(o)
      BY <1>2, <1>4, <2>3, <2>7, <3>4
    <3>. QED  BY <3>1, <3>2, <3>3, <3>4, <3>5, <2>4, <2>6, <1>2, <1>3, ReadCalm
  <2>11. got' \in [Node -> Seq(Gift)]
    BY <2>8 DEF GivesOne
  <2>. QED  BY <2>3, <2>4, <2>6, <2>9, <2>10, <2>11, <1>6, ReadStep
<1>. QED  BY <1>16, <1>17

-----------------------------------------------------------------------------
(***************************************************************************)
(* Messages that are sent.                                                 *)
(***************************************************************************)

\* A node that sends has one message less to send.
LEMMA TailSends ==
    ASSUME NEW M, NEW t \in [Node -> Seq(M)], NEW n \in Node, t[n] # <<>>,
           \A k \in Node : \A i, j \in DOMAIN t[k] : i < j => t[k][i].id < t[k][j].id
    PROVE  Sends(t, [t EXCEPT ![n] = Tail(@)], n, Head(t[n]), M) /\ Head(t[n]) \in M
<1>1. PICK s \in Seq(M) : s = t[n]
  OBVIOUS
<1>2. /\ Head(s) \in M /\ Head(s) = s[1] /\ Tail(s) \in Seq(M) /\ Len(s) \in Nat /\ Len(s) > 0
      /\ Len(Tail(s)) = Len(s) - 1 /\ \A i \in 1 .. Len(Tail(s)) : Tail(s)[i] = s[i + 1]
  <2>1. s # <<>>
    BY <1>1
  <2>. QED  BY <2>1, HeadTailProperties
<1>3. PICK r \in Seq(M), m \in M : r = Tail(s) /\ m = Head(s)
  BY <1>2
<1>4. PICK L \in Nat : L = Len(s) /\ DOMAIN s = 1 .. L /\ L > 0
  <2>1. Len(s) \in Nat /\ DOMAIN s = 1 .. Len(s) /\ Len(s) > 0
    BY <1>2
  <2>. QED  BY <2>1
<1>5. PICK K \in Nat : K = Len(r) /\ DOMAIN r = 1 .. K
  <2>1. Len(r) \in Nat /\ DOMAIN r = 1 .. Len(r)
    OBVIOUS
  <2>. QED  BY <2>1
<1>6. K = L - 1 /\ m = s[1] /\ \A i \in 1 .. K : r[i] = s[i + 1]
  BY <1>2, <1>3, <1>4, <1>5
<1>7. /\ \A i \in 1 .. K : i + 1 \in 1 .. L /\ 1 < i + 1
      /\ \A i \in 1 .. L : i = 1 \/ (i - 1 \in 1 .. K /\ (i - 1) + 1 = i)
      /\ \A i, j \in 1 .. K : i < j => i + 1 < j + 1
      /\ 1 \in 1 .. L
  BY <1>4, <1>6
<1>8. \A i, j \in 1 .. L : i < j => s[i].id < s[j].id
  BY <1>1, <1>4
<1>9. /\ \A i \in 1 .. K : \E j \in 1 .. L : r[i] = s[j]
      /\ \A i \in 1 .. K : m.id < r[i].id
      /\ \A i, j \in 1 .. K : i < j => r[i].id < r[j].id
      /\ \A i \in 1 .. L : s[i] = m \/ \E j \in 1 .. K : r[j] = s[i]
  <2>1. \A i \in 1 .. K : \E j \in 1 .. L : r[i] = s[j]
    BY <1>6, <1>7
  <2>2. \A i \in 1 .. K : m.id < r[i].id
    BY <1>6, <1>7, <1>8
  <2>3. \A i, j \in 1 .. K : i < j => r[i].id < r[j].id
    <3>1. ASSUME NEW i \in 1 .. K, NEW j \in 1 .. K, i < j
          PROVE  r[i].id < r[j].id
      <4>1. i + 1 \in 1 .. L /\ j + 1 \in 1 .. L /\ i + 1 < j + 1
        BY <3>1, <1>7
      <4>2. s[i + 1].id < s[j + 1].id
        BY <4>1, <1>8
      <4>. QED  BY <4>2, <1>6
    <3>. QED  BY <3>1
  <2>4. \A i \in 1 .. L : s[i] = m \/ \E j \in 1 .. K : r[j] = s[i]
    <3>1. ASSUME NEW i \in 1 .. L, i # 1
          PROVE  \E j \in 1 .. K : r[j] = s[i]
      <4>1. i - 1 \in 1 .. K /\ (i - 1) + 1 = i
        BY <3>1, <1>7
      <4>2. r[i - 1] = s[(i - 1) + 1]
        BY <4>1, <1>6
      <4>. QED  BY <4>1, <4>2
    <3>. QED  BY <3>1, <1>6
  <2>. QED  BY <2>1, <2>2, <2>3, <2>4
<1>10. PICK u : u = [t EXCEPT ![n] = r]
  OBVIOUS
<1>11. /\ u \in [Node -> Seq(M)] /\ u[n] = r /\ \A k \in Node \ {n} : u[k] = t[k]
  BY <1>3, <1>10
<1>12. Sends(t, u, n, m, M)
  <2>1. /\ DOMAIN u[n] = 1 .. K /\ DOMAIN t[n] = 1 .. L /\ t[n] = s /\ u[n] = r
    BY <1>1, <1>4, <1>5, <1>11
  <2>2. \A k \in Node : \A i \in DOMAIN u[k] : \E j \in DOMAIN t[k] : u[k][i] = t[k][j]
    <3>0. \A i \in 1 .. K : \E j \in 1 .. L : r[i] = s[j]
      BY <1>9
    <3>1. \A i \in DOMAIN u[n] : \E j \in DOMAIN t[n] : u[n][i] = t[n][j]
      BY <2>1, <3>0, Zenon
    <3>2. ASSUME NEW k \in Node, NEW i \in DOMAIN u[k], k # n
          PROVE  \E j \in DOMAIN t[k] : u[k][i] = t[k][j]
      <4>1. u[k] = t[k]
        BY <3>2, <1>11
      <4>. QED  BY <4>1
    <3>3. ASSUME NEW k \in Node
          PROVE  \A i \in DOMAIN u[k] : \E j \in DOMAIN t[k] : u[k][i] = t[k][j]
      <4>1. CASE k = n
        BY <4>1, <3>1
      <4>2. CASE k # n
        BY <4>2, <3>2
      <4>. QED  BY <4>1, <4>2
    <3>. QED  BY <3>3
  <2>3. \E j \in DOMAIN t[n] : t[n][j] = m
    BY <2>1, <1>6, <1>7
  <2>4. \A i \in DOMAIN u[n] : m.id < u[n][i].id
    <3>1. \A i \in 1 .. K : m.id < r[i].id
      BY <1>9
    <3>. QED  BY <2>1, <3>1
  <2>5. \A k \in Node : \A i, j \in DOMAIN u[k] : i < j => u[k][i].id < u[k][j].id
    BY <2>1, <1>9, <1>11
  <2>6. ASSUME NEW k \in Node, NEW i \in DOMAIN t[k]
        PROVE  \/ k = n /\ t[k][i] = m
               \/ \E j \in DOMAIN u[k] : u[k][j] = t[k][i]
    <3>1. CASE k = n
      <4>1. i \in 1 .. L
        BY <3>1, <2>1
      <4>2. s[i] = m \/ \E j \in 1 .. K : r[j] = s[i]
        BY <4>1, <1>9
      <4>. QED  BY <4>2, <3>1, <2>1
    <3>2. CASE k # n
      <4>1. u[k] = t[k]
        BY <3>2, <1>11
      <4>. QED  BY <4>1
    <3>. QED  BY <3>1, <3>2
  <2>. QED  BY <2>2, <2>3, <2>4, <2>5, <2>6, <1>11 DEF Sends
<1>. QED  BY <1>1, <1>3, <1>10, <1>12

\* While nobody died, what is sent is on its way, on the connection its sender sends on.
LEMMA SentCalm ==
    ASSUME NEW a \in Seq(Conns), NEW nt, NEW M \in SUBSET Message, NEW t, NEW u, NEW gt,
           CalmIn(a, nt, M, t, gt), GivenIn(a, M, t, gt),
           NEW c \in DOMAIN a, NEW n, NEW to, NEW m \in M, n = Other(a[c], to), to \in Two(a[c]),
           m.to = to, nt[n].hash[to] = c, Sends(t, u, n, m, M),
           NEW b, Written(a, b, c, to, m), Carries(a, b, c, to, m)
    PROVE  CalmIn(b, nt, M, u, gt)
<1>0. /\ \A d \in DOMAIN a : \A k \in Two(a[d]) : \A x :
            /\ Holds(a[d].end[k], x) => Holds(b[d].end[k], x)
            /\ Holds(b[d].end[k], x) => Holds(a[d].end[k], x) \/ (d = c /\ k = to)
      /\ a[c].end[to].open => Holds(b[c].end[to], m.id)
  BY DEF Carries
<1>1. /\ DOMAIN b = DOMAIN a
      /\ \A d \in DOMAIN a : Two(b[d]) = Two(a[d]) /\ \A k : Other(b[d], k) = Other(a[d], k)
      /\ \A d \in DOMAIN a : \A k \in Two(a[d]) :
            b[d].end[k].status = a[d].end[k].status /\ b[d].end[k].open = a[d].end[k].open
  BY DEF Written, Two, Other
<1>2. StandsIn(a, nt, gt) /\ \A o \in M : PresentIn(a, t, gt, o)
  BY DEF CalmIn
<1>3. ASSUME NEW d \in DOMAIN b, NEW k \in Two(b[d])
      PROVE  /\ b[d].end[k].open /\ Live(b[d].end[k])
             /\ b[d].end[k].status # "BACKLOG" => d \in nt[k].list
             /\ \A x : Holds(b[d].end[k], x) => nt[Other(b[d], k)].hash[k] = d
  <2>1. d \in DOMAIN a /\ k \in Two(a[d]) /\ Other(b[d], k) = Other(a[d], k)
    BY <1>1
  <2>2. /\ a[d].end[k].open /\ Live(a[d].end[k])
        /\ a[d].end[k].status # "BACKLOG" => d \in nt[k].list
        /\ \A x : Holds(a[d].end[k], x) => nt[Other(a[d], k)].hash[k] = d
    BY <1>2, <2>1 DEF StandsIn
  <2>3. /\ b[d].end[k].open /\ Live(b[d].end[k])
        /\ b[d].end[k].status # "BACKLOG" => d \in nt[k].list
    BY <1>1, <2>1, <2>2 DEF Live
  <2>4. \A x : Holds(b[d].end[k], x) => nt[Other(b[d], k)].hash[k] = d
    BY <2>1, <2>2, <1>0
  <2>. QED  BY <2>3, <2>4
<1>4. ASSUME NEW k \in Node, NEW i \in DOMAIN gt[k]
      PROVE  nt[Other(b[gt[k][i].via], k)].hash[k] = gt[k][i].via
  <2>1. gt[k][i].via \in DOMAIN a
    BY DEF GivenIn
  <2>2. nt[Other(a[gt[k][i].via], k)].hash[k] = gt[k][i].via
    BY <1>2 DEF StandsIn
  <2>3. Other(b[gt[k][i].via], k) = Other(a[gt[k][i].via], k)
    BY <1>1, <2>1
  <2>. QED  BY <2>2, <2>3
<1>5. StandsIn(b, nt, gt)
  <2>1. \A k \in Node : nt[k].up
    BY <1>2 DEF StandsIn
  <2>. QED  BY <2>1, <1>3, <1>4, Zenon DEF StandsIn
<1>6. ASSUME NEW o \in M
      PROVE  PresentIn(b, u, gt, o)
  <2>1. ASSUME NEW i \in DOMAIN t[o.from], t[o.from][i] = o
        PROVE  PresentIn(b, u, gt, o)
    <3>1. o.from \in Node
      BY DEF Message
    <3>2. o = m \/ \E j \in DOMAIN u[o.from] : u[o.from][j] = o
      BY <2>1, <3>1 DEF Sends
    <3>3. CASE o = m
      <4>1. a[c].end[to].open
        BY <1>2 DEF StandsIn
      <4>2. c \in DOMAIN b /\ o.to \in Two(b[c]) /\ Holds(b[c].end[o.to], o.id)
        BY <4>1, <3>3, <1>0, <1>1
      <4>. QED  BY <4>2 DEF PresentIn
    <3>4. CASE \E j \in DOMAIN u[o.from] : u[o.from][j] = o
      BY <3>4 DEF PresentIn
    <3>. QED  BY <3>2, <3>3, <3>4
  <2>2. CASE \E i \in DOMAIN gt[o.to] : gt[o.to][i].packet = Whole(o)
    BY <2>2 DEF PresentIn
  <2>3. ASSUME NEW d \in DOMAIN a, o.to \in Two(a[d]), Holds(a[d].end[o.to], o.id)
        PROVE  PresentIn(b, u, gt, o)
    <3>1. d \in DOMAIN b /\ o.to \in Two(b[d]) /\ Holds(b[d].end[o.to], o.id)
      BY <2>3, <1>0, <1>1
    <3>. QED  BY <3>1 DEF PresentIn
  <2>. QED  BY <2>1, <2>2, <2>3, <1>2 DEF PresentIn
<1>. QED  BY <1>5, <1>6 DEF CalmIn

\* What the invariant says of streams and processes.
InOrder(a, nt, M, t, gt, calm) ==
    /\ KnownIn(a, nt)
    /\ StreamsIn(a, M, t, gt) /\ GivenIn(a, M, t, gt)
    /\ calm => CalmIn(a, nt, M, t, gt)

\* The message m of n goes to its receiver over c.
Goes(a, nt, M, c, n, to, m) ==
    /\ c \in DOMAIN a /\ to \in Two(a[c]) /\ n = Other(a[c], to)
    /\ m \in M /\ m.from = n /\ m.to = to /\ nt[n].hash[to] = c
    /\ Live(a[c].end[n])

\* A message is written on the connection c, which is under the peer's name now; a is what
\* there is when it is found or made.
LEMMA SentAll ==
    ASSUME NEW a \in Seq(Conns), NEW nt, NEW M \in SUBSET Message, NEW t, NEW u, NEW gt, NEW calm,
           NEW c, NEW n, NEW to, NEW m, InOrder(a, nt, M, t, gt, calm), Goes(a, nt, M, c, n, to, m),
           Sends(t, u, n, m, M), NEW b, b = Write(a, c, to, m)
    PROVE  b \in Seq(Conns) /\ InOrder(b, nt, M, u, gt, calm)
<1>. SUFFICES /\ b \in Seq(Conns) /\ KnownIn(b, nt)
              /\ StreamsIn(b, M, u, gt) /\ GivenIn(b, M, u, gt)
              /\ calm => CalmIn(b, nt, M, u, gt)
  BY DEF InOrder
<1>0. /\ StreamsIn(a, M, t, gt) /\ GivenIn(a, M, t, gt) /\ KnownIn(a, nt)
      /\ calm => CalmIn(a, nt, M, t, gt)
      /\ c \in DOMAIN a /\ to \in Two(a[c]) /\ m \in M /\ n = Other(a[c], to)
      /\ m.from = n /\ m.to = to /\ nt[n].hash[to] = c
      /\ Live(a[c].end[n])
  BY DEF InOrder, Goes
<1>. USE <1>0
<1>1. m \in Message
  OBVIOUS
<1>2. Written(a, b, c, to, m)
  BY <1>1, WriteIs
<1>3. StreamsIn(b, M, u, gt) /\ Within(a, b) /\ Carries(a, b, c, to, m)
  BY <1>2, WriteKeeps
<1>4. GivenIn(b, M, u, gt)
  <2>1. \A o \in M : o.from \in Node
    BY DEF Message
  <2>2. \A k \in Node : \A i \in DOMAIN u[k] : \E j \in DOMAIN t[k] : u[k][i] = t[k][j]
    BY DEF Sends
  <2>. QED  BY <2>1, <2>2, <1>3, GivenKept
<1>5. KnownIn(b, nt)
  <2>1. \A d \in DOMAIN a : \A k \in Two(a[d]) :
            a[d].end[k].status # "BACKLOG" => b[d].end[k].status # "BACKLOG"
    BY <1>2 DEF Written
  <2>. QED  BY <2>1, <1>3, KnownKept
<1>6. calm => CalmIn(b, nt, M, u, gt)
  BY <1>2, <1>3, SentCalm
<1>. QED  BY <1>2, <1>3, <1>4, <1>5, <1>6 DEF Written

\* a is the connections there were, and c, which is new.
Opened(a, n, to, c) ==
    /\ a \in Seq(Conns) /\ Within(conn, a) /\ c \in Nat /\ c \notin DOMAIN conn
    /\ DOMAIN a = DOMAIN conn \cup {c} /\ \A d \in DOMAIN conn : a[d] = conn[d]
    /\ Two(a[c]) = {n, to} /\ Other(a[c], to) = n /\ Other(a[c], n) = to
    /\ a[c].end[n] = NewEnd("CONN_OK") /\ a[c].end[to] = NewEnd("BACKLOG")

\* A connection is opened: its ends hold nothing, and the peer has not accepted it.
LEMMA Connected ==
    ASSUME NEW n \in Node, NEW to \in Node, n # to, TypeOK
    PROVE  Opened(Connect(n, to), n, to, Len(conn) + 1)
<1>. DEFINE a == Connect(n, to)  c == Len(conn) + 1
<1>1. conn \in Seq(Conns)
  BY DEF TypeOK
<1>2. PICK f : f = [e \in {n, to} |-> NewEnd(IF e = n THEN "CONN_OK" ELSE "BACKLOG")]
  OBVIOUS
<1>3. PICK x : x = [from |-> n, to |-> to, end |-> f]
  OBVIOUS
<1>4. /\ f[n] = NewEnd("CONN_OK") /\ f[to] = NewEnd("BACKLOG")
      /\ f \in [{n, to} -> End]
  <2>1. f[n] = NewEnd("CONN_OK") /\ f[to] = NewEnd("BACKLOG")
    BY <1>2
  <2>2. NewEnd("CONN_OK") \in End /\ NewEnd("BACKLOG") \in End
    <3>1. PICK ok \in Status, new \in Status : ok = "CONN_OK" /\ new = "BACKLOG"
      BY DEF Status
    <3>. QED  BY <3>1, NewEndIs
  <2>3. DOMAIN f = {n, to} /\ f = [e \in {n, to} |-> f[e]]
    BY <1>2
  <2>. QED  BY <2>1, <2>2, <2>3
<1>5. x \in Conns /\ x.from = n /\ x.to = to /\ x.end = f
  <2>1. {n, to} \in SUBSET Node
    OBVIOUS
  <2>2. f \in UNION {[S -> End] : S \in SUBSET Node}
    BY <2>1, <1>4
  <2>. QED  BY <2>2, <1>3, <1>4 DEF Conns
<1>6. a = Append(conn, x)
  BY <1>2, <1>3 DEF Connect
<1>. HIDE DEF a
<1>7. /\ a \in Seq(Conns) /\ Len(a) = Len(conn) + 1 /\ Len(conn) \in Nat
      /\ \A d \in 1 .. Len(conn) : a[d] = conn[d]
      /\ a[Len(conn) + 1] = x
  BY <1>1, <1>5, <1>6, AppendProperties
<1>8. /\ DOMAIN conn = 1 .. Len(conn) /\ DOMAIN a = 1 .. Len(conn) + 1
  BY <1>1, <1>7
<1>9. /\ c \in Nat /\ c \notin DOMAIN conn /\ DOMAIN a = DOMAIN conn \cup {c}
      /\ \A d \in DOMAIN conn : a[d] = conn[d]
      /\ a[c] = x
  BY <1>7, <1>8
<1>. HIDE DEF c
<1>10. Within(conn, a)
  BY <1>9 DEF Within
<1>11. Two(a[c]) = {n, to} /\ Other(a[c], to) = n /\ Other(a[c], n) = to
  BY <1>5, <1>9 DEF Two, Other
<1>12. Opened(a, n, to, c)
  BY <1>4, <1>5, <1>7, <1>9, <1>10, <1>11 DEF Opened
<1>. QED  BY <1>12 DEF a, c

\* In nt the connection c is what n sends to the peer to on, in the place of the one before.
Replaced(nt, n, to, c) ==
    /\ nt \in [Node -> Net]
    /\ \A k \in Node :
          /\ nt[k].up = net[k].up
          /\ \A q \in Node : nt[k].hash[q] = IF k = n /\ q = to THEN c ELSE net[k].hash[q]
          /\ nt[k].list = IF k = n THEN (net[n].list \ {net[n].hash[to]}) \cup {c} ELSE net[k].list

\* Nothing changes for the other connections.
LEMMA ConnectedKeeps ==
    ASSUME TCPAssumption, Inv, NEW n \in Node, NEW to \in Node, n # to, NEW c, c = Len(conn) + 1,
           NEW a, a = Connect(n, to), NEW nt, Replaced(nt, n, to, c),
           left.deaths = conf.deaths => net[n].hash[to] = None
    PROVE  /\ StreamsIn(a, conf.messages, left.todo, got) /\ KnownIn(a, nt)
           /\ left.deaths = conf.deaths => CalmIn(a, nt, conf.messages, left.todo, got)
<1>1. TypeOK /\ Known /\ Pending /\ Streams /\ Given /\ Calm
  BY DEF Inv
<1>2. /\ conn \in Seq(Conns) /\ None \notin Nat /\ net \in [Node -> Net]
      /\ net[n].hash \in [Node -> Nat \cup {None}]
  BY <1>1 DEF TypeOK, TCPAssumption, Net
<1>3. /\ a \in Seq(Conns) /\ Within(conn, a) /\ c \in Nat /\ c \notin DOMAIN conn
      /\ DOMAIN a = DOMAIN conn \cup {c} /\ \A d \in DOMAIN conn : a[d] = conn[d]
      /\ Two(a[c]) = {n, to} /\ Other(a[c], to) = n /\ Other(a[c], n) = to
      /\ a[c].end[n] = NewEnd("CONN_OK") /\ a[c].end[to] = NewEnd("BACKLOG")
  <2>1. Opened(a, n, to, c)
    BY <1>1, Connected
  <2>. QED  BY <2>1 DEF Opened
<1>4. /\ \A x : ~Holds(a[c].end[n], x) /\ ~Holds(a[c].end[to], x)
      /\ \A k \in {n, to} : /\ a[c].end[k].open /\ Live(a[c].end[k])
                            /\ a[c].end[k].unread = <<>> /\ a[c].end[k].need = 0
                            /\ a[c].end[k].packet = <<>>
      /\ a[c].end[n].status = "CONN_OK" /\ a[c].end[to].status = "BACKLOG"
  <2>1. PICK ok \in Status, new \in Status : ok = "CONN_OK" /\ new = "BACKLOG"
    BY DEF Status
  <2>2. a[c].end[n] = NewEnd(ok) /\ a[c].end[to] = NewEnd(new)
    BY <1>3, <2>1
  <2>3. \A s \in Status : NewEnd(s).status = s /\ NewEnd(s).open
                          /\ NewEnd(s).unread = <<>> /\ NewEnd(s).need = 0 /\ NewEnd(s).packet = <<>>
    BY NewEndIs
  <2>4. \A s \in Status : \A x : ~Holds(NewEnd(s), x)
    BY NewEndHolds
  <2>. QED  BY <2>1, <2>2, <2>3, <2>4 DEF Live
<1>5. \A k \in {n, to} : \A M, cut : Framed(a[c].end[k], M, cut)
  <2>1. Len(<<>>) = 0 /\ 1 .. Len(<<>>) = {}
    OBVIOUS
  <2>2. \A M : Ordered(<<>>, M)
    BY <2>1 DEF Ordered, Increasing
  <2>. QED  BY <2>1, <2>2, <1>4 DEF Framed
<1>6. StreamsIn(a, conf.messages, left.todo, got)
  <2>. SUFFICES ASSUME NEW d \in DOMAIN a, NEW k \in Two(a[d]), NEW p, p = Other(a[d], k)
                PROVE  StreamOK(a[d].end[k], a[d].end[p], SentBy(conf.messages, p, k),
                                left.todo[p], Heard(got[k], d))
    BY DEF StreamsIn
  <2>1. CASE d \in DOMAIN conn
    <3>1. a[d] = conn[d]
      BY <2>1, <1>3
    <3>. QED  BY <3>1, <2>1, <1>1 DEF Streams, StreamsIn
  <2>2. CASE d = c
    BY <2>2, <1>3, <1>4, <1>5 DEF StreamOK
  <2>. QED  BY <2>1, <2>2, <1>3
<1>7. \A k \in Node :
          /\ nt[k].up = net[k].up
          /\ \A q \in Node : nt[k].hash[q] = IF k = n /\ q = to THEN c ELSE net[k].hash[q]
          /\ nt[k].list = IF k = n THEN (net[n].list \ {net[n].hash[to]}) \cup {c} ELSE net[k].list
  BY DEF Replaced
<1>8. /\ \A k, q \in Node : nt[k].hash[q] = IF k = n /\ q = to THEN c ELSE net[k].hash[q]
      /\ \A k \in Node : \A d \in nt[k].list : d \in net[k].list \/ (k = n /\ d = c)
      /\ c \in nt[n].list
  BY <1>2, <1>7
<1>9. KnownIn(a, nt)
  <2>1. ASSUME NEW k \in Node, NEW q \in Node, NEW d, d = nt[k].hash[q], d # None
        PROVE  /\ d \in DOMAIN a /\ k \in Two(a[d]) /\ Other(a[d], k) = q
               /\ a[d].end[k].status # "BACKLOG"
    <3>1. CASE k = n /\ q = to
      <4>1. d = c
        BY <3>1, <2>1, <1>8
      <4>. QED  BY <4>1, <3>1, <1>3, <1>4
    <3>2. CASE ~(k = n /\ q = to)
      <4>1. d = net[k].hash[q] /\ net[k].hash[q] # None
        BY <3>2, <2>1, <1>8
      <4>2. \A k1, q1 \in Node : net[k1].hash[q1] # None =>
                LET x == net[k1].hash[q1] IN
                /\ x \in DOMAIN conn /\ k1 \in Two(conn[x]) /\ Other(conn[x], k1) = q1
                /\ conn[x].end[k1].status # "BACKLOG"
        BY <1>1 DEF Known, KnownIn
      <4>3. LET x == net[k].hash[q] IN
            /\ x \in DOMAIN conn /\ k \in Two(conn[x]) /\ Other(conn[x], k) = q
            /\ conn[x].end[k].status # "BACKLOG"
        BY <4>1, <4>2, Zenon
      <4>4. /\ d \in DOMAIN conn /\ k \in Two(conn[d]) /\ Other(conn[d], k) = q
            /\ conn[d].end[k].status # "BACKLOG"
        BY <4>1, <4>3, Zenon
      <4>. QED  BY <4>4, <1>3
    <3>. QED  BY <3>1, <3>2
  <2>2. ASSUME NEW k \in Node, NEW d \in nt[k].list
        PROVE  d \in DOMAIN a /\ k \in Two(a[d]) /\ a[d].end[k].status # "BACKLOG"
    <3>1. CASE d \in net[k].list
      <4>1. d \in DOMAIN conn /\ k \in Two(conn[d]) /\ conn[d].end[k].status # "BACKLOG"
        BY <3>1, <1>1 DEF Known, KnownIn
      <4>. QED  BY <4>1, <1>3
    <3>2. CASE k = n /\ d = c
      BY <3>2, <1>3, <1>4
    <3>. QED  BY <3>1, <3>2, <1>8
  <2>. QED  BY <2>1, <2>2 DEF KnownIn
<1>10. ASSUME left.deaths = conf.deaths
       PROVE  CalmIn(a, nt, conf.messages, left.todo, got)
  <2>1. /\ StandsIn(conn, net, got)
        /\ \A m \in conf.messages : PresentIn(conn, left.todo, got, m)
        /\ net[n].hash[to] = None
    BY <1>1, <1>10 DEF Calm, CalmIn
  <2>2. /\ \A k, q \in Node : net[k].hash[q] \in Nat => nt[k].hash[q] = net[k].hash[q]
        /\ \A k \in Node : \A d \in Nat : d \in net[k].list => d \in nt[k].list
    <3>1. \A k, q \in Node : net[k].hash[q] \in Nat => nt[k].hash[q] = net[k].hash[q]
      BY <2>1, <1>2, <1>8
    <3>2. ASSUME NEW k \in Node, NEW d \in Nat, d \in net[k].list
          PROVE  d \in nt[k].list
      <4>1. CASE k = n
        <5>1. d # None
          BY <1>2
        <5>2. nt[k].list = (net[n].list \ {None}) \cup {c}
          BY <4>1, <2>1, <1>7
        <5>. QED  BY <5>1, <5>2, <4>1, <3>2
      <4>2. CASE k # n
        BY <4>2, <3>2, <1>7
      <4>. QED  BY <4>1, <4>2
    <3>. QED  BY <3>1, <3>2
  <2>3. ASSUME NEW d \in DOMAIN a, NEW k \in Two(a[d])
        PROVE  /\ a[d].end[k].open /\ Live(a[d].end[k])
               /\ a[d].end[k].status # "BACKLOG" => d \in nt[k].list
               /\ \A x : Holds(a[d].end[k], x) => nt[Other(a[d], k)].hash[k] = d
    <3>1. CASE d \in DOMAIN conn
      <4>1. a[d] = conn[d] /\ d \in Nat /\ k \in Node /\ Other(conn[d], k) \in Node
        BY <3>1, <1>2, <1>3, OtherOf
      <4>2. /\ conn[d].end[k].open /\ Live(conn[d].end[k])
            /\ conn[d].end[k].status # "BACKLOG" => d \in net[k].list
            /\ \A x : Holds(conn[d].end[k], x) => net[Other(conn[d], k)].hash[k] = d
        BY <2>1, <3>1, <4>1 DEF StandsIn
      <4>3. \A x : Holds(conn[d].end[k], x) => nt[Other(conn[d], k)].hash[k] = d
        BY <4>1, <4>2, <2>2
      <4>. QED  BY <4>1, <4>2, <4>3, <2>2
    <3>2. CASE d = c
      BY <3>2, <1>3, <1>4, <1>8
    <3>. QED  BY <3>1, <3>2, <1>3
  <2>4. ASSUME NEW k \in Node, NEW i \in DOMAIN got[k]
        PROVE  nt[Other(a[got[k][i].via], k)].hash[k] = got[k][i].via
    <3>1. PICK d : d = got[k][i].via
      OBVIOUS
    <3>2. d \in DOMAIN conn /\ k \in Two(conn[d])
      BY <3>1, <1>1 DEF Given, GivenIn
    <3>3. a[d] = conn[d] /\ d \in Nat /\ Other(conn[d], k) \in Node
      BY <3>2, <1>2, <1>3, OtherOf
    <3>4. net[Other(conn[d], k)].hash[k] = d
      BY <2>1, <3>1 DEF StandsIn
    <3>. QED  BY <3>1, <3>3, <3>4, <2>2
  <2>5. \A k \in Node : nt[k].up
    BY <2>1, <1>7 DEF StandsIn
  <2>6. StandsIn(a, nt, got)
    BY <2>3, <2>4, <2>5, Zenon DEF StandsIn
  <2>7. ASSUME NEW m \in conf.messages
        PROVE  PresentIn(a, left.todo, got, m)
    <3>1. PresentIn(conn, left.todo, got, m)
      BY <2>1
    <3>2. \A d \in DOMAIN conn : d \in DOMAIN a /\ a[d] = conn[d]
      BY <1>3
    <3>. QED  BY <3>1, <3>2 DEF PresentIn
  <2>. QED  BY <2>6, <2>7 DEF CalmIn
<1>. QED  BY <1>6, <1>9, <1>10

\* SendMessage uses the connection there is, or a new one.
LEMMA SendKeeps ==
    ASSUME TCPAssumption, Inv, NEW n \in Node, SendMessage(n)
    PROVE  Inv'
<1>1. TypeOK /\ Known /\ Pending /\ Streams /\ Given /\ Calm
  BY DEF Inv
<1>2. /\ conn \in Seq(Conns) /\ conf \in Scenarios /\ net \in [Node -> Net] /\ None \notin Nat
      /\ left \in [todo : [Node -> Seq(conf.messages)], deaths : [Node -> Nat]]
      /\ net[n].hash \in [Node -> Nat \cup {None}] /\ net[n].list \in SUBSET Nat
  BY <1>1 DEF TypeOK, TCPAssumption, Net
<1>3. /\ conf.messages \in SUBSET Message /\ \A o \in conf.messages : o.from # o.to
  BY <1>2, Scenario
<1>. DEFINE m == Head(left.todo[n])  to == m.to  c == GetConnection(n, to)
            hc == net[n].hash[to]  u == [left.todo EXCEPT ![n] = Tail(@)]
<1>4. /\ left.todo[n] # <<>> /\ left' = [left EXCEPT !.todo[n] = Tail(@)]
      /\ conf' = conf /\ got' = got
      /\ IF c = None THEN UNCHANGED <<conn, net>>
         ELSE IF c \in DOMAIN conn THEN conn' = Write(conn, c, to, m) /\ UNCHANGED net
         ELSE /\ conn' = Write(Connect(n, to), c, to, m)
              /\ net' = [net EXCEPT ![n].hash[to] = c, ![n].list = (@ \ {hc}) \cup {c}]
  BY DEF SendMessage
<1>5. c = IF hc # None /\ Usable(hc, n) THEN hc ELSE IF net[to].up THEN Len(conn) + 1 ELSE None
  BY DEF GetConnection
<1>6. Sends(left.todo, u, n, m, conf.messages) /\ m \in conf.messages
  <2>1. left.todo \in [Node -> Seq(conf.messages)]
    BY <1>2
  <2>2. \A k \in Node : \A i, j \in DOMAIN left.todo[k] :
            i < j => left.todo[k][i].id < left.todo[k][j].id
    BY <1>1 DEF Pending
  <2>. QED  BY <2>1, <2>2, <1>4, TailSends
<1>7. m.from = n
  <2>1. \E j \in DOMAIN left.todo[n] : left.todo[n][j] = m
    BY <1>6 DEF Sends
  <2>. QED  BY <2>1, <1>1 DEF Pending
<1>8. /\ left'.todo = u /\ left'.deaths = left.deaths
      /\ left' \in [todo : [Node -> Seq(conf.messages)], deaths : [Node -> Nat]]
  <2>1. u \in [Node -> Seq(conf.messages)]
    BY <1>6 DEF Sends
  <2>2. left' = [left EXCEPT !.todo = u]
    BY <1>4
  <2>. HIDE DEF u
  <2>. QED  BY <2>1, <2>2, <1>2
<1>. HIDE DEF u, c, hc
<1>9. to \in Node /\ n # to
  BY <1>3, <1>6, <1>7 DEF Message
<1>. HIDE DEF to, m
<1>10. Sends(left.todo, left'.todo, n, m, conf.messages)
  BY <1>6, <1>8
<1>11. m.to = to
  BY DEF to
<1>12. Pending'
  <2>1. ASSUME NEW k \in Node, NEW i \in DOMAIN left'.todo[k]
        PROVE  left'.todo[k][i].from = k
    <3>1. \E j \in DOMAIN left.todo[k] : left'.todo[k][i] = left.todo[k][j]
      BY <1>10 DEF Sends
    <3>. QED  BY <3>1, <1>1 DEF Pending
  <2>2. \A k \in Node : \A i, j \in DOMAIN left'.todo[k] :
            i < j => left'.todo[k][i].id < left'.todo[k][j].id
    BY <1>10 DEF Sends
  <2>. QED  BY <2>1, <2>2, <1>1, <1>4, <1>8 DEF Pending
<1>13. /\ StreamsIn(conn, conf.messages, left.todo, got)
       /\ GivenIn(conn, conf.messages, left.todo, got) /\ KnownIn(conn, net)
  BY <1>1 DEF Streams, Given, Known
<1>14. PICK calm : calm = (left.deaths = conf.deaths)
  OBVIOUS
<1>15. calm => CalmIn(conn, net, conf.messages, left.todo, got)
  BY <1>1, <1>14 DEF Calm
<1>16. ASSUME conn' \in Seq(Conns), net' \in [Node -> Net],
              InOrder(conn', net', conf.messages, left'.todo, got, calm)
       PROVE  Inv'
  <2>1. TypeOK'
    BY <1>1, <1>4, <1>8, <1>16 DEF TypeOK
  <2>2. Known' /\ Streams' /\ Given'
    BY <1>4, <1>16 DEF InOrder, Known, Streams, Given
  <2>3. Calm'
    BY <1>4, <1>8, <1>14, <1>16 DEF InOrder, Calm
  <2>. QED  BY <2>1, <2>2, <2>3, <1>12 DEF Inv
<1>17. CASE hc # None /\ Usable(hc, n)
  <2>1. c = hc
    BY <1>5, <1>17
  <2>2. /\ c \in DOMAIN conn /\ n \in Two(conn[c]) /\ Other(conn[c], n) = to
        /\ Live(conn[c].end[n])
    BY <2>1, <1>9, <1>13, <1>17 DEF KnownIn, Usable, Live, hc
  <2>3. to \in Two(conn[c]) /\ n = Other(conn[c], to)
    BY <2>2, <1>2, OtherOf
  <2>4. conn' = Write(conn, c, to, m) /\ net' = net /\ net[n].hash[to] = c
    BY <2>1, <2>2, <1>4, <1>17 DEF hc
  <2>5. /\ conn' \in Seq(Conns)
        /\ InOrder(conn', net, conf.messages, left'.todo, got, calm)
    <3>1. InOrder(conn, net, conf.messages, left.todo, got, calm)
      BY <1>13, <1>15 DEF InOrder
    <3>2. Goes(conn, net, conf.messages, c, n, to, m)
      BY <2>2, <2>3, <2>4, <1>6, <1>7, <1>11 DEF Goes
    <3>3. conn \in Seq(Conns) /\ conf.messages \in SUBSET Message /\ conn' = Write(conn, c, to, m)
      BY <2>4, <1>2, <1>3
    <3>. QED  BY <3>1, <3>2, <3>3, <1>10, SentAll, Zenon
  <2>. QED  BY <2>4, <2>5, <1>2, <1>16
<1>18. CASE ~(hc # None /\ Usable(hc, n)) /\ net[to].up
  <2>1. c = Len(conn) + 1
    BY <1>5, <1>18
  <2>2. PICK a : a = Connect(n, to)
    OBVIOUS
  <2>3. Opened(a, n, to, c)
    BY <2>1, <2>2, <1>1, <1>9, Connected
  <2>4. /\ a \in Seq(Conns) /\ Within(conn, a) /\ c \in Nat /\ c \notin DOMAIN conn
        /\ c \in DOMAIN a /\ to \in Two(a[c]) /\ Other(a[c], to) = n
        /\ a[c].end[n] = NewEnd("CONN_OK")
    BY <2>3 DEF Opened
  <2>5. /\ conn' = Write(a, c, to, m)
        /\ net' = [net EXCEPT ![n].hash[to] = c, ![n].list = (@ \ {hc}) \cup {c}]
    BY <2>2, <2>4, <1>2, <1>4
  <2>6. PICK h, l : /\ h = [net[n].hash EXCEPT ![to] = c]
                    /\ l = (net[n].list \ {net[n].hash[to]}) \cup {c}
    OBVIOUS
  <2>7. h \in [Node -> Nat \cup {None}] /\ l \in SUBSET Nat /\ h[to] = c
    BY <2>4, <2>6, <1>2, <1>9
  <2>8. net' = [net EXCEPT ![n].hash = h, ![n].list = l]
    <3>1. PICK x : x = [net EXCEPT ![n].hash[to] = c]
      OBVIOUS
    <3>2. net' = [x EXCEPT ![n].list = (@ \ {hc}) \cup {c}]
      BY <2>5, <3>1
    <3>3. /\ x = [net EXCEPT ![n].hash = h]
          /\ x[n].list = net[n].list
      BY <2>6, <3>1, <1>2 DEF Net
    <3>4. net' = [x EXCEPT ![n].list = l]
      BY <3>2, <3>3, <2>6 DEF hc
    <3>. QED  BY <3>3, <3>4
  <2>9. Sets(net, net', n, h, l)
    BY <2>7, <2>8, <1>2, NetSet
  <2>10. /\ net' \in [Node -> Net] /\ net'[n].hash[to] = c
         /\ Replaced(net', n, to, c)
    <3>1. net' \in [Node -> Net] /\ net'[n].hash[to] = c
      BY <2>7, <2>9 DEF Sets
    <3>2. \A q \in Node : h[q] = IF q = to THEN c ELSE net[n].hash[q]
      BY <2>6, <1>2
    <3>. QED  BY <3>1, <3>2, <2>6, <2>9 DEF Sets, Replaced
  <2>11. ASSUME left.deaths = conf.deaths
         PROVE  net[n].hash[to] = None
    <3>1. StandsIn(conn, net, got)
      BY <2>11, <1>14, <1>15 DEF CalmIn
    <3>2. SUFFICES ASSUME hc # None
                   PROVE  FALSE
      BY DEF hc
    <3>3. /\ hc \in DOMAIN conn /\ n \in Two(conn[hc]) /\ conn[hc].end[n].status # "BACKLOG"
      BY <3>2, <1>9, <1>13 DEF KnownIn, hc
    <3>4. Live(conn[hc].end[n])
      BY <3>1, <3>3 DEF StandsIn
    <3>. QED  BY <3>2, <3>3, <3>4, <1>18 DEF Live, Usable
  <2>12. /\ StreamsIn(a, conf.messages, left.todo, got) /\ KnownIn(a, net')
         /\ left.deaths = conf.deaths => CalmIn(a, net', conf.messages, left.todo, got)
    BY <2>1, <2>2, <2>10, <2>11, <1>9, ConnectedKeeps
  <2>13. GivenIn(a, conf.messages, left.todo, got)
    <3>1. \A k \in Node : \A i \in DOMAIN left.todo[k] : \E j \in DOMAIN left.todo[k] :
              left.todo[k][i] = left.todo[k][j]
      OBVIOUS
    <3>2. \A o \in conf.messages : o.from \in Node
      BY <1>3 DEF Message
    <3>. QED  BY <3>1, <3>2, <2>4, <1>13, GivenKept
  <2>14. Live(a[c].end[n])
    <3>1. PICK ok \in Status : ok = "CONN_OK"
      BY DEF Status
    <3>2. NewEnd(ok).status = ok
      BY NewEndIs
    <3>. QED  BY <3>1, <3>2, <2>4 DEF Live
  <2>15. /\ conn' \in Seq(Conns)
         /\ InOrder(conn', net', conf.messages, left'.todo, got, calm)
    <3>1. calm => CalmIn(a, net', conf.messages, left.todo, got)
      BY <2>12, <1>14
    <3>2. InOrder(a, net', conf.messages, left.todo, got, calm)
      BY <3>1, <2>12, <2>13 DEF InOrder
    <3>3. Goes(a, net', conf.messages, c, n, to, m)
      BY <2>4, <2>10, <2>14, <1>6, <1>7, <1>11 DEF Goes
    <3>4. a \in Seq(Conns) /\ conf.messages \in SUBSET Message /\ conn' = Write(a, c, to, m)
      BY <2>4, <2>5, <1>3
    <3>. QED  BY <3>2, <3>3, <3>4, <1>10, SentAll, Zenon
  <2>. QED  BY <2>10, <2>15, <1>16
<1>19. CASE ~(hc # None /\ Usable(hc, n)) /\ ~net[to].up
  <2>1. c = None
    BY <1>5, <1>19
  <2>2. conn' = conn /\ net' = net
    BY <2>1, <1>4
  <2>3. \A k \in Node : \A i \in DOMAIN left'.todo[k] : \E j \in DOMAIN left.todo[k] :
            left'.todo[k][i] = left.todo[k][j]
    BY <1>10 DEF Sends
  <2>4. GivenIn(conn, conf.messages, left'.todo, got)
    <3>1. Within(conn, conn)
      BY DEF Within
    <3>2. \A o \in conf.messages : o.from \in Node
      BY <1>3 DEF Message
    <3>. QED  BY <3>1, <3>2, <2>3, <1>13, GivenKept
  <2>5. StreamsIn(conn, conf.messages, left'.todo, got)
    <3>. SUFFICES ASSUME NEW d \in DOMAIN conn, NEW k \in Two(conn[d]), NEW p, p = Other(conn[d], k)
                  PROVE  StreamOK(conn[d].end[k], conn[d].end[p], SentBy(conf.messages, p, k),
                                  left'.todo[p], Heard(got[k], d))
      BY DEF StreamsIn
    <3>1. StreamOK(conn[d].end[k], conn[d].end[p], SentBy(conf.messages, p, k),
                   left.todo[p], Heard(got[k], d))
      BY <1>13 DEF StreamsIn
    <3>2. p \in Node
      BY <1>2, OtherOf
    <3>3. \A i \in DOMAIN left'.todo[p] : \E j \in DOMAIN left.todo[p] :
              left'.todo[p][i] = left.todo[p][j]
      BY <2>3, <3>2
    <3>. QED  BY <3>1, <3>3, StreamKept
  <2>6. ~calm
    BY <1>9, <1>15, <1>19 DEF CalmIn, StandsIn
  <2>7. InOrder(conn', net', conf.messages, left'.todo, got, calm)
    BY <2>2, <2>4, <2>5, <2>6, <1>13 DEF InOrder
  <2>. QED  BY <2>2, <2>7, <1>2, <1>16
<1>. QED  BY <1>17, <1>18, <1>19

-----------------------------------------------------------------------------
(***************************************************************************)
(* What follows.                                                           *)
(***************************************************************************)

\* In the beginning there are no connections.
LEMMA InitInv ==
    ASSUME TCPAssumption, Init
    PROVE  Inv
<1>1. /\ conf \in Scenarios /\ left = [todo |-> conf.todo, deaths |-> conf.deaths]
      /\ conn = <<>> /\ net = [n \in Node |-> NewNet] /\ got = [n \in Node |-> <<>>]
  BY DEF Init
<1>2. /\ conf.messages \subseteq Message
      /\ \A m \in conf.messages : \E i \in DOMAIN conf.todo[m.from] : conf.todo[m.from][i] = m
      /\ conf.todo \in [Node -> Seq(conf.messages)]
      /\ \A n \in Node : \A i, j \in DOMAIN conf.todo[n] :
            /\ conf.todo[n][i].from = n
            /\ i < j => conf.todo[n][i].id < conf.todo[n][j].id
      /\ conf.deaths \in [Node -> Nat]
  BY <1>1, Scenario
<1>3. left.todo = conf.todo /\ left.deaths = conf.deaths
  BY <1>1
<1>4. PICK x : x = NewNet
  OBVIOUS
<1>5. x \in Net /\ x.list = {} /\ x.up /\ \A p \in Node : x.hash[p] = None
  <2>1. PICK yes \in BOOLEAN : yes = TRUE
    OBVIOUS
  <2>2. x = [up |-> yes, hash |-> [p \in Node |-> None], list |-> {}]
    BY <1>4, <2>1 DEF NewNet
  <2>3. x \in Net /\ x.list = {} /\ x.up = yes /\ \A p \in Node : x.hash[p] = None
    BY <2>2 DEF Net
  <2>. QED  BY <2>1, <2>3
<1>6. \A n \in Node : net[n] = x
  BY <1>1, <1>4
<1>7. DOMAIN conn = {} /\ conn \in Seq(Conns)
  BY <1>1
<1>8. \A n \in Node : DOMAIN got[n] = {}
  <2>1. ASSUME NEW n \in Node
        PROVE  DOMAIN got[n] = {}
    <3>1. got[n] = <<>>
      BY <1>1
    <3>2. DOMAIN <<>> = {}
      OBVIOUS
    <3>. QED  BY <3>1, <3>2
  <2>. QED  BY <2>1
<1>9. TypeOK
  <2>1. net \in [Node -> Net]
    BY <1>1, <1>4, <1>5
  <2>2. got \in [Node -> Seq(Gift)]
    BY <1>1
  <2>3. left \in [todo : [Node -> Seq(conf.messages)], deaths : [Node -> Nat]]
    BY <1>1, <1>2
  <2>. QED  BY <1>1, <1>7, <2>1, <2>2, <2>3 DEF TypeOK
<1>10. Known
  BY <1>5, <1>6 DEF Known, KnownIn
<1>11. Pending
  <2>1. ASSUME NEW n \in Node
        PROVE  left.deaths[n] <= conf.deaths[n]
    BY <1>2, <1>3
  <2>2. \A n \in Node : \A i \in DOMAIN left.todo[n] : left.todo[n][i].from = n
    BY <1>2, <1>3
  <2>3. \A n \in Node : \A i, j \in DOMAIN left.todo[n] :
            i < j => left.todo[n][i].id < left.todo[n][j].id
    BY <1>2, <1>3
  <2>. QED  BY <2>1, <2>2, <2>3 DEF Pending
<1>12. Streams
  BY <1>7 DEF Streams, StreamsIn
<1>13. Given
  BY <1>8 DEF Given, GivenIn
<1>14. Calm
  <2>1. StandsIn(conn, net, got)
    BY <1>5, <1>6, <1>7, <1>8 DEF StandsIn
  <2>2. \A m \in conf.messages : PresentIn(conn, left.todo, got, m)
    BY <1>2, <1>3 DEF PresentIn
  <2>. QED  BY <2>1, <2>2 DEF Calm, CalmIn
<1>. QED  BY <1>9, <1>10, <1>11, <1>12, <1>13, <1>14 DEF Inv

\* Every step keeps the invariant.
LEMMA NextInv ==
    ASSUME TCPAssumption, Inv, [Next]_vars
    PROVE  Inv'
<1>1. CASE UNCHANGED vars
  <2>1. conf' = conf /\ left' = left /\ conn' = conn /\ net' = net /\ got' = got
    BY <1>1 DEF vars
  <2>. QED  BY <2>1 DEF Inv, TypeOK, Known, Pending, Streams, Given, Calm
<1>2. CASE Next
  <2>1. PICK n \in Node :
            \/ SendMessage(n) \/ GetReadyConnection(n) \/ DoWork(n)
            \/ Die(n) \/ StartListening(n)
    BY <1>2 DEF Next
  <2>2. CASE SendMessage(n)
    BY <2>2, SendKeeps
  <2>3. CASE GetReadyConnection(n)
    <3>1. PICK c \in net[n].list : PerformRead(n, c) \/ ReadClose(n, c)
      BY <2>3 DEF GetReadyConnection
    <3>. QED  BY <3>1, PerformReadKeeps, ReadCloseKeeps
  <2>4. CASE DoWork(n)
    BY <2>4, RegisterKeeps, CleanupKeeps DEF DoWork
  <2>5. CASE Die(n)
    BY <2>5, DieKeeps
  <2>6. CASE StartListening(n)
    BY <2>6, StartKeeps
  <2>. QED  BY <2>1, <2>2, <2>3, <2>4, <2>5, <2>6
<1>. QED  BY <1>1, <1>2

\* While nobody died, all messages of one sender came over one connection.
LEMMA WholeFollows ==
    ASSUME TCPAssumption, Inv
    PROVE  WholeAndInOrder
<1>1. TypeOK /\ Given /\ Calm
  BY DEF Inv
<1>2. conf.messages \in SUBSET Message
  BY <1>1, Scenario DEF TypeOK
<1>3. ASSUME NEW n \in Node, NEW i \in DOMAIN got[n]
      PROVE  LET p == got[n][i].packet IN
             p # <<>> /\ \E m \in conf.messages :
                 p = Tail(Bytes(m)) /\ m.to = n /\ m.from = Peer(got[n][i].via, n)
  <2>1. PICK m \in SentBy(conf.messages, Other(conn[got[n][i].via], n), n) :
            got[n][i].packet = Whole(m)
    BY <1>1 DEF Given, GivenIn
  <2>2. m \in conf.messages /\ m.to = n /\ m.from = Peer(got[n][i].via, n)
    BY DEF SentBy, Other, Peer
  <2>3. Whole(m) # <<>> /\ Tail(Bytes(m)) = Whole(m)
    BY <1>2, <2>2, BytesOf
  <2>. QED  BY <2>1, <2>2, <2>3
<1>4. ASSUME NEW n \in Node, NEW i \in DOMAIN got[n], NEW j \in DOMAIN got[n],
             i < j, Peer(got[n][i].via, n) = Peer(got[n][j].via, n),
             got[n][i].via = got[n][j].via \/ left.deaths = conf.deaths
      PROVE  Head(got[n][i].packet).of < Head(got[n][j].packet).of
  <2>1. ASSUME left.deaths = conf.deaths
        PROVE  got[n][i].via = got[n][j].via
    <3>1. StandsIn(conn, net, got)
      BY <1>1, <2>1 DEF Calm, CalmIn
    <3>2. /\ net[Other(conn[got[n][i].via], n)].hash[n] = got[n][i].via
          /\ net[Other(conn[got[n][j].via], n)].hash[n] = got[n][j].via
      BY <3>1 DEF StandsIn
    <3>3. Other(conn[got[n][i].via], n) = Other(conn[got[n][j].via], n)
      BY <1>4 DEF Other, Peer
    <3>. QED  BY <3>2, <3>3
  <2>2. got[n][i].via = got[n][j].via
    BY <1>4, <2>1
  <2>. QED  BY <2>2, <1>1, <1>4 DEF Given, GivenIn
<1>. QED  BY <1>3, <1>4 DEF WholeAndInOrder

\* What is present is in a connection that is read.
LEMMA NothingFollows ==
    ASSUME TCPAssumption, Inv
    PROVE  NothingStranded
<1>1. TypeOK /\ Calm
  BY DEF Inv
<1>2. conf.messages \in SUBSET Message /\ conn \in Seq(Conns)
  BY <1>1, Scenario DEF TypeOK
<1>3. ASSUME NEW m \in conf.messages, left.deaths = conf.deaths
      PROVE  \/ \E i \in DOMAIN left.todo[m.from] : left.todo[m.from][i].id = m.id
             \/ \E i \in DOMAIN got[m.to] : got[m.to][i].packet = Tail(Bytes(m))
             \/ \E c \in DOMAIN conn :
                   LET e == conn[c].end[m.to] IN
                   /\ m.to \in Ends(c)
                   /\ e.status = "BACKLOG" \/ (c \in net[m.to].list /\ Usable(c, m.to))
                   /\ \E i \in DOMAIN (e.packet \o e.unread) : (e.packet \o e.unread)[i].of = m.id
  <2>1. StandsIn(conn, net, got) /\ PresentIn(conn, left.todo, got, m)
    BY <1>1, <1>3 DEF Calm, CalmIn
  <2>2. CASE \E i \in DOMAIN left.todo[m.from] : left.todo[m.from][i] = m
    BY <2>2
  <2>3. CASE \E i \in DOMAIN got[m.to] : got[m.to][i].packet = Whole(m)
    <3>1. Tail(Bytes(m)) = Whole(m)
      BY <1>2, BytesOf
    <3>. QED  BY <2>3, <3>1
  <2>4. CASE \E c \in DOMAIN conn : m.to \in Two(conn[c]) /\ Holds(conn[c].end[m.to], m.id)
    <3>1. PICK c \in DOMAIN conn : m.to \in Two(conn[c]) /\ Holds(conn[c].end[m.to], m.id)
      BY <2>4
    <3>2. m.to \in Ends(c)
      BY <3>1 DEF Two, Ends
    <3>3. conn[c].end[m.to].status = "BACKLOG" \/ (c \in net[m.to].list /\ Usable(c, m.to))
      BY <2>1, <3>1 DEF StandsIn, Live, Usable
    <3>4. PICK e : e = conn[c].end[m.to]
      OBVIOUS
    <3>5. e \in End
      BY <1>2, <3>1, <3>4, OtherOf
    <3>6. PICK s \in Seq(Cell), t \in Seq(Cell) : s = e.packet /\ t = e.unread
      BY <3>5 DEF End
    <3>7. PICK q : q = s \o t
      OBVIOUS
    <3>8. /\ q \in Seq(Cell) /\ Len(q) = Len(s) + Len(t)
          /\ \A i \in 1 .. Len(s) + Len(t) : q[i] = IF i <= Len(s) THEN s[i] ELSE t[i - Len(s)]
      BY <3>7, ConcatProperties
    <3>9. /\ Len(s) \in Nat /\ Len(t) \in Nat /\ DOMAIN q = 1 .. Len(s) + Len(t)
      BY <3>8
    <3>10. \E i \in DOMAIN q : q[i].of = m.id
      <4>1. \/ \E i \in 1 .. Len(s) : s[i].of = m.id
            \/ \E i \in 1 .. Len(t) : t[i].of = m.id
        BY <3>1, <3>4, <3>6 DEF Holds
      <4>2. ASSUME NEW i \in 1 .. Len(s), s[i].of = m.id
            PROVE  \E j \in DOMAIN q : q[j].of = m.id
        <5>1. i \in 1 .. Len(s) + Len(t) /\ i <= Len(s)
          BY <3>9
        <5>. QED  BY <5>1, <4>2, <3>8, <3>9
      <4>3. ASSUME NEW i \in 1 .. Len(t), t[i].of = m.id
            PROVE  \E j \in DOMAIN q : q[j].of = m.id
        <5>1. PICK j \in Nat : j = Len(s) + i
          BY <3>9
        <5>2. j \in 1 .. Len(s) + Len(t) /\ ~(j <= Len(s)) /\ j - Len(s) = i
          BY <5>1, <3>9
        <5>3. q[j] = t[i]
          BY <5>2, <3>8
        <5>. QED  BY <5>2, <5>3, <4>3, <3>9
      <4>. QED  BY <4>1, <4>2, <4>3
    <3>11. conn[c].end[m.to].packet \o conn[c].end[m.to].unread = q
      BY <3>4, <3>6, <3>7
    <3>12. LET d == conn[c].end[m.to] IN
           /\ m.to \in Ends(c)
           /\ d.status = "BACKLOG" \/ (c \in net[m.to].list /\ Usable(c, m.to))
           /\ \E i \in DOMAIN (d.packet \o d.unread) : (d.packet \o d.unread)[i].of = m.id
      BY <3>2, <3>3, <3>10, <3>11, Zenon
    <3>. QED  BY <3>12, Zenon
  <2>. QED  BY <2>1, <2>2, <2>3, <2>4 DEF PresentIn
<1>. QED  BY <1>3 DEF NothingStranded

\* What GetNextMessage gives is whole, and what one node sends to another is given in the order
\* it was sent, also when the two connected to each other at the same time.
THEOREM MessagesOverTCPWholeAndInOrder ==
    ASSUME TCPAssumption
    PROVE  Spec => []WholeAndInOrder
<1>1. Init => Inv
  BY InitInv
<1>2. Inv /\ [Next]_vars => Inv'
  BY NextInv
<1>3. Inv => WholeAndInOrder
  BY WholeFollows
<1>. QED  BY <1>1, <1>2, <1>3, PTL DEF Spec

\* While no process died, no message that was sent is left in a connection nobody reads.
THEOREM MessagesOverTCPNotStranded ==
    ASSUME TCPAssumption
    PROVE  Spec => []NothingStranded
<1>1. Init => Inv
  BY InitInv
<1>2. Inv /\ [Next]_vars => Inv'
  BY NextInv
<1>3. Inv => NothingStranded
  BY NothingFollows
<1>. QED  BY <1>1, <1>2, <1>3, PTL DEF Spec
=============================================================================
