-------------------------- MODULE LoadBalanceProofs --------------------------
(***************************************************************************)
(* Who is asked to leave does so alone, and who waits to leave can still   *)
(* be answered; and the ranges of the nodes stay a partition of the        *)
(* values, but for answers on their way: for any ring, any loads and any   *)
(* number of checks, requests and losses.                                  *)
(***************************************************************************)
EXTENDS LoadBalance, TLAPS

\* A ring of distinct nodes, each with a range and a load.
BalanceAssumption ==
    /\ AbsMax \in Nat \ {0} /\ Delta \in Nat \ {0}
    /\ Order \in Seq(Node) /\ Order # <<>>
    /\ \A i, j \in DOMAIN Order : Order[i] = Order[j] => i = j
    /\ None \notin Node \cup NodeRange
    /\ \A c \in Scenarios :
          /\ c.ranges \in [Node -> NodeRange] /\ c.loads \in [Node -> Nat \ {0}]
          /\ c.light \subseteq Node
          /\ c.checks \in Nat /\ c.asks \in Nat /\ c.losses \in Nat

\* The ranges begin as a partition of the values.
WholeAssumption ==
    /\ BalanceAssumption
    /\ Len(Order) > 1
    /\ \A c \in Scenarios : \A n \in Node :
          /\ c.apart \in BOOLEAN
          /\ Cells(c.ranges[n]) # {}
          /\ \A o \in Node \ {n} : Cells(c.ranges[n]) \cap Cells(c.ranges[o]) = {}
          /\ c.ranges[n].max % AbsMax = c.ranges[Succ(n)].min % AbsMax

\* Counting on along the ring, and back.
LEMMA Remainder ==
    ASSUME NEW L \in Nat \ {0}, NEW a \in 0 .. L - 1
    PROVE  a % L = a /\ (a + L) % L = a /\ L % L = 0
OBVIOUS

\* Whose successor one is, is one's predecessor.
LEMMA Around ==
    ASSUME BalanceAssumption, NEW n \in Node
    PROVE  Succ(n) \in Node /\ Pred(n) \in Node /\ Pred(Succ(n)) = n
<1>. DEFINE L == Len(Order)
<1>1. L \in Nat \ {0} /\ DOMAIN Order = 1 .. L /\ \A i \in 1 .. L : Order[i] \in Node
  BY DEF BalanceAssumption
<1>2. \A m \in Node : Index(m) \in 1 .. L /\ Order[Index(m)] = m
  BY <1>1 DEF Node, Index
<1>. DEFINE i == Index(n)
            j == (i % L) + 1
<1>. HIDE DEF L, i
<1>3. i \in 1 .. L /\ Order[i] = n
  BY <1>2 DEF i
<1>4. (i = L => i % L = 0) /\ (i < L => i % L = i)
  <2>1. CASE i < L
    BY <1>1, <1>3, <2>1, Remainder
  <2>2. CASE i = L
    <3>1. 0 \in 0 .. L - 1
      BY <1>1
    <3>. QED  BY <1>1, <2>2, <3>1, Remainder
  <2>. QED  BY <1>1, <1>3, <2>1, <2>2
<1>5. j \in 1 .. L /\ (i < L => j = i + 1) /\ (i = L => j = 1)
  BY <1>1, <1>3, <1>4
<1>6. Succ(n) = Order[j]
  <2>1. Succ(n) = Order[(((i + 1) - 1) % L) + 1]
    BY Zenon DEF Succ, At, i, L
  <2>2. (i + 1) - 1 = i
    BY <1>3
  <2>. QED  BY <2>1, <2>2
<1>7. Index(Succ(n)) = j
  BY <1>1, <1>2, <1>5, <1>6 DEF BalanceAssumption
<1>8. Pred(Succ(n)) = Order[(((j + (L - 1)) - 1) % L) + 1]
  BY <1>7 DEF Pred, At, L
<1>9. ((j + (L - 1)) - 1) % L = i - 1
  <2>0. i - 1 \in 0 .. L - 1
    BY <1>1, <1>3
  <2>1. CASE i < L
    <3>1. (j + (L - 1)) - 1 = (i - 1) + L
      BY <1>1, <1>3, <1>5, <2>1
    <3>. QED  BY <1>1, <2>0, <3>1, Remainder
  <2>2. CASE i = L
    <3>1. (j + (L - 1)) - 1 = i - 1
      BY <1>1, <1>3, <1>5, <2>2
    <3>. QED  BY <1>1, <2>0, <3>1, Remainder
  <2>. QED  BY <1>1, <1>3, <2>1, <2>2
<1>10. Pred(n) \in Node
  <2>1. (((i + (L - 1)) - 1) % L) + 1 \in 1 .. L
    BY <1>1, <1>3
  <2>. QED  BY <1>1, <2>1 DEF Pred, At, i, L
<1>. QED  BY <1>1, <1>3, <1>5, <1>6, <1>8, <1>9, <1>10

\* Whose predecessor one is, is one's successor, and in a larger ring it is somebody else.
LEMMA AroundBack ==
    ASSUME WholeAssumption, NEW n \in Node
    PROVE  Succ(Pred(n)) = n /\ Succ(n) # n /\ Pred(n) # n
<1>. DEFINE L == Len(Order)
<1>1. L \in Nat \ {0, 1} /\ DOMAIN Order = 1 .. L /\ \A i \in 1 .. L : Order[i] \in Node
  BY DEF WholeAssumption, BalanceAssumption
<1>2. \A m \in Node : Index(m) \in 1 .. L /\ Order[Index(m)] = m
  BY <1>1 DEF Node, Index
<1>. DEFINE i == Index(n)
            j == IF i = 1 THEN L ELSE i - 1
<1>. HIDE DEF L, i
<1>3. i \in 1 .. L /\ Order[i] = n
  BY <1>2 DEF i
<1>4. Pred(n) = Order[j]
  <2>1. Pred(n) = Order[(((i + L - 1) - 1) % L) + 1]
    BY Zenon DEF Pred, At, i, L
  <2>2. CASE i = 1
    <3>1. L - 1 \in 0 .. L - 1 /\ (i + L - 1) - 1 = L - 1
      BY <1>1, <2>2
    <3>2. (L - 1) % L = L - 1
      BY <1>1, <3>1, Remainder
    <3>. QED  BY <1>1, <2>1, <2>2, <3>1, <3>2
  <2>3. CASE i # 1
    <3>1. i - 2 \in 0 .. L - 1 /\ (i + L - 1) - 1 = (i - 2) + L
      BY <1>1, <1>3, <2>3
    <3>2. ((i - 2) + L) % L = i - 2
      BY <1>1, <3>1, Remainder
    <3>. QED  BY <1>1, <1>3, <2>1, <2>3, <3>1, <3>2
  <2>. QED  BY <2>2, <2>3
<1>5. j \in 1 .. L /\ j # i
  BY <1>1, <1>3
<1>6. ASSUME NEW k \in 1 .. L  PROVE Succ(Order[k]) = Order[IF k = L THEN 1 ELSE k + 1]
  <2>1. Index(Order[k]) = k
    BY <1>1, <1>2, <1>6 DEF WholeAssumption, BalanceAssumption
  <2>2. Succ(Order[k]) = Order[(((k + 1) - 1) % L) + 1]
    BY <2>1, Zenon DEF Succ, At, L
  <2>3. (k + 1) - 1 = k
    BY <1>6
  <2>4. CASE k = L
    <3>1. 0 \in 0 .. L - 1
      BY <1>1
    <3>2. k % L = 0
      BY <1>1, <2>4, <3>1, Remainder
    <3>. QED  BY <2>2, <2>3, <2>4, <3>2
  <2>5. CASE k # L
    <3>1. k \in 0 .. L - 1
      BY <1>1, <2>5
    <3>2. k % L = k
      BY <1>1, <3>1, Remainder
    <3>. QED  BY <2>2, <2>3, <2>5, <3>2
  <2>. QED  BY <2>4, <2>5
<1>7. Succ(Pred(n)) = n
  <2>1. Succ(Order[j]) = Order[IF j = L THEN 1 ELSE j + 1]
    BY <1>5, <1>6
  <2>2. (IF j = L THEN 1 ELSE j + 1) = i
    BY <1>1, <1>3
  <2>. QED  BY <1>3, <1>4, <2>1, <2>2
<1>8. Succ(n) # n /\ Pred(n) # n
  <2>1. Succ(n) = Order[IF i = L THEN 1 ELSE i + 1]
    BY <1>3, <1>6
  <2>2. (IF i = L THEN 1 ELSE i + 1) \in 1 .. L /\ (IF i = L THEN 1 ELSE i + 1) # i
    BY <1>1, <1>3
  <2>3. \A a, b \in 1 .. L : Order[a] = Order[b] => a = b
    BY <1>1 DEF WholeAssumption, BalanceAssumption
  <2>4. Succ(n) # n
    BY <1>3, <2>1, <2>2, <2>3
  <2>. HIDE DEF j
  <2>5. Pred(n) # n
    BY <1>3, <1>4, <1>5, <2>3
  <2>. QED  BY <2>4, <2>5
<1>. QED  BY <1>7, <1>8

-----------------------------------------------------------------------------
(***************************************************************************)
(* The inductive invariant.                                                *)
(***************************************************************************)

State ==
    {"DOING_NOTHING", "SENT_REQ_LOCAL_NBR", "STARTED_LEAVE_JOIN", "WAITING_FOR_LEAVE_JOIN_RESPONSE",
     "CHECKING_SUCC", "LEFT"}

Balancer ==
    [state : State, range : NodeRange \cup {None}, load : Nat \ {0}, light : SUBSET Node,
     sentTo : Node \cup {None}, resets : Nat, answered : SUBSET Node, tracker : BOOLEAN,
     checkTimers : SUBSET Node, requestor : Node \cup {None}, unstable : BOOLEAN]

Message ==
    [type : Local, from : Node, to : Node, range : NodeRange, load : Nat \ {0}]
    \cup [type : {"LEAVEJOIN_LB_REQUEST", "LEAVEJOIN_DENIAL", "LCHECK_REQUEST"}, from : Node, to : Node]
    \cup [type : {"LCHECK_RESPONSE"}, from : Node, to : Node, ok : BOOLEAN]

Bounds == [checks : Nat, asks : Nat, losses : Nat, unheard : SUBSET Node]

TypeOK ==
    /\ conf \in Scenarios
    /\ left \in Bounds
    /\ node \in [Node -> Balancer]
    /\ net \subseteq Message

\* A successor that agreed to stay: until it is stable again it neither leaves nor asks to.
Agreed(n) == node[n].unstable /\ node[n].state \notin {"CHECKING_SUCC", "STARTED_LEAVE_JOIN"}

\* Checks are between neighbours, and who answers that it stays does.
Checks ==
    \A m \in net :
        /\ m.type = "LCHECK_REQUEST" => m.to = Succ(m.from)
        /\ m.type = "LCHECK_RESPONSE" => m.from = Succ(m.to) /\ (m.ok => Agreed(m.from))

\* The successor of a node that leaves stays.
Leaving ==
    \A n \in Node : node[n].state = "STARTED_LEAVE_JOIN" => node[n].range = None /\ Agreed(Succ(n))

\* What a busy node waits for.
Waiting ==
    \A n \in Node : LET h == node[n] IN
        /\ h.state = "SENT_REQ_LOCAL_NBR" => h.resets > 0
        /\ h.state = "WAITING_FOR_LEAVE_JOIN_RESPONSE" => h.tracker \/ h.light = {}
        /\ h.state = "CHECKING_SUCC" =>
              /\ h.range # None /\ h.requestor \in Node
              /\ Asked(n) \/ n \in left.unheard \/ node[Succ(n)].range = None

IInv == TypeOK /\ Checks /\ Leaving /\ Waiting

-----------------------------------------------------------------------------

\* The invariant is strong enough: who leaves has a successor that stays.
LEMMA InvImplies == ASSUME BalanceAssumption, IInv PROVE LeavesAlone
<1>1. NeighboursStay
  BY Around, Zenon DEF IInv, Leaving, Agreed, NeighboursStay
<1>2. WaitIsOver
  <2>. SUFFICES ASSUME NEW n \in Node
                PROVE  LET h == node[n] IN
                       CASE h.state = "SENT_REQ_LOCAL_NBR" -> h.resets > 0
                         [] h.state = "WAITING_FOR_LEAVE_JOIN_RESPONSE" -> h.tracker \/ h.light = {}
                         [] h.state = "CHECKING_SUCC" ->
                               Asked(n) \/ n \in left.unheard \/ node[Succ(n)].range = None
                         [] OTHER -> TRUE
    BY DEF WaitIsOver
  <2>1. node[n].state = "SENT_REQ_LOCAL_NBR" => node[n].resets > 0
    BY DEF IInv, Waiting
  <2>2. node[n].state = "WAITING_FOR_LEAVE_JOIN_RESPONSE" => node[n].tracker \/ node[n].light = {}
    BY DEF IInv, Waiting
  <2>3. node[n].state = "CHECKING_SUCC" =>
            Asked(n) \/ n \in left.unheard \/ node[Succ(n)].range = None
    BY DEF IInv, Waiting
  <2>. QED  BY <2>1, <2>2, <2>3
<1>. QED  BY <1>1, <1>2 DEF LeavesAlone

\* It holds of balancers that have just been made.
LEMMA InitInv == ASSUME BalanceAssumption, Init PROVE IInv
<1>1. conf \in Scenarios /\ net = {} /\ left = [checks |-> conf.checks, asks |-> conf.asks, losses |-> conf.losses,
                                                     unheard |-> {}]
      /\ node = [n \in Node |-> NewBalancer(conf, n)]
  BY DEF Init
<1>2. left \in Bounds
  BY <1>1 DEF BalanceAssumption, Bounds
<1>3. ASSUME NEW n \in Node  PROVE NewBalancer(conf, n) \in Balancer
  BY <1>1 DEF BalanceAssumption, NewBalancer, Balancer, State
<1>4. \A n \in Node : node[n].state = "DOING_NOTHING"
  BY <1>1 DEF NewBalancer
<1>. QED  BY <1>1, <1>2, <1>3, <1>4 DEF IInv, TypeOK, Checks, Leaving, Waiting

-----------------------------------------------------------------------------
(***************************************************************************)
(* One node moves.                                                         *)
(***************************************************************************)

Becomes(n, g) == node' = [node EXCEPT ![n] = g]

\* What a node that becomes g at n waits for.
Waits(n, g) ==
    /\ g.state = "SENT_REQ_LOCAL_NBR" => g.resets > 0
    /\ g.state = "WAITING_FOR_LEAVE_JOIN_RESPONSE" => g.tracker \/ g.light = {}
    /\ g.state = "CHECKING_SUCC" =>
          /\ g.range # None /\ g.requestor \in Node
          /\ Asked(n)' \/ n \in left'.unheard \/ node'[Succ(n)].range = None
    /\ g.state = "STARTED_LEAVE_JOIN" => g.range = None /\ Agreed(Succ(n))'

\* Nobody relies on the agreement of n any more.
Unneeded(n) ==
    /\ ~\E m \in net' : m.type = "LCHECK_RESPONSE" /\ m.from = n
    /\ node[Pred(n)].state # "STARTED_LEAVE_JOIN"

\* Nobody else's check is forgotten.
ChecksKept(n) ==
    \A k \in Node \ {n} : Asked(k) =>
        Asked(k)' \/ k \in left'.unheard \/ node'[Succ(k)].range = None

\* What is new among the messages.
News ==
    \A m \in net' \ net :
        /\ m.type = "LCHECK_REQUEST" => m.to = Succ(m.from)
        /\ m.type = "LCHECK_RESPONSE" => m.from = Succ(m.to) /\ (m.ok => Agreed(m.from)')

\* A step of one node that keeps its word, waits for what can come, and takes nobody
\* else's message away, is fine (all handlers and timers of LoadBalancer.cpp).
LEMMA Frame ==
    ASSUME BalanceAssumption, IInv, NEW n \in Node, NEW g \in Balancer, Becomes(n, g),
           conf' = conf, left' \in Bounds,
           left.unheard \subseteq left'.unheard, net' \subseteq Message,
           (Agreed(n) => g.unstable /\ g.state \notin {"CHECKING_SUCC", "STARTED_LEAVE_JOIN"})
           \/ Unneeded(n),
           node[n].range = None => g.range = None,
           Waits(n, g), ChecksKept(n), News
    PROVE  IInv'
<1>1. node \in [Node -> Balancer] /\ node' \in [Node -> Balancer]
      /\ node'[n] = g /\ \A k \in Node \ {n} : node'[k] = node[k]
  BY DEF IInv, TypeOK, Becomes
<1>2. TypeOK'
  BY <1>1 DEF IInv, TypeOK
<1>3. ASSUME NEW k \in Node  PROVE Succ(k) \in Node /\ (Succ(k) = n => k = Pred(n))
  BY <1>3, Around, Zenon
<1>4. ASSUME NEW k \in Node, Agreed(k), ~(k = n /\ Unneeded(n))  PROVE Agreed(k)'
  <2>1. CASE k = n
    BY <1>1, <1>4, <2>1 DEF Agreed
  <2>2. CASE k # n
    BY <1>1, <1>4, <2>2 DEF Agreed
  <2>. QED  BY <2>1, <2>2
<1>5. ASSUME NEW k \in Node, node[k].range = None  PROVE node'[k].range = None
  BY <1>1, <1>5
<1>6. Checks'
  <2>. SUFFICES ASSUME NEW m \in net'
                PROVE  /\ m.type = "LCHECK_REQUEST" => m.to = Succ(m.from)
                       /\ m.type = "LCHECK_RESPONSE" => m.from = Succ(m.to) /\ (m.ok => Agreed(m.from)')
    BY DEF Checks
  <2>1. CASE m \notin net
    BY <2>1, Zenon DEF News
  <2>2. CASE m \in net
    <3>1. /\ m.type = "LCHECK_REQUEST" => m.to = Succ(m.from)
          /\ m.type = "LCHECK_RESPONSE" => m.from = Succ(m.to) /\ (m.ok => Agreed(m.from))
      BY <2>2, Zenon DEF IInv, Checks
    <3>2. ASSUME m.type = "LCHECK_RESPONSE"  PROVE m.from \in Node /\ ~(m.from = n /\ Unneeded(n))
      BY <3>2, <2>2 DEF IInv, TypeOK, Message, Unneeded, Local
    <3>. QED  BY <3>1, <3>2, <1>4, Zenon
  <2>. QED  BY <2>1, <2>2
<1>7. Leaving'
  <2>. SUFFICES ASSUME NEW k \in Node, node'[k].state = "STARTED_LEAVE_JOIN"
                PROVE  node'[k].range = None /\ Agreed(Succ(k))'
    BY DEF Leaving
  <2>1. CASE k = n
    BY <1>1, <2>1 DEF Waits
  <2>2. CASE k # n
    <3>1. node[k].state = "STARTED_LEAVE_JOIN" /\ node[k].range = None /\ Agreed(Succ(k))
      BY <1>1, <2>2, Zenon DEF IInv, Leaving
    <3>2. ~(Succ(k) = n /\ Unneeded(n))
      BY <1>3, <3>1, Zenon DEF Unneeded
    <3>3. Succ(k) \in Node
      BY <1>3
    <3>4. Agreed(Succ(k))'
      BY <1>4, <3>1, <3>2, <3>3
    <3>5. node'[k].range = None
      BY <1>5, <3>1
    <3>. QED  BY <3>4, <3>5
  <2>. QED  BY <2>1, <2>2
<1>8. Waiting'
  <2>. SUFFICES ASSUME NEW k \in Node
                PROVE  LET h == node'[k] IN
                       /\ h.state = "SENT_REQ_LOCAL_NBR" => h.resets > 0
                       /\ h.state = "WAITING_FOR_LEAVE_JOIN_RESPONSE" => h.tracker \/ h.light = {}
                       /\ h.state = "CHECKING_SUCC" =>
                             /\ h.range # None /\ h.requestor \in Node
                             /\ Asked(k)' \/ k \in left'.unheard \/ node'[Succ(k)].range = None
    BY DEF Waiting
  <2>1. CASE k = n
    BY <1>1, <2>1, Zenon DEF Waits
  <2>2. CASE k # n
    <3>1. node'[k] = node[k]
      BY <1>1, <2>2
    <3>2. /\ node[k].state = "SENT_REQ_LOCAL_NBR" => node[k].resets > 0
          /\ node[k].state = "WAITING_FOR_LEAVE_JOIN_RESPONSE" => node[k].tracker \/ node[k].light = {}
          /\ node[k].state = "CHECKING_SUCC" =>
                /\ node[k].range # None /\ node[k].requestor \in Node
                /\ Asked(k) \/ k \in left.unheard \/ node[Succ(k)].range = None
      BY Zenon DEF IInv, Waiting
    <3>3. k \in left.unheard => k \in left'.unheard
      OBVIOUS
    <3>4. Asked(k) => Asked(k)' \/ k \in left'.unheard \/ node'[Succ(k)].range = None
      BY <2>2, Zenon DEF ChecksKept
    <3>5. node[Succ(k)].range = None => node'[Succ(k)].range = None
      BY <1>3, <1>5, Zenon
    <3>6. node[k].state = "CHECKING_SUCC" =>
              /\ node[k].range # None /\ node[k].requestor \in Node
              /\ Asked(k)' \/ k \in left'.unheard \/ node'[Succ(k)].range = None
      BY <3>2, <3>3, <3>4, <3>5, Zenon
    <3>. QED  BY <3>1, <3>2, <3>6
  <2>. QED  BY <2>1, <2>2
<1>. QED  BY <1>2, <1>6, <1>7, <1>8 DEF IInv

-----------------------------------------------------------------------------
(***************************************************************************)
(* The boundary between two neighbours.                                    *)
(***************************************************************************)

\* What a quotient is.
LEMMA Quotient ==
    ASSUME NEW y \in Nat \ {0}, NEW x \in Int
    PROVE  x \div y \in Int /\ y * (x \div y) <= x /\ x < y * (x \div y) + y
OBVIOUS

\* Two loads are shared evenly, and neither becomes zero.
LEMMA Average ==
    ASSUME NEW a \in Nat \ {0}, NEW b \in Nat \ {0}
    PROVE  (a + b) \div 2 \in Nat \ {0}
OBVIOUS

\* A product with less is less.
LEMMA Less ==
    ASSUME NEW span \in Nat, NEW l \in Nat, NEW d \in 0 .. l
    PROVE  span * d >= 0 /\ span * d <= span * l
OBVIOUS

\* A part of a span that is no more than a whole one comes to no more than its half.
LEMMA Share ==
    ASSUME NEW span \in Nat, NEW l \in Nat \ {0}, NEW d \in 0 .. l
    PROVE  (span * d) \div (2 * l) \in Nat /\ 2 * ((span * d) \div (2 * l)) <= span
<1>. DEFINE x == span * d
            y == 2 * l
            q == x \div y
<1>1. x \in Nat /\ x <= span * l
  <2>1. x >= 0 /\ x <= span * l
    BY Less
  <2>2. x \in Int
    OBVIOUS
  <2>. QED  BY <2>1, <2>2
<1>2. y \in Nat \ {0} /\ y = 2 * l
  OBVIOUS
<1>. HIDE DEF x, y
<1>3. q \in Int /\ y * q <= x /\ x < y * q + y
  <2>1. x \in Int /\ y \in Nat \ {0}
    BY <1>1, <1>2
  <2>. QED  BY <2>1, Quotient, Zenon
<1>. HIDE DEF q
<1>4. q >= 0
  <2>. SUFFICES ASSUME q <= -1 PROVE FALSE
    BY <1>3
  <2>1. y * q + y <= 0
    BY <1>2, <1>3
  <2>. QED  BY <1>1, <1>2, <1>3, <2>1
<1>5. 2 * q <= span
  <2>. SUFFICES ASSUME span < 2 * q PROVE FALSE
    BY <1>3
  <2>1. (2 * q) * l <= span * l
    <3>1. (2 * q) * l = y * q
      BY <1>2, <1>3
    <3>. QED  BY <1>1, <1>2, <1>3, <3>1
  <2>2. (2 * q - span) * l >= 1
    BY <1>3
  <2>3. (2 * q - span) * l = (2 * q) * l - span * l
    BY <1>3
  <2>. QED  BY <1>3, <2>1, <2>2, <2>3
<1>. QED  BY <1>3, <1>4, <1>5 DEF q, x, y

\* Both ranges a move makes are ranges (HandleLocalLBRequest).
LEMMA MoveOK ==
    ASSUME BalanceAssumption, NEW h \in Balancer, h.range # None, NEW m, m.range \in NodeRange,
           m.load \in Nat \ {0}, h.load >= Delta * m.load, NEW toSucc
    PROVE  Move(h, m, toSucc).mine \in NodeRange /\ Move(h, m, toSucc).yours \in NodeRange
<1>. DEFINE span == RangeSpan(h.range)
            l == h.load
            d == h.load - m.load
            change == (span * d) \div (2 * l)
<1>1. l \in Nat \ {0} /\ h.range \in NodeRange /\ AbsMax \in Nat \ {0} /\ Delta \in Nat \ {0}
  BY DEF Balancer, BalanceAssumption
<1>2. d \in 0 .. l
  <2>1. m.load <= Delta * m.load
    BY <1>1
  <2>2. Delta * m.load \in Nat
    BY <1>1
  <2>. QED  BY <1>1, <2>1, <2>2
<1>3. h.range.min \in 0 .. AbsMax /\ h.range.max \in 0 .. AbsMax
  BY <1>1 DEF NodeRange
<1>4. \/ span \in Nat /\ span <= AbsMax
      \/ span = -1 /\ h.range.min = AbsMax /\ h.range.max = 0
  BY <1>1, <1>3 DEF RangeSpan, GetSpan
<1>. HIDE DEF span, l, d
<1>5. \/ change \in 0 .. AbsMax
      \/ change = -1 /\ h.range.min = AbsMax /\ h.range.max = 0
  <2>1. CASE span \in Nat /\ span <= AbsMax
    <3>1. change \in Nat /\ 2 * change <= span
      BY <1>1, <1>2, <2>1, Share
    <3>. QED  BY <1>1, <2>1, <3>1
  <2>2. CASE span = -1 /\ h.range.min = AbsMax /\ h.range.max = 0
    <3>1. span * d = 0 - d
      BY <1>2, <2>2
    <3>2. 2 * l \in Nat \ {0} /\ 0 - d \in Int /\ 0 - d <= 0 /\ 0 - d > 0 - 2 * l
      BY <1>1, <1>2
    <3>3. change \in Int /\ (2 * l) * change <= 0 - d /\ 0 - d < (2 * l) * change + 2 * l
      BY <3>1, <3>2, Quotient
    <3>. HIDE DEF change
    <3>4. change <= 0
      BY <1>1, <3>2, <3>3
    <3>5. change >= -1
      <4>. SUFFICES ASSUME change <= -2 PROVE FALSE
        BY <3>3
      <4>1. (2 * l) * change <= (2 * l) * (-2)
        BY <1>1, <3>3
      <4>. QED  BY <1>1, <3>2, <3>3, <4>1
    <3>. QED  BY <1>1, <2>2, <3>3, <3>4, <3>5
  <2>. QED  BY <1>4, <2>1, <2>2
<1>. HIDE DEF change
<1>. DEFINE max == h.range.max - change
            min == h.range.min + change
            curmax == IF max < 0 THEN max + AbsMax ELSE max
            curmin == IF min > AbsMax THEN min - AbsMax ELSE min
<1>6. curmax \in 0 .. AbsMax /\ curmin \in 0 .. AbsMax
  BY <1>1, <1>3, <1>5
<1>7. Move(h, m, toSucc) =
        IF toSucc THEN [mine  |-> [h.range EXCEPT !.max = curmax],
                        yours |-> [min |-> curmax, max |-> m.range.max]]
                  ELSE [mine  |-> [h.range EXCEPT !.min = curmin],
                        yours |-> [min |-> m.range.min, max |-> curmin]]
  BY Zenon DEF Move, change, l, d, span
<1>. HIDE DEF curmax, curmin
<1>8. [h.range EXCEPT !.max = curmax] \in NodeRange /\ [h.range EXCEPT !.min = curmin] \in NodeRange
      /\ [min |-> curmax, max |-> m.range.max] \in NodeRange
      /\ [min |-> m.range.min, max |-> curmin] \in NodeRange
  BY <1>1, <1>6 DEF NodeRange
<1>. QED  BY <1>7, <1>8

-----------------------------------------------------------------------------
(***************************************************************************)
(* Steps that leave the checks between neighbours alone.                   *)
(***************************************************************************)

IsCheck(m) == m.type \in {"LCHECK_REQUEST", "LCHECK_RESPONSE"}
Quiet == \A m \in net \cup net' : IsCheck(m) => m \in net /\ m \in net'

\* A step that makes and takes no check changes nothing of what is asked.
LEMMA QuietChecks ==
    ASSUME Quiet
    PROVE  News /\ \A k \in Node : Asked(k) <=> Asked(k)'
<1>1. News
  BY DEF Quiet, News, IsCheck
<1>2. ASSUME NEW k \in Node  PROVE Asked(k) <=> Asked(k)'
  BY DEF Quiet, IsCheck, Asked, Asks
<1>. QED  BY <1>1, <1>2

\* A step of one node beside the checks: it does not begin to leave or to ask, and keeps
\* what it has agreed to.
LEMMA QuietFrame ==
    ASSUME BalanceAssumption, IInv, NEW n \in Node, NEW g \in Balancer, Becomes(n, g), Quiet,
           conf' = conf, left' \in Bounds,
           left.unheard \subseteq left'.unheard, net' \subseteq Message,
           (g.unstable <=> node[n].unstable) \/ Unneeded(n),
           node[n].range = None <=> g.range = None,
           g.state = "SENT_REQ_LOCAL_NBR" => g.resets > 0,
           g.state = "WAITING_FOR_LEAVE_JOIN_RESPONSE" => g.tracker \/ g.light = {},
           g.state = "CHECKING_SUCC" =>
               node[n].state = "CHECKING_SUCC" /\ g.requestor = node[n].requestor,
           g.state = "STARTED_LEAVE_JOIN" => node[n].state = "STARTED_LEAVE_JOIN"
    PROVE  IInv'
<1>1. node \in [Node -> Balancer] /\ node'[n] = g /\ \A k \in Node \ {n} : node'[k] = node[k]
  BY DEF IInv, TypeOK, Becomes
<1>2. (Agreed(n) => g.unstable /\ g.state \notin {"CHECKING_SUCC", "STARTED_LEAVE_JOIN"})
      \/ Unneeded(n)
  BY DEF Agreed
<1>3. News /\ (\A k \in Node : Asked(k) <=> Asked(k)') /\ ChecksKept(n)
  BY QuietChecks DEF ChecksKept
<1>4. Succ(n) \in Node
  BY Around
<1>5. node[Succ(n)].range = None => node'[Succ(n)].range = None
  BY <1>1, <1>4
<1>6. ASSUME g.state = "CHECKING_SUCC"
      PROVE  /\ g.range # None /\ g.requestor \in Node
             /\ Asked(n)' \/ n \in left'.unheard \/ node'[Succ(n)].range = None
  <2>1. /\ node[n].range # None /\ node[n].requestor \in Node
        /\ Asked(n) \/ n \in left.unheard \/ node[Succ(n)].range = None
    BY <1>6, Zenon DEF IInv, Waiting
  <2>2. n \in left.unheard => n \in left'.unheard
    OBVIOUS
  <2>. QED  BY <1>3, <1>5, <1>6, <2>1, <2>2
<1>7. ASSUME g.state = "STARTED_LEAVE_JOIN"  PROVE g.range = None /\ Agreed(Succ(n))'
  <2>1. node[n].state = "STARTED_LEAVE_JOIN"
    BY <1>7
  <2>2. node[n].range = None /\ Agreed(Succ(n))
    BY <2>1, Zenon DEF IInv, Leaving
  <2>3. Succ(n) # n
    BY <2>1, <2>2 DEF Agreed
  <2>4. node'[Succ(n)] = node[Succ(n)]
    BY <1>1, <1>4, <2>3
  <2>. QED  BY <2>2, <2>4 DEF Agreed
<1>8. Waits(n, g)
  BY <1>6, <1>7 DEF Waits
<1>. QED  BY <1>2, <1>3, <1>8, Frame

-----------------------------------------------------------------------------
(***************************************************************************)
(* Between neighbours.                                                     *)
(***************************************************************************)

\* What is known of a node and of a message.
LEMMA Known ==
    ASSUME IInv
    PROVE  /\ \A n \in Node : node[n] \in Balancer /\ node[n].state \in State
           /\ conf \in Scenarios /\ net \subseteq Message
           /\ left \in Bounds
           /\ \A m \in net :
                 /\ m.from \in Node /\ m.to \in Node
                 /\ m.type \in Local => m.range \in NodeRange /\ m.load \in Nat \ {0}
BY DEF IInv, TypeOK, Balancer, Message, Local

\* A request to a neighbour starts its timer.
LEMMA DoLocalInv ==
    ASSUME BalanceAssumption, IInv, NEW n \in Node, DoLocalLoadBalance(n)
    PROVE  IInv'
<1>1. PICK to \in {Succ(n), Pred(n)} :
         /\ net' = net \cup {[type |-> "LOCAL_LB_REQUEST", from |-> n, to |-> to,
                              range |-> node[n].range, load |-> node[n].load]}
         /\ node' = [node EXCEPT ![n].state = "SENT_REQ_LOCAL_NBR", ![n].sentTo = to,
                                 ![n].resets = @ + 1]
  BY DEF DoLocalLoadBalance
<1>2. /\ left.checks > 0 /\ left' = [left EXCEPT !.checks = @ - 1] /\ conf' = conf
      /\ node[n].range # None
  BY DEF DoLocalLoadBalance
<1>. DEFINE k == node[n].resets + 1
            g == [node[n] EXCEPT !.state = "SENT_REQ_LOCAL_NBR", !.sentTo = to, !.resets = k]
            req == [type |-> "LOCAL_LB_REQUEST", from |-> n, to |-> to,
                    range |-> node[n].range, load |-> node[n].load]
<1>3. to \in Node /\ node[n] \in Balancer
  BY <1>1, Around, Known
<1>31. k \in Nat /\ k > 0
  BY <1>3 DEF Balancer
<1>5. Becomes(n, g)
  BY <1>1, Known DEF Becomes, IInv, TypeOK
<1>. HIDE DEF k
<1>4. g \in Balancer
  BY <1>3, <1>31 DEF Balancer, State
<1>6. req \in Message /\ ~IsCheck(req)
  BY <1>2, <1>3 DEF Balancer, Message, Local, IsCheck
<1>7. net' \subseteq Message /\ Quiet
  BY <1>1, <1>6, Known DEF Quiet
<1>8. left' \in Bounds /\ left.unheard \subseteq left'.unheard
  BY <1>2, Known DEF Bounds
<1>9. /\ g.unstable = node[n].unstable /\ g.range = node[n].range
      /\ g.state = "SENT_REQ_LOCAL_NBR" /\ g.resets > 0
  BY <1>3, <1>31 DEF Balancer
<1>. HIDE DEF g
<1>. QED  BY <1>2, <1>4, <1>5, <1>7, <1>8, <1>9, QuietFrame

\* A reset ends whatever the node waited for.
LEMMA ResetInv ==
    ASSUME BalanceAssumption, IInv, NEW n \in Node, ResetLocalState(n)
    PROVE  IInv'
<1>. DEFINE k == node[n].resets - 1
            g == [node[n] EXCEPT !.state = "DOING_NOTHING", !.sentTo = None, !.resets = k]
<1>1. node[n] \in Balancer
  BY Known
<1>3. Becomes(n, g) /\ net' = net /\ conf' = conf /\ left' = left
  BY Known DEF ResetLocalState, Becomes, IInv, TypeOK
<1>31. k \in Nat
  BY <1>1 DEF ResetLocalState, Balancer
<1>. HIDE DEF k
<1>2. g \in Balancer /\ g.state = "DOING_NOTHING" /\ g.range = node[n].range /\ g.unstable = node[n].unstable
  BY <1>1, <1>31 DEF Balancer, State
<1>4. Quiet /\ net' \subseteq Message /\ left' \in Bounds
      /\ left.unheard \subseteq left'.unheard
  BY <1>3, Known DEF Quiet
<1>. HIDE DEF g
<1>. QED  BY <1>2, <1>3, <1>4, QuietFrame

\* An answer that is forgotten is of no concern to checks.
LEMMA ForgetInv ==
    ASSUME BalanceAssumption, IInv, NEW n \in Node, ForgetAnswer(n)
    PROVE  IInv'
<1>1. PICK m \in node[n].answered : node' = [node EXCEPT ![n].answered = @ \ {m}]
  BY DEF ForgetAnswer
<1>. DEFINE g == [node[n] EXCEPT !.answered = @ \ {m}]
<1>2. node[n] \in Balancer
  BY Known
<1>3. g \in Balancer /\ g.state = node[n].state /\ g.range = node[n].range /\ g.unstable = node[n].unstable
      /\ g.resets = node[n].resets /\ g.tracker = node[n].tracker /\ g.light = node[n].light
      /\ g.requestor = node[n].requestor
  BY <1>2 DEF Balancer, State
<1>4. Becomes(n, g) /\ net' = net /\ conf' = conf /\ left' = left
  BY <1>1, Known DEF ForgetAnswer, Becomes, IInv, TypeOK
<1>5. Quiet /\ net' \subseteq Message /\ left' \in Bounds
      /\ left.unheard \subseteq left'.unheard
  BY <1>4, Known DEF Quiet
<1>6. /\ g.state = "SENT_REQ_LOCAL_NBR" => g.resets > 0
      /\ g.state = "WAITING_FOR_LEAVE_JOIN_RESPONSE" => g.tracker \/ g.light = {}
  BY <1>3 DEF IInv, Waiting
<1>. HIDE DEF g
<1>. QED  BY <1>3, <1>4, <1>5, <1>6, QuietFrame

\* A message that is no check is dropped or added, and no node changes.
LEMMA QuietIdle ==
    ASSUME BalanceAssumption, IInv, NEW n \in Node, node' = node, Quiet,
           conf' = conf, left' \in Bounds,
           left.unheard \subseteq left'.unheard, net' \subseteq Message
    PROVE  IInv'
<1>. DEFINE g == node[n]
<1>1. g \in Balancer /\ Becomes(n, g)
  BY Known DEF IInv, TypeOK, Becomes
<1>2. /\ g.state = "SENT_REQ_LOCAL_NBR" => g.resets > 0
      /\ g.state = "WAITING_FOR_LEAVE_JOIN_RESPONSE" => g.tracker \/ g.light = {}
  BY DEF IInv, Waiting
<1>3. /\ g.unstable = node[n].unstable /\ g.range = node[n].range /\ g.state = node[n].state
      /\ g.requestor = node[n].requestor
  OBVIOUS
<1>. HIDE DEF g
<1>. QED  BY <1>1, <1>2, <1>3, QuietFrame

\* A range that moves stays a range, and a check that is asked for stays so.
LEMMA LocalRequestInv ==
    ASSUME BalanceAssumption, IInv, NEW m \in net, HandleLocalLBRequest(m)
    PROVE  IInv'
<1>. DEFINE n == m.to
            h == node[n]
            next == m.from = Succ(n)
            moved == Move(h, m, next)
            load == (h.load + m.load) \div 2
            mine == moved.mine
            heard == h.answered \cup {m.from}
            resp == [type |-> "LOCAL_LB_RESPONSE", from |-> n, to |-> m.from,
                     range |-> moved.yours, load |-> load]
<1>1. /\ m.type = "LOCAL_LB_REQUEST" /\ m.type \in Local /\ n \in Node /\ m.from \in Node
      /\ m.range \in NodeRange /\ m.load \in Nat \ {0} /\ h \in Balancer /\ ~IsCheck(m)
  BY Known DEF HandleLocalLBRequest, Local, IsCheck
<1>2. conf' = conf /\ left' = left
  BY DEF HandleLocalLBRequest
<1>3. left' \in Bounds /\ left.unheard \subseteq left'.unheard
  BY <1>2, Known
<1>4. CASE ~Accepts(h, m)
  <2>1. net' = net \ {m} /\ node' = node
    BY <1>4 DEF HandleLocalLBRequest
  <2>2. Quiet /\ net' \subseteq Message
    BY <1>1, <2>1, Known DEF Quiet
  <2>. QED  BY <1>1, <1>2, <1>3, <2>1, <2>2, QuietIdle
<1>5. CASE Accepts(h, m)
  <2>1. /\ node' = [node EXCEPT ![n].range = mine, ![n].load = load, ![n].answered = @ \cup {m.from}]
        /\ net' = (net \ {m}) \cup {resp}
    BY <1>5, Zenon DEF HandleLocalLBRequest
  <2>2. h.range # None /\ h.load >= Delta * m.load
    BY <1>5 DEF Accepts
  <2>3. mine \in NodeRange /\ moved.yours \in NodeRange
    <3>. HIDE DEF next, h, n
    <3>. QED  BY <1>1, <2>2, MoveOK, Zenon
  <2>4. load \in Nat \ {0}
    <3>1. h.load \in Nat \ {0}
      BY <1>1 DEF Balancer
    <3>. HIDE DEF h
    <3>. QED  BY <1>1, <3>1, Average
  <2>5. mine # None
    BY <2>3 DEF BalanceAssumption
  <2>. HIDE DEF load, mine, moved
  <2>. DEFINE g == [h EXCEPT !.range = mine, !.load = load, !.answered = heard]
  <2>6. Becomes(n, g)
    BY <1>1, <2>1, Known DEF Becomes, IInv, TypeOK
  <2>7. heard \subseteq Node
    BY <1>1 DEF Balancer
  <2>. HIDE DEF heard
  <2>8. g \in Balancer
    BY <1>1, <2>3, <2>4, <2>7 DEF Balancer
  <2>9. /\ g.unstable = h.unstable /\ g.range # None /\ g.state = h.state /\ g.requestor = h.requestor
        /\ g.resets = h.resets /\ g.tracker = h.tracker /\ g.light = h.light
    BY <1>1, <2>5 DEF Balancer
  <2>10. /\ g.state = "SENT_REQ_LOCAL_NBR" => g.resets > 0
         /\ g.state = "WAITING_FOR_LEAVE_JOIN_RESPONSE" => g.tracker \/ g.light = {}
    BY <1>1, <2>9 DEF IInv, Waiting
  <2>11. resp \in Message /\ ~IsCheck(resp)
    BY <1>1, <2>3, <2>4 DEF Message, Local, IsCheck
  <2>12. Quiet /\ net' \subseteq Message
    BY <1>1, <2>1, <2>11, Known DEF Quiet
  <2>. HIDE DEF g, n
  <2>13. g.unstable <=> node[n].unstable
    BY <2>9
  <2>. QED  BY <1>1, <1>2, <1>3, <2>2, <2>6, <2>8, <2>9, <2>10, <2>12, <2>13, QuietFrame
<1>. QED  BY <1>4, <1>5

\* So it does where the answer comes; the node is idle then.
LEMMA LocalResponseInv ==
    ASSUME BalanceAssumption, IInv, NEW m \in net, HandleLocalLBResponse(m)
    PROVE  IInv'
<1>. DEFINE n == m.to
            h == node[n]
            taken == h.range # None /\ h.state = "SENT_REQ_LOCAL_NBR" /\ h.sentTo = m.from
            g == [h EXCEPT !.range = m.range, !.load = m.load, !.sentTo = None, !.state = "DOING_NOTHING"]
<1>1. /\ m.type = "LOCAL_LB_RESPONSE" /\ m.type \in Local /\ n \in Node
      /\ m.range \in NodeRange /\ m.load \in Nat \ {0} /\ h \in Balancer /\ ~IsCheck(m)
  BY Known DEF HandleLocalLBResponse, Local, IsCheck
<1>2. conf' = conf /\ left' = left /\ net' = net \ {m}
  BY DEF HandleLocalLBResponse
<1>3. left' \in Bounds /\ left.unheard \subseteq left'.unheard
      /\ Quiet /\ net' \subseteq Message
  BY <1>1, <1>2, Known DEF Quiet
<1>4. CASE ~taken
  <2>1. node' = node
    BY <1>4 DEF HandleLocalLBResponse
  <2>. QED  BY <1>1, <1>2, <1>3, <2>1, QuietIdle
<1>5. CASE taken
  <2>1. node' = [node EXCEPT ![n].range = m.range, ![n].load = m.load,
                             ![n].sentTo = None, ![n].state = "DOING_NOTHING"]
    BY <1>5, Zenon DEF HandleLocalLBResponse
  <2>2. Becomes(n, g)
    BY <1>1, <2>1, Known DEF Becomes, IInv, TypeOK
  <2>3. g \in Balancer /\ g.unstable = h.unstable /\ g.range # None /\ g.state = "DOING_NOTHING"
    BY <1>1 DEF Balancer, State, BalanceAssumption
  <2>4. h.range # None
    BY <1>5
  <2>. HIDE DEF g
  <2>. QED  BY <1>1, <1>2, <1>3, <2>2, <2>3, <2>4, QuietFrame
<1>. QED  BY <1>4, <1>5

-----------------------------------------------------------------------------
(***************************************************************************)
(* Who is asked to leave.                                                  *)
(***************************************************************************)

\* A message about leaving is one, and is no check unless it is between neighbours.
LEMMA MsgOK ==
    ASSUME NEW t \in {"LEAVEJOIN_LB_REQUEST", "LEAVEJOIN_DENIAL", "LCHECK_REQUEST"},
           NEW a \in Node, NEW b \in Node
    PROVE  /\ Msg(t, a, b) \in Message /\ Msg(t, a, b).type = t
           /\ Msg(t, a, b).from = a /\ Msg(t, a, b).to = b
           /\ t # "LCHECK_REQUEST" => ~IsCheck(Msg(t, a, b))
BY DEF Msg, Message, IsCheck

\* Asking a light node starts the tracker, whoever is asked.
LEMMA AskInv ==
    ASSUME BalanceAssumption, IInv, NEW n \in Node, NEW candidates \in SUBSET Node,
           NEW state \in {"WAITING_FOR_LEAVE_JOIN_RESPONSE", node[n].state}, NEW others, others \subseteq net, \A m \in net : IsCheck(m) => m \in others,
           Ask(n, state, candidates, others), conf' = conf,
           left' \in Bounds, left.unheard \subseteq left'.unheard
    PROVE  IInv'
<1>. DEFINE yes == TRUE
<1>1. PICK c \in candidates :
        /\ node' = [node EXCEPT ![n].state = state, ![n].light = @ \ {c}, ![n].tracker = yes]
        /\ net' = others \cup {Msg("LEAVEJOIN_LB_REQUEST", n, c)}
  BY Zenon DEF Ask
<1>2. yes \in BOOLEAN /\ yes
  OBVIOUS
<1>. HIDE DEF yes
<1>. DEFINE rest == node[n].light \ {c}
            g == [node[n] EXCEPT !.state = state, !.light = rest, !.tracker = yes]
<1>3. node[n] \in Balancer /\ state \in State
  BY Known DEF State
<1>4. Becomes(n, g)
  BY <1>1, Known DEF Becomes, IInv, TypeOK
<1>5. rest \subseteq Node
  BY <1>3 DEF Balancer
<1>. HIDE DEF rest
<1>6. /\ g \in Balancer /\ g.state = state /\ g.tracker = yes /\ g.resets = node[n].resets
      /\ g.range = node[n].range /\ g.unstable = node[n].unstable /\ g.requestor = node[n].requestor
  BY <1>2, <1>3, <1>5 DEF Balancer
<1>7. Msg("LEAVEJOIN_LB_REQUEST", n, c) \in Message /\ ~IsCheck(Msg("LEAVEJOIN_LB_REQUEST", n, c))
  BY MsgOK
<1>8. net' \subseteq Message /\ Quiet
  BY <1>1, <1>7, Known DEF Quiet
<1>. HIDE DEF g
<1>9. /\ g.tracker /\ (g.unstable <=> node[n].unstable)
      /\ g.state = "SENT_REQ_LOCAL_NBR" => g.resets > 0
  BY <1>2, <1>6 DEF IInv, Waiting
<1>10. /\ g.state = "CHECKING_SUCC" => node[n].state = "CHECKING_SUCC"
       /\ g.state = "STARTED_LEAVE_JOIN" => node[n].state = "STARTED_LEAVE_JOIN"
  BY <1>6
<1>. QED  BY <1>4, <1>6, <1>8, <1>9, <1>10, QuietFrame

\* A heavy node that asks for the first time waits, with a tracker.
LEMMA DoRemoteInv ==
    ASSUME BalanceAssumption, IInv, NEW n \in Node, DoRemoteLoadBalance(n)
    PROVE  IInv'
<1>1. /\ Ask(n, "WAITING_FOR_LEAVE_JOIN_RESPONSE", node[n].light, net) /\ conf' = conf
      /\ left.asks > 0 /\ left' = [left EXCEPT !.asks = @ - 1]
  BY DEF DoRemoteLoadBalance
<1>2. node[n].light \subseteq Node
  BY Known DEF Balancer
<1>3. left' \in Bounds /\ left.unheard \subseteq left'.unheard
  BY <1>1, Known DEF Bounds
<1>. QED  BY <1>1, <1>2, <1>3, AskInv

\* Without its tracker a node does not wait for a denial any more.
LEMMA TrackerInv ==
    ASSUME BalanceAssumption, IInv, NEW n \in Node, TrackerTimeout(n)
    PROVE  IInv'
<1>. DEFINE no == FALSE
            s == IF node[n].state = "WAITING_FOR_LEAVE_JOIN_RESPONSE" THEN "DOING_NOTHING" ELSE node[n].state
            g == [node[n] EXCEPT !.tracker = no, !.state = s]
<1>1. /\ node' = [node EXCEPT ![n].tracker = no, ![n].state = s]
      /\ conf' = conf /\ left' = left /\ net' = net
  BY Known DEF TrackerTimeout, IInv, TypeOK
<1>2. no \in BOOLEAN
  OBVIOUS
<1>3. node[n] \in Balancer /\ node[n].state \in State
  BY Known
<1>4. s \in State /\ s # "WAITING_FOR_LEAVE_JOIN_RESPONSE" /\ (s # "DOING_NOTHING" => s = node[n].state)
  BY <1>3 DEF State
<1>. HIDE DEF no, s
<1>5. Becomes(n, g)
  BY <1>1, Known DEF Becomes, IInv, TypeOK
<1>6. /\ g \in Balancer /\ g.state = s /\ g.resets = node[n].resets /\ g.requestor = node[n].requestor
      /\ g.range = node[n].range /\ g.unstable = node[n].unstable
  BY <1>2, <1>3, <1>4 DEF Balancer
<1>7. Quiet /\ net' \subseteq Message /\ left' \in Bounds
      /\ left.unheard \subseteq left'.unheard
  BY <1>1, Known DEF Quiet
<1>8. g.state = "SENT_REQ_LOCAL_NBR" => g.resets > 0
  BY <1>4, <1>6 DEF IInv, Waiting
<1>. HIDE DEF g
<1>. QED  BY <1>1, <1>4, <1>5, <1>6, <1>7, <1>8, QuietFrame

\* A denied node asks again, is idle, or has nobody left to ask.
LEMMA DenialInv ==
    ASSUME BalanceAssumption, IInv, NEW m \in net, HandleLeaveJoinDenial(m)
    PROVE  IInv'
<1>. DEFINE n == m.to
            others == node[n].light \ {m.from}
            no == FALSE
<1>1. /\ m.type = "LEAVEJOIN_DENIAL" /\ n \in Node /\ ~IsCheck(m) /\ node[n] \in Balancer
      /\ conf' = conf /\ left' = left
  BY Known DEF HandleLeaveJoinDenial, IsCheck
<1>2. left' \in Bounds /\ left.unheard \subseteq left'.unheard
  BY <1>1, Known
<1>3. net' = net \ {m} => Quiet /\ net' \subseteq Message
  BY <1>1, Known DEF Quiet
<1>4. no \in BOOLEAN
  OBVIOUS
<1>5. \/ net' = net \ {m} /\ node' = node
      \/ net' = net \ {m} /\ node' = [node EXCEPT ![n].tracker = no, ![n].state = "DOING_NOTHING"]
      \/ node[n].light = {} /\ net' = net \ {m} /\ node' = [node EXCEPT ![n].tracker = no]
      \/ Ask(n, node[n].state, others, net \ {m})
  BY Zenon DEF HandleLeaveJoinDenial
<1>. HIDE DEF no
<1>6. CASE net' = net \ {m} /\ node' = node
  BY <1>1, <1>2, <1>3, <1>6, QuietIdle
<1>7. CASE net' = net \ {m} /\ node' = [node EXCEPT ![n].tracker = no, ![n].state = "DOING_NOTHING"]
  <2>. DEFINE g == [node[n] EXCEPT !.tracker = no, !.state = "DOING_NOTHING"]
  <2>1. Becomes(n, g)
    BY <1>1, <1>7, Known DEF Becomes, IInv, TypeOK
  <2>2. /\ g \in Balancer /\ g.state = "DOING_NOTHING"
        /\ g.range = node[n].range /\ g.unstable = node[n].unstable
    BY <1>1, <1>4 DEF Balancer, State
  <2>. HIDE DEF g, n
  <2>. QED  BY <1>1, <1>2, <1>3, <1>7, <2>1, <2>2, QuietFrame
<1>8. CASE node[n].light = {} /\ net' = net \ {m} /\ node' = [node EXCEPT ![n].tracker = no]
  <2>. DEFINE g == [node[n] EXCEPT !.tracker = no]
  <2>1. Becomes(n, g)
    BY <1>1, <1>8, Known DEF Becomes, IInv, TypeOK
  <2>2. /\ g \in Balancer /\ g.state = node[n].state /\ g.resets = node[n].resets /\ g.light = node[n].light
        /\ g.range = node[n].range /\ g.unstable = node[n].unstable /\ g.requestor = node[n].requestor
    BY <1>1, <1>4 DEF Balancer, State
  <2>3. /\ g.state = "SENT_REQ_LOCAL_NBR" => g.resets > 0
        /\ g.light = {}
    BY <1>1, <1>8, <2>2 DEF IInv, Waiting
  <2>. HIDE DEF g, n
  <2>. QED  BY <1>1, <1>2, <1>3, <1>8, <2>1, <2>2, <2>3, QuietFrame
<1>9. CASE Ask(n, node[n].state, others, net \ {m})
  <2>1. others \subseteq Node
    BY <1>1 DEF Balancer
  <2>2. net \ {m} \subseteq net /\ \A x \in net : IsCheck(x) => x \in net \ {m}
    BY <1>1
  <2>. HIDE DEF others, n
  <2>. QED  BY <1>1, <1>2, <1>9, <2>1, <2>2, AskInv
<1>. QED  BY <1>5, <1>6, <1>7, <1>8, <1>9

\* A denial that a timer sends does not end the check.
LEMMA ExpiredInv ==
    ASSUME BalanceAssumption, IInv, NEW n \in Node, LeaveCheckExpired(n)
    PROVE  IInv'
<1>1. PICK r \in node[n].checkTimers :
        /\ node' = [node EXCEPT ![n].checkTimers = @ \ {r}] /\ conf' = conf /\ left' = left
        /\ net' = IF node[n].state = "CHECKING_SUCC"
                  THEN net \cup {Msg("LEAVEJOIN_DENIAL", n, r)} ELSE net
  BY Zenon DEF LeaveCheckExpired
<1>. DEFINE rest == node[n].checkTimers \ {r}
            g == [node[n] EXCEPT !.checkTimers = rest]
            denial == Msg("LEAVEJOIN_DENIAL", n, r)
<1>3. node[n] \in Balancer
  BY Known
<1>2. rest \subseteq Node /\ r \in Node
  BY <1>3 DEF Balancer
<1>4. Becomes(n, g)
  BY <1>1, Known DEF Becomes, IInv, TypeOK
<1>. HIDE DEF rest
<1>5. /\ g \in Balancer /\ g.state = node[n].state /\ g.resets = node[n].resets /\ g.light = node[n].light
      /\ g.range = node[n].range /\ g.unstable = node[n].unstable /\ g.requestor = node[n].requestor
      /\ g.tracker = node[n].tracker
  BY <1>2, <1>3 DEF Balancer, State
<1>6. denial \in Message /\ ~IsCheck(denial)
  BY <1>2, MsgOK
<1>7. Quiet /\ net' \subseteq Message /\ left' \in Bounds
      /\ left.unheard \subseteq left'.unheard
  BY <1>1, <1>6, Known DEF Quiet
<1>8. /\ g.state = "SENT_REQ_LOCAL_NBR" => g.resets > 0
      /\ g.state = "WAITING_FOR_LEAVE_JOIN_RESPONSE" => g.tracker \/ g.light = {}
  BY <1>5 DEF IInv, Waiting
<1>. HIDE DEF g
<1>. QED  BY <1>1, <1>4, <1>5, <1>7, <1>8, QuietFrame

\* Who has left holds no range and is not waited for.
LEMMA LeftInv ==
    ASSUME BalanceAssumption, IInv, NEW n \in Node, Left(n)
    PROVE  IInv'
<1>. DEFINE g == [node[n] EXCEPT !.state = "LEFT"]
<1>1. node' = [node EXCEPT ![n].state = "LEFT"] /\ conf' = conf /\ left' = left /\ net' = net
  BY DEF Left
<1>2. node[n] \in Balancer
  BY Known
<1>3. Becomes(n, g)
  BY <1>1, Known DEF Becomes, IInv, TypeOK
<1>4. /\ g \in Balancer /\ g.state = "LEFT" /\ g.range = node[n].range /\ g.unstable = node[n].unstable
  BY <1>2 DEF Balancer, State
<1>5. Quiet /\ net' \subseteq Message /\ left' \in Bounds
      /\ left.unheard \subseteq left'.unheard
  BY <1>1, Known DEF Quiet
<1>. HIDE DEF g
<1>. QED  BY <1>1, <1>3, <1>4, <1>5, QuietFrame

\* A node becomes stable when nobody it agreed with is still to leave.
LEMMA MakeStableInv ==
    ASSUME BalanceAssumption, IInv, NEW n \in Node, MakeStable(n)
    PROVE  IInv'
<1>. DEFINE no == FALSE
            g == [node[n] EXCEPT !.unstable = no]
<1>1. /\ node' = [node EXCEPT ![n].unstable = no] /\ conf' = conf /\ left' = left /\ net' = net
      /\ ~Sent({"LCHECK_RESPONSE"}, n) /\ node[Pred(n)].state # "STARTED_LEAVE_JOIN"
  BY Zenon DEF MakeStable
<1>2. no \in BOOLEAN
  OBVIOUS
<1>3. node[n] \in Balancer
  BY Known
<1>. HIDE DEF no
<1>4. Becomes(n, g)
  BY <1>1, Known DEF Becomes, IInv, TypeOK
<1>5. /\ g \in Balancer /\ g.state = node[n].state /\ g.resets = node[n].resets /\ g.light = node[n].light
      /\ g.range = node[n].range /\ g.requestor = node[n].requestor /\ g.tracker = node[n].tracker
  BY <1>2, <1>3 DEF Balancer, State
<1>6. Unneeded(n)
  BY <1>1 DEF Unneeded, Sent
<1>7. Quiet /\ net' \subseteq Message /\ left' \in Bounds
      /\ left.unheard \subseteq left'.unheard
  BY <1>1, Known DEF Quiet
<1>8. /\ g.state = "SENT_REQ_LOCAL_NBR" => g.resets > 0
      /\ g.state = "WAITING_FOR_LEAVE_JOIN_RESPONSE" => g.tracker \/ g.light = {}
  BY <1>5 DEF IInv, Waiting
<1>. HIDE DEF g
<1>. QED  BY <1>1, <1>4, <1>5, <1>6, <1>7, <1>8, QuietFrame

-----------------------------------------------------------------------------
(***************************************************************************)
(* Checks.                                                                 *)
(***************************************************************************)

\* A node that is asked to leave asks its successor first.
LEMMA LeaveJoinRequestInv ==
    ASSUME BalanceAssumption, IInv, NEW m \in net, HandleLeaveJoinLBRequest(m)
    PROVE  IInv'
<1>. DEFINE n == m.to
            h == node[n]
            req == Msg("LCHECK_REQUEST", n, Succ(n))
            denial == Msg("LEAVEJOIN_DENIAL", n, m.from)
<1>1. /\ n \in Node /\ m.from \in Node /\ ~IsCheck(m) /\ h \in Balancer
      /\ conf' = conf /\ left' = left
  BY Known DEF HandleLeaveJoinLBRequest, IsCheck
<1>2. left' \in Bounds /\ left.unheard \subseteq left'.unheard
  BY <1>1, Known
<1>3. \/ net' = net \ {m} /\ node' = node
      \/ net' = (net \ {m}) \cup {denial} /\ node' = node
      \/ /\ h.range # None /\ ~IsLoadBalanceOngoing(h) /\ ~h.unstable
         /\ net' = (net \ {m}) \cup {req}
         /\ node' = [node EXCEPT ![n].state = "CHECKING_SUCC", ![n].requestor = m.from,
                                 ![n].checkTimers = @ \cup {m.from}]
  BY Zenon DEF HandleLeaveJoinLBRequest, Deny
<1>4. CASE net' = net \ {m} /\ node' = node
  <2>1. Quiet /\ net' \subseteq Message
    BY <1>1, <1>4, Known DEF Quiet
  <2>. QED  BY <1>1, <1>2, <1>4, <2>1, QuietIdle
<1>5. CASE net' = (net \ {m}) \cup {denial} /\ node' = node
  <2>1. denial \in Message /\ ~IsCheck(denial)
    BY <1>1, MsgOK
  <2>2. Quiet /\ net' \subseteq Message
    BY <1>1, <1>5, <2>1, Known DEF Quiet
  <2>. QED  BY <1>1, <1>2, <1>5, <2>2, QuietIdle
<1>6. CASE /\ h.range # None /\ ~IsLoadBalanceOngoing(h) /\ ~h.unstable
           /\ net' = (net \ {m}) \cup {req}
           /\ node' = [node EXCEPT ![n].state = "CHECKING_SUCC", ![n].requestor = m.from,
                                   ![n].checkTimers = @ \cup {m.from}]
  <2>. DEFINE timers == h.checkTimers \cup {m.from}
              g == [h EXCEPT !.state = "CHECKING_SUCC", !.requestor = m.from, !.checkTimers = timers]
  <2>1. timers \subseteq Node
    BY <1>1 DEF Balancer
  <2>2. Becomes(n, g)
    BY <1>1, <1>6, Known DEF Becomes, IInv, TypeOK
  <2>. HIDE DEF timers
  <2>3. /\ g \in Balancer /\ g.state = "CHECKING_SUCC" /\ g.requestor \in Node /\ g.range # None
    BY <1>1, <1>6, <2>1 DEF Balancer, State
  <2>a. Succ(n) \in Node
    BY <1>1, Around
  <2>4. req \in Message /\ req.type = "LCHECK_REQUEST" /\ req.from = n /\ req.to = Succ(n)
    <3>. HIDE DEF n
    <3>. QED  BY <1>1, <2>a, MsgOK
  <2>. HIDE DEF req
  <2>5. net' \subseteq Message
    BY <1>6, <2>4, Known
  <2>6. News
    BY <1>6, <2>4 DEF News
  <2>7. \A k \in Node : Asked(k) => Asked(k)'
    BY <1>1, <1>6 DEF Asked, Asks, IsCheck
  <2>8. Asked(n)'
    BY <1>6, <2>4 DEF Asked, Asks
  <2>9. ChecksKept(n)
    BY <2>7 DEF ChecksKept
  <2>10. ~Agreed(n)
    BY <1>6 DEF Agreed
  <2>11. Waits(n, g)
    BY <2>3, <2>8 DEF Waits
  <2>12. node[n].range # None
    BY <1>6
  <2>. HIDE DEF g, n, h
  <2>. QED  BY <1>1, <1>2, <2>2, <2>3, <2>5, <2>6, <2>9, <2>10, <2>11, <2>12, Frame
<1>. QED  BY <1>3, <1>4, <1>5, <1>6

\* A successor that agrees is unstable, and neither leaves nor checks.
LEMMA CheckRequestInv ==
    ASSUME BalanceAssumption, IInv, NEW m \in net, HandleLeaveCheckRequest(m)
    PROVE  IInv'
<1>. DEFINE n == m.to
            h == node[n]
            Ok(agrees) == agrees /\ ~IsLoadBalanceOngoing(h) /\ ~h.unstable
            Resp(agrees) == [type |-> "LCHECK_RESPONSE", from |-> n, to |-> m.from, ok |-> Ok(agrees)]
<1>0. PICK agrees \in BOOLEAN :
         /\ net' = (net \ {m}) \cup IF h.range = None THEN {} ELSE {Resp(agrees)}
         /\ node' = IF h.range # None /\ Ok(agrees) THEN [node EXCEPT ![n].unstable = TRUE] ELSE node
  BY Zenon DEF HandleLeaveCheckRequest
<1>. DEFINE ok == Ok(agrees)
            resp == Resp(agrees)
            yes == TRUE
            g == IF h.range # None /\ ok THEN [h EXCEPT !.unstable = yes] ELSE h
<1>1. /\ m.type = "LCHECK_REQUEST" /\ n \in Node /\ m.from \in Node /\ h \in Balancer
      /\ n = Succ(m.from)
  BY Known DEF HandleLeaveCheckRequest, IInv, Checks
<1>2. /\ conf' = conf /\ left' = left
      /\ net' = (net \ {m}) \cup IF h.range = None THEN {} ELSE {resp}
  BY <1>0, Zenon DEF HandleLeaveCheckRequest
<1>3. node' = IF h.range # None /\ ok THEN [node EXCEPT ![n].unstable = yes] ELSE node
  BY <1>0, Zenon
<1>4. left' \in Bounds /\ left.unheard \subseteq left'.unheard
  BY <1>2, Known
<1>5. ok \in BOOLEAN /\ yes \in BOOLEAN /\ (ok => h.state \notin {"CHECKING_SUCC", "STARTED_LEAVE_JOIN"}) /\ yes
  BY DEF IsLoadBalanceOngoing, DoingRemoteOps
<1>. HIDE DEF ok, yes, Ok, Resp
<1>6. Becomes(n, g)
  BY <1>1, <1>3, Known DEF Becomes, IInv, TypeOK
<1>7. /\ g \in Balancer /\ g.state = h.state /\ g.resets = h.resets /\ g.light = h.light
      /\ g.range = h.range /\ g.requestor = h.requestor /\ g.tracker = h.tracker
      /\ g.unstable = h.unstable \/ g.unstable = yes
  BY <1>1, <1>5 DEF Balancer
<1>8. h.range # None /\ ok => g.unstable = yes
  BY <1>1 DEF Balancer
<1>9. resp \in Message /\ resp.type = "LCHECK_RESPONSE" /\ resp.from = n /\ resp.to = m.from /\ resp.ok = ok
  BY <1>1, <1>5 DEF Message, ok, Resp
<1>. HIDE DEF resp, g
<1>10. net' \subseteq Message
  BY <1>2, <1>9, Known
<1>11. node \in [Node -> Balancer] /\ node'[n] = g /\ \A k \in Node \ {n} : node'[k] = node[k]
  BY <1>1, <1>6 DEF Becomes, IInv, TypeOK
<1>12. News
  <2>. SUFFICES ASSUME NEW x \in net' \ net
                PROVE  /\ x.type = "LCHECK_REQUEST" => x.to = Succ(x.from)
                       /\ x.type = "LCHECK_RESPONSE" => x.from = Succ(x.to) /\ (x.ok => Agreed(x.from)')
    BY DEF News
  <2>1. x = resp /\ h.range # None
    BY <1>2
  <2>2. ASSUME ok  PROVE Agreed(n)'
    <3>1. node'[n].unstable = yes /\ node'[n].state = h.state
      BY <1>7, <1>8, <1>11, <2>1, <2>2
    <3>. QED  BY <1>5, <2>2, <3>1 DEF Agreed
  <2>. QED  BY <1>1, <1>9, <2>1, <2>2
<1>13. ASSUME NEW k \in Node, Asked(k)
       PROVE  Asked(k)' \/ node'[Succ(k)].range = None
  <2>1. PICK x \in net : \/ x.type = "LCHECK_REQUEST" /\ x.from = k
                         \/ x.type = "LCHECK_RESPONSE" /\ x.to = k
    BY <1>13 DEF Asked, Asks
  <2>2. CASE x # m
    <3>1. x \in net'
      BY <1>2, <2>2
    <3>. QED  BY <2>1, <3>1 DEF Asked, Asks
  <2>3. CASE x = m
    <3>1. k = m.from
      BY <1>1, <2>1, <2>3
    <3>2. CASE h.range = None
      <4>1. node'[n].range = None
        BY <1>7, <1>11, <3>2
      <4>. QED  BY <1>1, <3>1, <4>1
    <3>3. CASE h.range # None
      <4>1. resp \in net'
        BY <1>2, <3>3
      <4>. QED  BY <1>9, <3>1, <4>1 DEF Asked, Asks
    <3>. QED  BY <3>2, <3>3
  <2>. QED  BY <2>2, <2>3
<1>14. ChecksKept(n)
  BY <1>13 DEF ChecksKept
<1>15. Agreed(n) => g.unstable /\ g.state \notin {"CHECKING_SUCC", "STARTED_LEAVE_JOIN"}
  BY <1>5, <1>7 DEF Agreed
<1>16. Waits(n, g)
  <2>1. /\ g.state = "SENT_REQ_LOCAL_NBR" => g.resets > 0
        /\ g.state = "WAITING_FOR_LEAVE_JOIN_RESPONSE" => g.tracker \/ g.light = {}
    BY <1>1, <1>7 DEF IInv, Waiting
  <2>2. ASSUME g.state = "CHECKING_SUCC"
        PROVE  /\ g.range # None /\ g.requestor \in Node
               /\ Asked(n)' \/ n \in left'.unheard \/ node'[Succ(n)].range = None
    <3>1. /\ h.range # None /\ h.requestor \in Node
          /\ Asked(n) \/ n \in left.unheard \/ node[Succ(n)].range = None
      BY <1>1, <1>7, <2>2 DEF IInv, Waiting
    <3>2. node[Succ(n)].range = None => node'[Succ(n)].range = None
      BY <1>1, <1>7, <1>11, Around
    <3>. QED  BY <1>1, <1>2, <1>7, <1>13, <3>1, <3>2
  <2>3. ASSUME g.state = "STARTED_LEAVE_JOIN"  PROVE g.range = None /\ Agreed(Succ(n))'
    <3>1. node[n].range = None /\ Agreed(Succ(n)) /\ Succ(n) \in Node
      BY <1>1, <1>7, <2>3, Around DEF IInv, Leaving
    <3>2. Succ(n) # n
      BY <1>7, <2>3, <3>1 DEF Agreed
    <3>3. node'[Succ(n)] = node[Succ(n)]
      BY <1>11, <3>1, <3>2
    <3>. QED  BY <1>7, <3>1, <3>3 DEF Agreed
  <2>. QED  BY <2>1, <2>2, <2>3 DEF Waits
<1>17. node[n].range = None => g.range = None
  BY <1>7
<1>. HIDE DEF n, h
<1>. QED  BY <1>1, <1>2, <1>4, <1>6, <1>7, <1>10, <1>12, <1>14, <1>15, <1>16, <1>17, Frame

\* Who leaves has the word of a successor that stays.
LEMMA CheckResponseInv ==
    ASSUME BalanceAssumption, IInv, NEW m \in net, HandleLeaveCheckResponse(m)
    PROVE  IInv'
<1>. DEFINE n == m.to
            h == node[n]
            denial == Msg("LEAVEJOIN_DENIAL", n, h.requestor)
            waiting == h.range # None /\ h.state = "CHECKING_SUCC"
            g == IF ~waiting THEN h
                 ELSE IF m.ok THEN [h EXCEPT !.state = "STARTED_LEAVE_JOIN", !.range = None, !.requestor = None]
                 ELSE [h EXCEPT !.state = "DOING_NOTHING", !.requestor = None]
<1>1. /\ m.type = "LCHECK_RESPONSE" /\ n \in Node /\ m.from \in Node /\ h \in Balancer
      /\ m.from = Succ(n) /\ (m.ok => Agreed(Succ(n)))
  BY Known DEF HandleLeaveCheckResponse, IInv, Checks
<1>2. /\ conf' = conf /\ left' = left
      /\ net' = (net \ {m}) \cup IF waiting /\ ~m.ok THEN {denial} ELSE {}
  BY Zenon DEF HandleLeaveCheckResponse
<1>3. node' = IF ~waiting THEN node
              ELSE IF m.ok THEN [node EXCEPT ![n].state = "STARTED_LEAVE_JOIN",
                                             ![n].range = None, ![n].requestor = None]
              ELSE [node EXCEPT ![n].state = "DOING_NOTHING", ![n].requestor = None]
  BY Zenon DEF HandleLeaveCheckResponse
<1>4. left' \in Bounds /\ left.unheard \subseteq left'.unheard
  BY <1>2, Known
<1>5. Becomes(n, g)
  BY <1>1, <1>3, Known DEF Becomes, IInv, TypeOK
<1>6. /\ g \in Balancer
      /\ ~waiting => g = h
      /\ waiting /\ m.ok => g.state = "STARTED_LEAVE_JOIN" /\ g.range = None
      /\ waiting /\ ~m.ok => g.state = "DOING_NOTHING"
      /\ g.unstable = h.unstable
  BY <1>1 DEF Balancer, State
<1>7. waiting => h.requestor \in Node
  BY <1>1 DEF IInv, Waiting
<1>8. h.state = "CHECKING_SUCC" => waiting
  BY <1>1 DEF IInv, Waiting
<1>9. waiting => denial \in Message /\ ~IsCheck(denial)
  BY <1>1, <1>7, MsgOK
<1>. HIDE DEF g, denial
<1>10. net' \subseteq Message
  BY <1>2, <1>9, Known
<1>11. node \in [Node -> Balancer] /\ node'[n] = g /\ \A k \in Node \ {n} : node'[k] = node[k]
  BY <1>1, <1>5 DEF Becomes, IInv, TypeOK
<1>12. News
  BY <1>2, <1>9 DEF News, IsCheck
<1>13. ChecksKept(n)
  <2>. SUFFICES ASSUME NEW k \in Node \ {n}, Asked(k)  PROVE Asked(k)'
    BY DEF ChecksKept
  <2>1. PICK x \in net : \/ x.type = "LCHECK_REQUEST" /\ x.from = k
                         \/ x.type = "LCHECK_RESPONSE" /\ x.to = k
    BY DEF Asked, Asks
  <2>2. x \in net'
    BY <1>1, <1>2, <2>1
  <2>. QED  BY <2>1, <2>2 DEF Asked, Asks
<1>14. Agreed(n) => g.unstable /\ g.state \notin {"CHECKING_SUCC", "STARTED_LEAVE_JOIN"}
  BY <1>1, <1>6 DEF Agreed
<1>15. node[n].range = None => g.range = None
  BY <1>6
<1>16. Waits(n, g)
  <2>1. CASE ~waiting
    <3>1. /\ h.state = "SENT_REQ_LOCAL_NBR" => h.resets > 0
          /\ h.state = "WAITING_FOR_LEAVE_JOIN_RESPONSE" => h.tracker \/ h.light = {}
          /\ h.state # "CHECKING_SUCC"
          /\ h.state = "STARTED_LEAVE_JOIN" => h.range = None /\ Agreed(Succ(n))
      BY <1>1, <1>8, <2>1 DEF IInv, Waiting, Leaving
    <3>2. h.state = "STARTED_LEAVE_JOIN" => Agreed(Succ(n))'
      <4>. SUFFICES ASSUME h.state = "STARTED_LEAVE_JOIN"  PROVE Agreed(Succ(n))'
        OBVIOUS
      <4>1. Succ(n) # n
        BY <3>1 DEF Agreed
      <4>2. node'[Succ(n)] = node[Succ(n)]
        BY <1>1, <1>11, <4>1
      <4>. QED  BY <3>1, <4>2 DEF Agreed
    <3>3. g = h
      BY <1>6, <2>1
    <3>. QED  BY <3>1, <3>2, <3>3 DEF Waits
  <2>2. CASE waiting /\ m.ok
    <3>1. Succ(n) # n
      BY <1>1, <2>2 DEF Agreed
    <3>2. node'[Succ(n)] = node[Succ(n)]
      BY <1>1, <1>11, <3>1
    <3>3. Agreed(Succ(n))'
      BY <1>1, <2>2, <3>2 DEF Agreed
    <3>. QED  BY <1>6, <2>2, <3>3 DEF Waits
  <2>3. CASE waiting /\ ~m.ok
    BY <1>6, <2>3 DEF Waits
  <2>. QED  BY <2>1, <2>2, <2>3
<1>. HIDE DEF n, h, waiting
<1>. QED  BY <1>1, <1>2, <1>4, <1>5, <1>6, <1>10, <1>12, <1>13, <1>14, <1>15, <1>16, Frame

\* Whose check is lost is recorded.
LEMMA LoseInv ==
    ASSUME BalanceAssumption, IInv, NEW m \in net, Lose(m)
    PROVE  IInv'
<1>. DEFINE n == m.to
            g == node[n]
            lost == {k \in Node : Asks(m, k)}
<1>1. /\ n \in Node /\ g \in Balancer /\ conf' = conf /\ node' = node /\ net' = net \ {m}
      /\ left.losses > 0 /\ left' = [left EXCEPT !.losses = @ - 1, !.unheard = @ \cup lost]
  BY Known DEF Lose
<1>2. left' \in Bounds /\ left'.unheard = left.unheard \cup lost
  <2>1. left \in Bounds /\ lost \subseteq Node
    BY Known
  <2>2. left.losses - 1 \in Nat /\ left.unheard \cup lost \in SUBSET Node
    BY <1>1, <2>1 DEF Bounds
  <2>. HIDE DEF lost
  <2>3. left' = [left EXCEPT !.losses = left.losses - 1, !.unheard = left.unheard \cup lost]
    BY <1>1, Zenon
  <2>. QED  BY <2>1, <2>2, <2>3 DEF Bounds
<1>3. left.unheard \subseteq left'.unheard
      /\ \A k \in Node : Asked(k) => Asked(k)' \/ k \in left'.unheard
  <2>. SUFFICES ASSUME NEW k \in Node, Asked(k), k \notin lost  PROVE Asked(k)'
    BY <1>2
  <2>1. PICK x \in net : Asks(x, k)
    BY DEF Asked
  <2>2. x # m
    BY <2>1
  <2>3. x \in net'
    BY <1>1, <2>2
  <2>. QED  BY <2>1, <2>3 DEF Asked, Asks
<1>4. Becomes(n, g)
  BY <1>1 DEF Becomes, IInv, TypeOK
<1>5. net' \subseteq Message /\ News /\ ChecksKept(n)
  BY <1>1, <1>3, Known DEF News, ChecksKept
<1>6. Agreed(n) => g.unstable /\ g.state \notin {"CHECKING_SUCC", "STARTED_LEAVE_JOIN"}
  BY DEF Agreed
<1>7. Waits(n, g)
  <2>1. /\ g.state = "SENT_REQ_LOCAL_NBR" => g.resets > 0
        /\ g.state = "WAITING_FOR_LEAVE_JOIN_RESPONSE" => g.tracker \/ g.light = {}
        /\ g.state = "CHECKING_SUCC" => g.range # None /\ g.requestor \in Node
        /\ g.state = "STARTED_LEAVE_JOIN" => g.range = None /\ Agreed(Succ(n))
    BY <1>1 DEF IInv, Waiting, Leaving
  <2>2. Agreed(Succ(n)) => Agreed(Succ(n))'
    BY <1>1 DEF Agreed
  <2>3. g.state = "CHECKING_SUCC" =>
            Asked(n)' \/ n \in left'.unheard \/ node'[Succ(n)].range = None
    <3>. SUFFICES ASSUME g.state = "CHECKING_SUCC"
                  PROVE  Asked(n)' \/ n \in left'.unheard \/ node'[Succ(n)].range = None
      OBVIOUS
    <3>1. Asked(n) \/ n \in left.unheard \/ node[Succ(n)].range = None
      BY <1>1, Zenon DEF IInv, Waiting
    <3>. QED  BY <1>1, <1>3, <3>1
  <2>. HIDE DEF g, n
  <2>. QED  BY <2>1, <2>2, <2>3 DEF Waits
<1>8. node[n].range = None => g.range = None
  OBVIOUS
<1>. HIDE DEF g, n, lost
<1>. QED  BY <1>1, <1>2, <1>3, <1>4, <1>5, <1>6, <1>7, <1>8, Frame

\* Every step preserves the invariant.
LEMMA NextInv == ASSUME BalanceAssumption, IInv, [Next]_vars PROVE IInv'
<1>1. CASE UNCHANGED vars
  BY <1>1 DEF vars, IInv, TypeOK, Checks, Leaving, Waiting, Agreed, Asked, Asks
<1>2. ASSUME NEW n \in Node, CheckLoadBalance(n)  PROVE IInv'
  BY <1>2, DoLocalInv, DoRemoteInv, Zenon DEF CheckLoadBalance
<1>3. ASSUME NEW n \in Node, ResetLocalState(n) \/ ForgetAnswer(n) \/ TrackerTimeout(n)
                             \/ LeaveCheckExpired(n) \/ Left(n) \/ MakeStable(n)
      PROVE  IInv'
  BY <1>3, ResetInv, ForgetInv, TrackerInv, ExpiredInv, LeftInv, MakeStableInv, Zenon
<1>4. ASSUME NEW m \in net, ProcessMessage(m)  PROVE IInv'
  BY <1>4, LocalRequestInv, LocalResponseInv, LeaveJoinRequestInv, DenialInv, CheckRequestInv,
     CheckResponseInv, Zenon DEF ProcessMessage
<1>5. ASSUME NEW m \in net, Lose(m)  PROVE IInv'
  BY <1>5, LoseInv, Zenon
<1>. QED  BY <1>1, <1>2, <1>3, <1>4, <1>5, Zenon DEF Next

-----------------------------------------------------------------------------
(***************************************************************************)
(* Arcs of the circle.                                                     *)
(***************************************************************************)

\* The values from a on to b, and how many they are; the two ends of the circle are one point.
Arc(a, b) == {v \in 0 .. AbsMax - 1 : IF a > b THEN a <= v \/ v < b ELSE a <= v /\ v < b}
Size(a, b) == IF a > b THEN AbsMax - a + b ELSE b - a
Point(x) == IF x = AbsMax THEN 0 ELSE x

\* Sizes and points are numbers of the circle; only the whole circle is longer than its points tell.
LEMMA Points ==
    ASSUME AbsMax \in Nat \ {0}, NEW a \in 0 .. AbsMax, NEW b \in 0 .. AbsMax
    PROVE  /\ Point(a) \in 0 .. AbsMax - 1 /\ Point(a) \in 0 .. AbsMax /\ Point(Point(a)) = Point(a)
           /\ Size(a, b) \in 0 .. AbsMax
           /\ Size(Point(a), Point(b)) \in 0 .. AbsMax - 1
           /\ Size(Point(a), Point(a)) = 0
           /\ \/ Size(a, b) = Size(Point(a), Point(b))
              \/ Size(a, b) = AbsMax /\ Size(Point(a), Point(b)) = 0
BY DEF Point, Size

\* A value is in an arc if the way to it from the arc's start is shorter than the arc.
LEMMA InArc ==
    ASSUME AbsMax \in Nat \ {0}, NEW a \in 0 .. AbsMax, NEW b \in 0 .. AbsMax, NEW v \in 0 .. AbsMax - 1
    PROVE  v \in Arc(a, b) <=> Size(Point(a), v) < Size(a, b)
BY DEF Arc, Size, Point

\* Ways add up, around the circle.
LEMMA Ways ==
    ASSUME AbsMax \in Nat \ {0}, NEW x \in 0 .. AbsMax - 1, NEW y \in 0 .. AbsMax - 1, NEW z \in 0 .. AbsMax - 1
    PROVE  /\ Size(x, y) \in 0 .. AbsMax - 1
           /\ Size(x, y) + Size(y, z) = Size(x, z) \/ Size(x, y) + Size(y, z) = Size(x, z) + AbsMax
BY DEF Size

\* An arc, and the one that begins where it ends, do not go around more than once if they are apart.
LEMMA Room ==
    ASSUME AbsMax \in Nat \ {0}, NEW a \in 0 .. AbsMax, NEW b \in 0 .. AbsMax, NEW d \in 0 .. AbsMax,
           Size(a, b) > 0, Arc(a, b) \cap Arc(Point(b), Point(d)) = {}
    PROVE  Size(a, b) + Size(Point(b), Point(d)) <= AbsMax
<1>. DEFINE x == Point(a)  y == Point(b)  z == Point(d)
<1>1. x \in 0 .. AbsMax - 1 /\ y \in 0 .. AbsMax - 1 /\ z \in 0 .. AbsMax - 1
      /\ y \in 0 .. AbsMax /\ z \in 0 .. AbsMax /\ Point(y) = y /\ Size(x, x) = 0
      /\ Size(x, y) \in 0 .. AbsMax - 1 /\ Size(y, z) \in 0 .. AbsMax - 1
  BY Points
<1>2. Size(a, b) = Size(x, y) \/ (Size(a, b) = AbsMax /\ Size(x, y) = 0)
  BY Points
<1>. HIDE DEF x, y, z
<1>3. x \in Arc(a, b)
  BY <1>1, InArc DEF x
<1>4. ~(Size(y, x) < Size(y, z))
  <2>1. x \notin Arc(y, z)
    BY <1>3 DEF y, z
  <2>. QED  BY <1>1, <2>1, InArc
<1>5. Size(x, y) + Size(y, x) = Size(x, x) \/ Size(x, y) + Size(y, x) = Size(x, x) + AbsMax
  BY <1>1, Ways
<1>6. Size(y, x) \in 0 .. AbsMax - 1
  BY <1>1, Ways
<1>. QED  BY <1>1, <1>2, <1>4, <1>5, <1>6 DEF y, z

\* The same, from the other side.
LEMMA RoomBefore ==
    ASSUME AbsMax \in Nat \ {0}, NEW b \in 0 .. AbsMax, NEW d \in 0 .. AbsMax, NEW e \in 0 .. AbsMax,
           Arc(Point(b), Point(d)) \cap Arc(d, e) = {}
    PROVE  Size(Point(b), Point(d)) + Size(d, e) <= AbsMax
<1>. DEFINE x == Point(b)  y == Point(d)
<1>1. x \in 0 .. AbsMax - 1 /\ y \in 0 .. AbsMax - 1
      /\ y \in 0 .. AbsMax /\ x \in 0 .. AbsMax /\ Point(x) = x /\ Size(x, x) = 0
      /\ Size(x, y) \in 0 .. AbsMax - 1 /\ Size(d, e) \in 0 .. AbsMax
  BY Points
<1>. HIDE DEF x, y
<1>2. CASE Size(x, y) = 0
  BY <1>1, <1>2 DEF x, y
<1>3. CASE Size(x, y) > 0
  <2>1. x \in Arc(x, y)
    BY <1>1, <1>3, InArc
  <2>2. ~(Size(y, x) < Size(d, e))
    <3>1. x \notin Arc(d, e)
      BY <2>1 DEF x, y
    <3>. QED  BY <1>1, <3>1, InArc DEF y
  <2>3. Size(x, y) + Size(y, x) = Size(x, x) \/ Size(x, y) + Size(y, x) = Size(x, x) + AbsMax
    BY <1>1, Ways
  <2>4. Size(y, x) \in 0 .. AbsMax - 1
    BY <1>1, Ways
  <2>. QED  BY <1>1, <1>3, <2>2, <2>3, <2>4 DEF x, y
<1>. QED  BY <1>1, <1>2, <1>3

\* A range that gives up a part at its end leaves a gap.
LEMMA ShrinkMax ==
    ASSUME AbsMax \in Nat \ {0}, NEW a \in 0 .. AbsMax, NEW b \in 0 .. AbsMax,
           NEW c \in 0 .. AbsMax, NEW d \in 0 .. AbsMax,
           Size(a, c) > 0, Size(a, c) <= Size(a, b), Arc(a, b) \cap Arc(Point(b), Point(d)) = {}
    PROVE  /\ Arc(a, c) \subseteq Arc(a, b)
           /\ Arc(Point(c), Point(d)) \subseteq Arc(a, b) \cup Arc(Point(b), Point(d))
           /\ Arc(a, c) \cap Arc(Point(c), Point(d)) = {}
<1>. DEFINE w == Point(a)  x == Point(b)  y == Point(c)  z == Point(d)
            A == Size(a, b)  C == Size(a, c)  G == Size(x, z)  H == Size(y, z)
<1>1. w \in 0 .. AbsMax - 1 /\ x \in 0 .. AbsMax - 1 /\ y \in 0 .. AbsMax - 1 /\ z \in 0 .. AbsMax - 1
      /\ x \in 0 .. AbsMax /\ y \in 0 .. AbsMax /\ z \in 0 .. AbsMax /\ Point(x) = x /\ Point(y) = y
  BY Points
<1>2. /\ A \in 0 .. AbsMax /\ C \in 1 .. AbsMax /\ C <= A
      /\ A = Size(w, x) \/ (A = AbsMax /\ Size(w, x) = 0)
      /\ C = Size(w, y) \/ (C = AbsMax /\ Size(w, y) = 0)
  BY Points
<1>3. A + G <= AbsMax
  <2>1. A > 0
    BY <1>2
  <2>. QED  BY <2>1, Room
<1>. SUFFICES ASSUME NEW v \in 0 .. AbsMax - 1
              PROVE  /\ v \in Arc(a, c) => v \in Arc(a, b)
                     /\ v \in Arc(y, z) => v \in Arc(a, b) \/ v \in Arc(x, z)
                     /\ ~(v \in Arc(a, c) /\ v \in Arc(y, z))
  BY DEF Arc
<1>4. /\ v \in Arc(a, c) <=> Size(w, v) < C
      /\ v \in Arc(a, b) <=> Size(w, v) < A
      /\ v \in Arc(y, z) <=> Size(y, v) < H
      /\ v \in Arc(x, z) <=> Size(x, v) < G
  BY <1>1, InArc
<1>. HIDE DEF w, x, y, z
<1>5. /\ Size(w, x) + Size(x, z) = Size(w, z) \/ Size(w, x) + Size(x, z) = Size(w, z) + AbsMax
      /\ Size(w, y) + Size(y, z) = Size(w, z) \/ Size(w, y) + Size(y, z) = Size(w, z) + AbsMax
      /\ Size(w, x) + Size(x, v) = Size(w, v) \/ Size(w, x) + Size(x, v) = Size(w, v) + AbsMax
      /\ Size(w, y) + Size(y, v) = Size(w, v) \/ Size(w, y) + Size(y, v) = Size(w, v) + AbsMax
  BY <1>1, Ways
<1>6. /\ Size(w, x) \in 0 .. AbsMax - 1 /\ Size(w, y) \in 0 .. AbsMax - 1 /\ Size(w, z) \in 0 .. AbsMax - 1
      /\ Size(w, v) \in 0 .. AbsMax - 1 /\ Size(x, v) \in 0 .. AbsMax - 1 /\ Size(y, v) \in 0 .. AbsMax - 1
      /\ G \in 0 .. AbsMax - 1 /\ H \in 0 .. AbsMax - 1
  BY <1>1, Ways
<1>. HIDE DEF A, C
<1>. QED  BY <1>2, <1>3, <1>4, <1>5, <1>6

\* A range that gives up a part at its beginning leaves a gap.
LEMMA ShrinkMin ==
    ASSUME AbsMax \in Nat \ {0}, NEW d \in 0 .. AbsMax, NEW e \in 0 .. AbsMax,
           NEW c \in 0 .. AbsMax, NEW b \in 0 .. AbsMax,
           Size(c, e) > 0, Size(c, e) <= Size(d, e), Arc(Point(b), Point(d)) \cap Arc(d, e) = {}
    PROVE  /\ Arc(c, e) \subseteq Arc(d, e)
           /\ Arc(Point(b), Point(c)) \subseteq Arc(d, e) \cup Arc(Point(b), Point(d))
           /\ Arc(c, e) \cap Arc(Point(b), Point(c)) = {}
<1>. DEFINE w == Point(e)  x == Point(b)  y == Point(c)  z == Point(d)
            A == Size(d, e)  C == Size(c, e)  G == Size(x, z)  H == Size(x, y)
<1>1. w \in 0 .. AbsMax - 1 /\ x \in 0 .. AbsMax - 1 /\ y \in 0 .. AbsMax - 1 /\ z \in 0 .. AbsMax - 1
      /\ x \in 0 .. AbsMax /\ y \in 0 .. AbsMax /\ z \in 0 .. AbsMax /\ Point(x) = x /\ Point(y) = y
  BY Points
<1>2. /\ A \in 0 .. AbsMax /\ C \in 1 .. AbsMax /\ C <= A
      /\ A = Size(z, w) \/ (A = AbsMax /\ Size(z, w) = 0)
      /\ C = Size(y, w) \/ (C = AbsMax /\ Size(y, w) = 0)
  BY Points
<1>3. A + G <= AbsMax
  <2>1. G + A <= AbsMax
    BY RoomBefore
  <2>2. G \in 0 .. AbsMax - 1
    BY Points
  <2>. QED  BY <1>2, <2>1, <2>2
<1>. SUFFICES ASSUME NEW v \in 0 .. AbsMax - 1
              PROVE  /\ v \in Arc(c, e) => v \in Arc(d, e)
                     /\ v \in Arc(x, y) => v \in Arc(d, e) \/ v \in Arc(x, z)
                     /\ ~(v \in Arc(c, e) /\ v \in Arc(x, y))
  BY DEF Arc
<1>4. /\ v \in Arc(c, e) <=> Size(y, v) < C
      /\ v \in Arc(d, e) <=> Size(z, v) < A
      /\ v \in Arc(x, y) <=> Size(x, v) < H
      /\ v \in Arc(x, z) <=> Size(x, v) < G
  BY <1>1, InArc
<1>. HIDE DEF w, x, y, z
<1>5. /\ Size(x, z) + Size(z, w) = Size(x, w) \/ Size(x, z) + Size(z, w) = Size(x, w) + AbsMax
      /\ Size(x, y) + Size(y, w) = Size(x, w) \/ Size(x, y) + Size(y, w) = Size(x, w) + AbsMax
      /\ Size(x, y) + Size(y, v) = Size(x, v) \/ Size(x, y) + Size(y, v) = Size(x, v) + AbsMax
      /\ Size(x, z) + Size(z, v) = Size(x, v) \/ Size(x, z) + Size(z, v) = Size(x, v) + AbsMax
  BY <1>1, Ways
<1>6. /\ Size(z, w) \in 0 .. AbsMax - 1 /\ Size(y, w) \in 0 .. AbsMax - 1 /\ Size(x, w) \in 0 .. AbsMax - 1
      /\ Size(z, v) \in 0 .. AbsMax - 1 /\ Size(x, v) \in 0 .. AbsMax - 1 /\ Size(y, v) \in 0 .. AbsMax - 1
      /\ G \in 0 .. AbsMax - 1 /\ H \in 0 .. AbsMax - 1
  BY <1>1, Ways
<1>. HIDE DEF A, C
<1>. QED  BY <1>2, <1>3, <1>4, <1>5, <1>6

\* A range that begins where the one before it ends takes the gap between them, and nothing else.
LEMMA TakeBelow ==
    ASSUME AbsMax \in Nat \ {0}, NEW b \in 0 .. AbsMax, NEW d \in 0 .. AbsMax, NEW e \in 0 .. AbsMax,
           Size(d, e) > 0, Arc(Point(b), Point(d)) \cap Arc(d, e) = {},
           NEW u \in 0 .. AbsMax - 1, u \notin Arc(Point(b), Point(d)), u \notin Arc(d, e)
    PROVE  /\ Arc(b, e) \subseteq Arc(Point(b), Point(d)) \cup Arc(d, e)
           /\ Size(b, e) >= Size(d, e)
<1>. DEFINE w == Point(e)  x == Point(b)  z == Point(d)
            A == Size(d, e)  C == Size(b, e)  G == Size(x, z)
<1>1. w \in 0 .. AbsMax - 1 /\ x \in 0 .. AbsMax - 1 /\ z \in 0 .. AbsMax - 1
      /\ x \in 0 .. AbsMax /\ z \in 0 .. AbsMax /\ Point(x) = x /\ Point(z) = z
  BY Points
<1>2. /\ A \in 1 .. AbsMax /\ C \in 0 .. AbsMax
      /\ A = Size(z, w) \/ (A = AbsMax /\ Size(z, w) = 0)
      /\ C = Size(x, w) \/ (C = AbsMax /\ Size(x, w) = 0)
  BY Points
<1>3. A + G <= AbsMax
  <2>1. G + A <= AbsMax
    BY RoomBefore
  <2>2. G \in 0 .. AbsMax - 1
    BY Points
  <2>. QED  BY <1>2, <2>1, <2>2
<1>4. ASSUME NEW v \in 0 .. AbsMax - 1
      PROVE  /\ v \in Arc(b, e) <=> Size(x, v) < C
             /\ v \in Arc(d, e) <=> Size(z, v) < A
             /\ v \in Arc(x, z) <=> Size(x, v) < G
  BY <1>1, InArc
<1>5. ~(Size(z, u) < A) /\ ~(Size(x, u) < G)
  BY <1>4
<1>. HIDE DEF w, x, z
<1>6. ASSUME NEW v \in 0 .. AbsMax - 1
      PROVE  /\ G + Size(z, v) = Size(x, v) \/ G + Size(z, v) = Size(x, v) + AbsMax
             /\ Size(x, v) \in 0 .. AbsMax - 1 /\ Size(z, v) \in 0 .. AbsMax - 1
  BY <1>1, Ways
<1>7. /\ G \in 0 .. AbsMax - 1
      /\ G + Size(z, w) = Size(x, w) \/ G + Size(z, w) = Size(x, w) + AbsMax
      /\ Size(x, w) \in 0 .. AbsMax - 1 /\ Size(z, w) \in 0 .. AbsMax - 1
  BY <1>1, <1>6
<1>. HIDE DEF A, C, G
<1>8. C >= A /\ C = A + G
  <2>1. /\ G + Size(z, u) = Size(x, u) \/ G + Size(z, u) = Size(x, u) + AbsMax
        /\ Size(x, u) \in 0 .. AbsMax - 1 /\ Size(z, u) \in 0 .. AbsMax - 1
    BY <1>6
  <2>2. Size(x, u) = G + Size(z, u)
    BY <1>5, <1>7, <2>1
  <2>3. A + G < AbsMax
    BY <1>2, <1>5, <1>7, <2>1, <2>2
  <2>4. Size(x, w) = A + G
    BY <1>2, <1>7, <2>3
  <2>. QED  BY <1>2, <1>7, <2>3, <2>4
<1>9. ASSUME NEW v \in Arc(b, e)  PROVE v \in Arc(x, z) \cup Arc(d, e)
  <2>1. v \in 0 .. AbsMax - 1
    BY DEF Arc
  <2>2. /\ Size(x, v) < C
        /\ v \in Arc(d, e) <=> Size(z, v) < A
        /\ v \in Arc(x, z) <=> Size(x, v) < G
    BY <1>4, <2>1
  <2>3. /\ G + Size(z, v) = Size(x, v) \/ G + Size(z, v) = Size(x, v) + AbsMax
        /\ Size(x, v) \in 0 .. AbsMax - 1 /\ Size(z, v) \in 0 .. AbsMax - 1
    BY <1>6, <2>1
  <2>4. Size(z, v) < A \/ Size(x, v) < G
    BY <1>2, <1>3, <1>7, <1>8, <2>2, <2>3
  <2>. QED  BY <2>2, <2>4
<1>10. C >= A
  BY <1>8
<1>. QED  BY <1>9, <1>10 DEF A, C, G, x, z

\* A range that ends where the one after it begins takes the gap between them, and nothing else.
LEMMA TakeAbove ==
    ASSUME AbsMax \in Nat \ {0}, NEW a \in 0 .. AbsMax, NEW b \in 0 .. AbsMax, NEW d \in 0 .. AbsMax,
           Size(a, b) > 0, Arc(a, b) \cap Arc(Point(b), Point(d)) = {},
           NEW u \in 0 .. AbsMax - 1, u \notin Arc(Point(b), Point(d)), u \notin Arc(a, b)
    PROVE  /\ Arc(a, d) \subseteq Arc(a, b) \cup Arc(Point(b), Point(d))
           /\ Size(a, d) >= Size(a, b)
<1>. DEFINE w == Point(a)  x == Point(b)  z == Point(d)
            A == Size(a, b)  C == Size(a, d)  G == Size(x, z)
<1>1. w \in 0 .. AbsMax - 1 /\ x \in 0 .. AbsMax - 1 /\ z \in 0 .. AbsMax - 1
      /\ x \in 0 .. AbsMax /\ z \in 0 .. AbsMax /\ Point(x) = x /\ Point(z) = z
  BY Points
<1>2. /\ A \in 1 .. AbsMax /\ C \in 0 .. AbsMax
      /\ A = Size(w, x) \/ (A = AbsMax /\ Size(w, x) = 0)
      /\ C = Size(w, z) \/ (C = AbsMax /\ Size(w, z) = 0)
  BY Points
<1>3. A + G <= AbsMax
  <2>1. A > 0
    BY <1>2
  <2>. QED  BY <2>1, Room
<1>4. ASSUME NEW v \in 0 .. AbsMax - 1
      PROVE  /\ v \in Arc(a, d) <=> Size(w, v) < C
             /\ v \in Arc(a, b) <=> Size(w, v) < A
             /\ v \in Arc(x, z) <=> Size(x, v) < G
  BY <1>1, InArc
<1>5. ~(Size(w, u) < A) /\ ~(Size(x, u) < G)
  BY <1>4
<1>. HIDE DEF w, x, z
<1>6. ASSUME NEW v \in 0 .. AbsMax - 1
      PROVE  /\ Size(w, x) + Size(x, v) = Size(w, v) \/ Size(w, x) + Size(x, v) = Size(w, v) + AbsMax
             /\ Size(w, v) \in 0 .. AbsMax - 1 /\ Size(x, v) \in 0 .. AbsMax - 1
  BY <1>1, Ways
<1>7. /\ G \in 0 .. AbsMax - 1
      /\ Size(w, x) + G = Size(w, z) \/ Size(w, x) + G = Size(w, z) + AbsMax
      /\ Size(w, x) \in 0 .. AbsMax - 1 /\ Size(w, z) \in 0 .. AbsMax - 1
  BY <1>1, Ways
<1>. HIDE DEF A, C, G
<1>8. C >= A /\ C = A + G
  <2>1. /\ Size(w, x) + Size(x, u) = Size(w, u) \/ Size(w, x) + Size(x, u) = Size(w, u) + AbsMax
        /\ Size(w, u) \in 0 .. AbsMax - 1 /\ Size(x, u) \in 0 .. AbsMax - 1
    BY <1>6
  <2>2. ~(Size(w, u) < A) /\ Size(x, u) >= G
    BY <1>5, <1>7, <2>1
  <2>3. A + G < AbsMax
    BY <1>2, <1>7, <2>1, <2>2
  <2>4. Size(w, z) = A + G
    BY <1>2, <1>7, <2>3
  <2>. QED  BY <1>2, <1>7, <2>3, <2>4
<1>9. ASSUME NEW v \in Arc(a, d)  PROVE v \in Arc(a, b) \cup Arc(x, z)
  <2>1. v \in 0 .. AbsMax - 1
    BY DEF Arc
  <2>2. /\ Size(w, v) < C
        /\ v \in Arc(a, b) <=> Size(w, v) < A
        /\ v \in Arc(x, z) <=> Size(x, v) < G
    BY <1>4, <2>1
  <2>3. /\ Size(w, x) + Size(x, v) = Size(w, v) \/ Size(w, x) + Size(x, v) = Size(w, v) + AbsMax
        /\ Size(w, v) \in 0 .. AbsMax - 1 /\ Size(x, v) \in 0 .. AbsMax - 1
    BY <1>6, <2>1
  <2>4. Size(w, v) < A \/ Size(x, v) < G
    BY <1>2, <1>3, <1>7, <1>8, <2>2, <2>3
  <2>. QED  BY <2>2, <2>4
<1>10. C >= A
  BY <1>8
<1>. QED  BY <1>9, <1>10 DEF A, C, G, x, z

\* A value counted around the circle is its point.
LEMMA PointIs ==
    ASSUME AbsMax \in Nat \ {0}, NEW a \in 0 .. AbsMax
    PROVE  a % AbsMax = Point(a)
<1>1. CASE a \in 0 .. AbsMax - 1
  BY <1>1, Remainder DEF Point
<1>2. CASE a = AbsMax
  <2>1. 0 \in 0 .. AbsMax - 1
    OBVIOUS
  <2>. QED  BY <1>2, <2>1, Remainder DEF Point
<1>. QED  BY <1>1, <1>2

-----------------------------------------------------------------------------
(***************************************************************************)
(* What nodes hold, and the gaps between neighbours: they are apart, and   *)
(* when one grows by what another gives up, they stay so.                  *)
(***************************************************************************)

\* What n has, and what is between it and its successor.
Held(ef, n) == IF ef[n] = None THEN {} ELSE Arc(ef[n].min, ef[n].max)
Gap(ef, n) == IF ef[n] = None \/ ef[Succ(n)] = None THEN {}
              ELSE Arc(Point(ef[n].max), Point(ef[Succ(n)].min))
Apart(ef) ==
    \A n, o \in Node :
        /\ n # o => Held(ef, n) \cap Held(ef, o) = {}
        /\ Held(ef, n) \cap Gap(ef, o) = {}
        /\ n # o => Gap(ef, n) \cap Gap(ef, o) = {}

Spread(ef) ==
    /\ ef \in [Node -> NodeRange \cup {None}]
    /\ \A n \in Node : ef[n] # None => Size(ef[n].min, ef[n].max) > 0
    /\ Apart(ef)

\* n gets the range r.
Put(ef, n, r) == [ef EXCEPT ![n] = r]

\* What is held and a gap trade values, and nothing else changes.
LEMMA Trade ==
    ASSUME NEW ef, NEW fe, Apart(ef), NEW n \in Node, NEW q \in Node,
           \A k \in Node \ {n} : Held(fe, k) = Held(ef, k),
           \A k \in Node \ {q} : Gap(fe, k) = Gap(ef, k),
           Held(fe, n) \subseteq Held(ef, n) \cup Gap(ef, q),
           Gap(fe, q) \subseteq Held(ef, n) \cup Gap(ef, q),
           Held(fe, n) \cap Gap(fe, q) = {}
    PROVE  Apart(fe)
<1>. SUFFICES ASSUME NEW a \in Node, NEW b \in Node
              PROVE  /\ a # b => Held(fe, a) \cap Held(fe, b) = {}
                     /\ Held(fe, a) \cap Gap(fe, b) = {}
                     /\ a # b => Gap(fe, a) \cap Gap(fe, b) = {}
  BY DEF Apart
<1>1. \A k, l \in Node :
        /\ k # l => Held(ef, k) \cap Held(ef, l) = {}
        /\ Held(ef, k) \cap Gap(ef, l) = {}
        /\ k # l => Gap(ef, k) \cap Gap(ef, l) = {}
  BY Zenon DEF Apart
<1>2. ASSUME NEW k \in Node \ {n}
      PROVE  Held(fe, k) \cap Held(fe, n) = {} /\ Held(fe, k) \cap Gap(fe, q) = {}
  BY <1>1
<1>3. ASSUME NEW k \in Node \ {q}
      PROVE  Gap(fe, k) \cap Gap(fe, q) = {} /\ Gap(fe, k) \cap Held(fe, n) = {}
  BY <1>1
<1>4. a # b => Held(fe, a) \cap Held(fe, b) = {}
  BY <1>1, <1>2
<1>5. Held(fe, a) \cap Gap(fe, b) = {}
  BY <1>1, <1>2, <1>3
<1>6. a # b => Gap(fe, a) \cap Gap(fe, b) = {}
  BY <1>1, <1>3
<1>. QED  BY <1>4, <1>5, <1>6

\* A range that is put in place is that node's, and the others keep theirs.
LEMMA PutIs ==
    ASSUME WholeAssumption, NEW ef, Spread(ef), NEW n \in Node, NEW r \in NodeRange \cup {None}
    PROVE  /\ Put(ef, n, r) \in [Node -> NodeRange \cup {None}]
           /\ Put(ef, n, r)[n] = r /\ \A k \in Node \ {n} : Put(ef, n, r)[k] = ef[k]
BY DEF Put, Spread

\* A part of a span that no range has is nobody's.
LEMMA NoArc == ASSUME NEW a \in Nat  PROVE Arc(a, a) = {}
BY DEF Arc

\* What is known of the ranges.
LEMMA Ends ==
    ASSUME WholeAssumption, NEW ef, Spread(ef), NEW n \in Node
    PROVE  /\ AbsMax \in Nat \ {0} /\ Succ(n) \in Node /\ Pred(n) \in Node /\ None \notin NodeRange
           /\ Succ(Pred(n)) = n /\ Pred(Succ(n)) = n /\ Succ(n) # n /\ Pred(n) # n
           /\ ef[n] # None =>
                 /\ ef[n] \in NodeRange /\ ef[n].min \in 0 .. AbsMax /\ ef[n].max \in 0 .. AbsMax
                 /\ Size(ef[n].min, ef[n].max) > 0
                 /\ Held(ef, n) = Arc(ef[n].min, ef[n].max)
<1>1. AbsMax \in Nat \ {0} /\ None \notin NodeRange
  BY DEF WholeAssumption, BalanceAssumption
<1>2. Succ(n) \in Node /\ Pred(n) \in Node /\ Pred(Succ(n)) = n
  BY Around DEF WholeAssumption
<1>3. ASSUME ef[n] # None
      PROVE  /\ ef[n] \in NodeRange /\ ef[n].min \in 0 .. AbsMax /\ ef[n].max \in 0 .. AbsMax
             /\ Size(ef[n].min, ef[n].max) > 0
             /\ Held(ef, n) = Arc(ef[n].min, ef[n].max)
  <2>1. ef[n] \in NodeRange /\ Size(ef[n].min, ef[n].max) > 0
    BY <1>3 DEF Spread
  <2>. QED  BY <1>3, <2>1 DEF NodeRange, Held
<1>. QED  BY <1>1, <1>2, <1>3, AroundBack

\* What changes when n, that keeps its one end, gets the range r.
LEMMA OtherEnds ==
    ASSUME WholeAssumption, NEW ef, Spread(ef), NEW n \in Node, ef[n] # None, NEW r \in NodeRange
    PROVE  LET fe == Put(ef, n, r) IN
           /\ Held(fe, n) = Arc(r.min, r.max) /\ \A k \in Node \ {n} : Held(fe, k) = Held(ef, k)
           /\ \A k \in Node \ {n, Pred(n)} : Gap(fe, k) = Gap(ef, k)
           /\ r.min = ef[n].min => Gap(fe, Pred(n)) = Gap(ef, Pred(n))
           /\ r.max = ef[n].max => Gap(fe, n) = Gap(ef, n)
           /\ ef[Succ(n)] = None => Gap(ef, n) = {} /\ Gap(fe, n) = {}
           /\ ef[Succ(n)] # None => /\ Gap(ef, n) = Arc(Point(ef[n].max), Point(ef[Succ(n)].min))
                                    /\ Gap(fe, n) = Arc(Point(r.max), Point(ef[Succ(n)].min))
           /\ ef[Pred(n)] = None => Gap(ef, Pred(n)) = {} /\ Gap(fe, Pred(n)) = {}
           /\ ef[Pred(n)] # None => /\ Gap(ef, Pred(n)) = Arc(Point(ef[Pred(n)].max), Point(ef[n].min))
                                    /\ Gap(fe, Pred(n)) = Arc(Point(ef[Pred(n)].max), Point(r.min))
<1>. DEFINE fe == Put(ef, n, r)
            s == Succ(n)
            p == Pred(n)
<1>1. fe[n] = r /\ \A k \in Node \ {n} : fe[k] = ef[k]
  BY PutIs
<1>2. s \in Node \ {n} /\ p \in Node \ {n} /\ Succ(p) = n /\ r # None
  BY Ends
<1>. HIDE DEF fe, p, s
<1>3. Held(fe, n) = Arc(r.min, r.max) /\ \A k \in Node \ {n} : Held(fe, k) = Held(ef, k)
  BY <1>1, <1>2 DEF Held
<1>4. ASSUME NEW k \in Node \ {n, p}  PROVE Gap(fe, k) = Gap(ef, k)
  <2>1. Succ(k) \in Node \ {n} /\ k # n
    BY Ends DEF p
  <2>. QED  BY <1>1, <2>1 DEF Gap
<1>5. /\ r.max = ef[n].max => Gap(fe, n) = Gap(ef, n)
      /\ ef[s] = None => Gap(ef, n) = {} /\ Gap(fe, n) = {}
      /\ ef[s] # None => /\ Gap(ef, n) = Arc(Point(ef[n].max), Point(ef[s].min))
                         /\ Gap(fe, n) = Arc(Point(r.max), Point(ef[s].min))
  BY <1>1, <1>2 DEF Gap, s
<1>6. /\ r.min = ef[n].min => Gap(fe, p) = Gap(ef, p)
      /\ ef[p] = None => Gap(ef, p) = {} /\ Gap(fe, p) = {}
      /\ ef[p] # None => /\ Gap(ef, p) = Arc(Point(ef[p].max), Point(ef[n].min))
                         /\ Gap(fe, p) = Arc(Point(ef[p].max), Point(r.min))
  BY <1>1, <1>2 DEF Gap
<1>. QED  BY <1>3, <1>4, <1>5, <1>6 DEF fe, p, s

\* The ranges stay apart when n gets the range r, if what it holds and the gap at q trade values.
LEMMA PutSpread ==
    ASSUME WholeAssumption, NEW ef, Spread(ef), NEW n \in Node, NEW r \in NodeRange,
           Size(r.min, r.max) > 0, Apart(Put(ef, n, r))
    PROVE  Spread(Put(ef, n, r))
<1>. DEFINE fe == Put(ef, n, r)
<1>1. fe \in [Node -> NodeRange \cup {None}] /\ fe[n] = r /\ \A k \in Node \ {n} : fe[k] = ef[k]
  BY PutIs
<1>2. \A k \in Node : fe[k] # None => Size(fe[k].min, fe[k].max) > 0
  BY <1>1 DEF Spread
<1>. QED  BY <1>1, <1>2 DEF Spread

\* A range that gives up a part at its end.
LEMMA LessMax ==
    ASSUME WholeAssumption, NEW ef, Spread(ef), NEW n \in Node, ef[n] # None, NEW r \in NodeRange,
           r.min = ef[n].min, Size(r.min, r.max) > 0,
           Size(r.min, r.max) <= Size(ef[n].min, ef[n].max)
    PROVE  Spread(Put(ef, n, r)) /\ Arc(r.min, r.max) \subseteq Held(ef, n)
<1>. DEFINE fe == Put(ef, n, r)
            s == Succ(n)
            a == ef[n].min
            b == ef[n].max
            c == r.max
<1>2. /\ AbsMax \in Nat \ {0} /\ s \in Node
      /\ a \in 0 .. AbsMax /\ b \in 0 .. AbsMax /\ c \in 0 .. AbsMax
      /\ Held(ef, n) = Arc(a, b) /\ Held(fe, n) = Arc(a, c)
      /\ Size(a, c) > 0 /\ Size(a, c) <= Size(a, b)
  BY Ends, OtherEnds DEF NodeRange
<1>3. /\ Held(fe, n) \subseteq Held(ef, n)
      /\ Gap(fe, n) \subseteq Held(ef, n) \cup Gap(ef, n)
      /\ Held(fe, n) \cap Gap(fe, n) = {}
  <2>1. CASE ef[s] = None
    <3>1. Gap(ef, n) = {} /\ Gap(fe, n) = {}
      BY <2>1, OtherEnds
    <3>2. Point(b) \in Nat
      BY <1>2 DEF Point
    <3>3. Arc(Point(b), Point(b)) = {}
      BY <3>2, NoArc
    <3>. HIDE DEF a, b, c
    <3>4. Arc(a, c) \subseteq Arc(a, b)
      BY <1>2, <3>3, ShrinkMax
    <3>. QED  BY <1>2, <3>1, <3>4
  <2>2. CASE ef[s] # None
    <3>. DEFINE d == ef[s].min
    <3>1. Gap(ef, n) = Arc(Point(b), Point(d)) /\ Gap(fe, n) = Arc(Point(c), Point(d))
      BY <2>2, OtherEnds
    <3>2. d \in 0 .. AbsMax
      BY <1>2, <2>2, Ends
    <3>3. Held(ef, n) \cap Gap(ef, n) = {}
      BY DEF Spread, Apart
    <3>. HIDE DEF a, b, c, d, fe
    <3>. QED  BY <1>2, <3>1, <3>2, <3>3, ShrinkMax
  <2>. QED  BY <2>1, <2>2
<1>4. /\ \A k \in Node \ {n} : Held(fe, k) = Held(ef, k)
      /\ \A k \in Node \ {n} : Gap(fe, k) = Gap(ef, k)
  BY OtherEnds
<1>5. Apart(fe)
  <2>. HIDE DEF fe
  <2>. QED  BY <1>3, <1>4, Trade DEF Spread
<1>. QED  BY <1>2, <1>3, <1>5, PutSpread

\* A range that gives up a part at its beginning.
LEMMA LessMin ==
    ASSUME WholeAssumption, NEW ef, Spread(ef), NEW n \in Node, ef[n] # None, NEW r \in NodeRange,
           r.max = ef[n].max, Size(r.min, r.max) > 0,
           Size(r.min, r.max) <= Size(ef[n].min, ef[n].max)
    PROVE  Spread(Put(ef, n, r)) /\ Arc(r.min, r.max) \subseteq Held(ef, n)
<1>. DEFINE fe == Put(ef, n, r)
            p == Pred(n)
            d == ef[n].min
            e == ef[n].max
            c == r.min
<1>2. /\ AbsMax \in Nat \ {0} /\ p \in Node
      /\ d \in 0 .. AbsMax /\ e \in 0 .. AbsMax /\ c \in 0 .. AbsMax
      /\ Held(ef, n) = Arc(d, e) /\ Held(fe, n) = Arc(c, e)
      /\ Size(c, e) > 0 /\ Size(c, e) <= Size(d, e)
  BY Ends, OtherEnds DEF NodeRange
<1>3. /\ Held(fe, n) \subseteq Held(ef, n)
      /\ Gap(fe, p) \subseteq Held(ef, n) \cup Gap(ef, p)
      /\ Held(fe, n) \cap Gap(fe, p) = {}
  <2>1. CASE ef[p] = None
    <3>1. Gap(ef, p) = {} /\ Gap(fe, p) = {}
      BY <2>1, OtherEnds
    <3>2. Point(d) \in Nat
      BY <1>2 DEF Point
    <3>3. Arc(Point(d), Point(d)) = {}
      BY <3>2, NoArc
    <3>. HIDE DEF d, e, c
    <3>4. Arc(c, e) \subseteq Arc(d, e)
      BY <1>2, <3>3, ShrinkMin
    <3>. QED  BY <1>2, <3>1, <3>4
  <2>2. CASE ef[p] # None
    <3>. DEFINE b == ef[p].max
    <3>1. Gap(ef, p) = Arc(Point(b), Point(d)) /\ Gap(fe, p) = Arc(Point(b), Point(c))
      BY <2>2, OtherEnds
    <3>2. b \in 0 .. AbsMax
      BY <1>2, <2>2, Ends
    <3>3. Held(ef, n) \cap Gap(ef, p) = {}
      BY <1>2 DEF Spread, Apart
    <3>. HIDE DEF b, c, d, e, fe, p
    <3>. QED  BY <1>2, <3>1, <3>2, <3>3, ShrinkMin
  <2>. QED  BY <2>1, <2>2
<1>4. /\ \A k \in Node \ {n} : Held(fe, k) = Held(ef, k)
      /\ \A k \in Node \ {p} : Gap(fe, k) = Gap(ef, k)
  BY OtherEnds
<1>5. Apart(fe)
  <2>. HIDE DEF fe, p
  <2>. QED  BY <1>2, <1>3, <1>4, Trade DEF Spread
<1>. QED  BY <1>2, <1>3, <1>5, PutSpread

\* A value of a range is in no gap and in no other range.
LEMMA Elsewhere ==
    ASSUME WholeAssumption, NEW ef, Spread(ef), NEW o \in Node, ef[o] # None
    PROVE  \E u \in 0 .. AbsMax - 1 :
              \A n \in Node : u \notin Gap(ef, n) /\ (n # o => u \notin Held(ef, n))
<1>. DEFINE a == ef[o].min
            b == ef[o].max
            u == Point(a)
<1>1. /\ AbsMax \in Nat \ {0} /\ a \in 0 .. AbsMax /\ b \in 0 .. AbsMax
      /\ Held(ef, o) = Arc(a, b) /\ Size(a, b) > 0
  BY Ends
<1>. HIDE DEF a, b
<1>2. u \in 0 .. AbsMax - 1 /\ Size(u, u) = 0
  BY <1>1, Points
<1>3. u \in Held(ef, o)
  BY <1>1, <1>2, InArc
<1>. HIDE DEF u
<1>4. \A n \in Node : u \notin Gap(ef, n) /\ (n # o => u \notin Held(ef, n))
  BY <1>3 DEF Spread, Apart
<1>. QED  BY <1>2, <1>4

\* A range that takes the gap before it.
LEMMA MoreMin ==
    ASSUME WholeAssumption, NEW ef, Spread(ef), NEW n \in Node, ef[n] # None, ef[Pred(n)] # None,
           NEW r \in NodeRange, r.max = ef[n].max, r.min = ef[Pred(n)].max
    PROVE  Spread(Put(ef, n, r)) /\ Size(ef[n].min, ef[n].max) <= Size(r.min, r.max)
<1>. DEFINE fe == Put(ef, n, r)
            p == Pred(n)
            d == ef[n].min
            e == ef[n].max
            b == ef[p].max
<1>1. /\ AbsMax \in Nat \ {0} /\ p \in Node /\ p # n
      /\ d \in 0 .. AbsMax /\ e \in 0 .. AbsMax
      /\ Held(ef, n) = Arc(d, e) /\ Size(d, e) > 0
  BY Ends
<1>2. b \in 0 .. AbsMax
  BY <1>1, Ends
<1>3. Held(fe, n) = Arc(b, e) /\ Gap(ef, p) = Arc(Point(b), Point(d))
      /\ Gap(fe, p) = Arc(Point(b), Point(b))
  BY OtherEnds
<1>4. PICK u \in 0 .. AbsMax - 1 : u \notin Gap(ef, p) /\ u \notin Held(ef, n)
  BY <1>1, Elsewhere
<1>5. Held(ef, n) \cap Gap(ef, p) = {}
  BY <1>1 DEF Spread, Apart
<1>6. /\ \A k \in Node \ {n} : Held(fe, k) = Held(ef, k)
      /\ \A k \in Node \ {p} : Gap(fe, k) = Gap(ef, k)
  BY OtherEnds
<1>. HIDE DEF b, d, e, fe, p
<1>7. Gap(fe, p) = {}
  <2>1. Point(b) \in Nat
    BY <1>2 DEF Point
  <2>. QED  BY <1>3, <2>1, NoArc
<1>8. Arc(b, e) \subseteq Arc(Point(b), Point(d)) \cup Arc(d, e) /\ Size(b, e) >= Size(d, e)
  BY <1>1, <1>2, <1>3, <1>4, <1>5, TakeBelow
<1>9. Apart(fe)
  BY <1>1, <1>3, <1>6, <1>7, <1>8, Trade DEF Spread
<1>10. Size(b, e) > 0 /\ Size(d, e) <= Size(b, e)
  BY <1>1, <1>2, <1>8 DEF Size
<1>. QED  BY <1>9, <1>10, PutSpread DEF b, d, e, fe, p

\* A range that takes the gap after it.
LEMMA MoreMax ==
    ASSUME WholeAssumption, NEW ef, Spread(ef), NEW n \in Node, ef[n] # None, ef[Succ(n)] # None,
           NEW r \in NodeRange, r.min = ef[n].min, r.max = ef[Succ(n)].min
    PROVE  Spread(Put(ef, n, r)) /\ Size(ef[n].min, ef[n].max) <= Size(r.min, r.max)
<1>. DEFINE fe == Put(ef, n, r)
            s == Succ(n)
            a == ef[n].min
            b == ef[n].max
            d == ef[s].min
<1>1. /\ AbsMax \in Nat \ {0} /\ s \in Node /\ s # n
      /\ a \in 0 .. AbsMax /\ b \in 0 .. AbsMax
      /\ Held(ef, n) = Arc(a, b) /\ Size(a, b) > 0
  BY Ends
<1>2. d \in 0 .. AbsMax
  BY <1>1, Ends
<1>3. Held(fe, n) = Arc(a, d) /\ Gap(ef, n) = Arc(Point(b), Point(d))
      /\ Gap(fe, n) = Arc(Point(d), Point(d))
  BY OtherEnds
<1>4. PICK u \in 0 .. AbsMax - 1 : u \notin Gap(ef, n) /\ u \notin Held(ef, n)
  BY <1>1, Elsewhere
<1>5. Held(ef, n) \cap Gap(ef, n) = {}
  BY DEF Spread, Apart
<1>6. /\ \A k \in Node \ {n} : Held(fe, k) = Held(ef, k)
      /\ \A k \in Node \ {n} : Gap(fe, k) = Gap(ef, k)
  BY OtherEnds
<1>. HIDE DEF a, b, d, fe, s
<1>7. Gap(fe, n) = {}
  <2>1. Point(d) \in Nat
    BY <1>2 DEF Point
  <2>. QED  BY <1>3, <2>1, NoArc
<1>8. Arc(a, d) \subseteq Arc(a, b) \cup Arc(Point(b), Point(d)) /\ Size(a, d) >= Size(a, b)
  BY <1>1, <1>2, <1>3, <1>4, <1>5, TakeAbove
<1>9. Apart(fe)
  BY <1>1, <1>3, <1>6, <1>7, <1>8, Trade DEF Spread
<1>10. Size(a, d) > 0 /\ Size(a, b) <= Size(a, d)
  BY <1>1, <1>2, <1>8 DEF Size
<1>. QED  BY <1>9, <1>10, PutSpread DEF a, b, d, fe, s

\* A node that leaves holds nothing, and neither does the gap around it.
LEMMA Dropped ==
    ASSUME WholeAssumption, NEW ef, Spread(ef), NEW n \in Node
    PROVE  Spread(Put(ef, n, None))
<1>. DEFINE fe == Put(ef, n, None)
<1>1. /\ fe \in [Node -> NodeRange \cup {None}]
      /\ fe[n] = None /\ \A k \in Node \ {n} : fe[k] = ef[k]
  BY PutIs
<1>2. \A k \in Node : fe[k] # None => Size(fe[k].min, fe[k].max) > 0
  BY <1>1 DEF Spread
<1>. HIDE DEF fe
<1>3. ASSUME NEW k \in Node  PROVE Held(fe, k) \subseteq Held(ef, k) /\ Gap(fe, k) \subseteq Gap(ef, k)
  <2>1. Succ(k) \in Node
    BY Ends
  <2>2. Held(fe, k) \subseteq Held(ef, k)
    <3>1. CASE k = n
      BY <1>1, <3>1 DEF Held
    <3>2. CASE k # n
      BY <1>1, <3>2 DEF Held
    <3>. QED  BY <3>1, <3>2
  <2>3. Gap(fe, k) \subseteq Gap(ef, k)
    <3>1. CASE k = n \/ Succ(k) = n
      BY <1>1, <3>1 DEF Gap
    <3>2. CASE k # n /\ Succ(k) # n
      BY <1>1, <2>1, <3>2 DEF Gap
    <3>. QED  BY <3>1, <3>2
  <2>. QED  BY <2>2, <2>3
<1>4. ASSUME NEW a \in Node, NEW b \in Node
      PROVE  /\ a # b => Held(fe, a) \cap Held(fe, b) = {}
             /\ Held(fe, a) \cap Gap(fe, b) = {}
             /\ a # b => Gap(fe, a) \cap Gap(fe, b) = {}
  <2>1. /\ a # b => Held(ef, a) \cap Held(ef, b) = {}
        /\ Held(ef, a) \cap Gap(ef, b) = {}
        /\ a # b => Gap(ef, a) \cap Gap(ef, b) = {}
    BY DEF Spread, Apart
  <2>2. /\ Held(fe, a) \subseteq Held(ef, a) /\ Gap(fe, a) \subseteq Gap(ef, a)
        /\ Held(fe, b) \subseteq Held(ef, b) /\ Gap(fe, b) \subseteq Gap(ef, b)
    BY <1>3
  <2>. QED  BY <2>1, <2>2
<1>. QED  BY <1>1, <1>2, <1>4 DEF Spread, Apart, fe

-----------------------------------------------------------------------------
(***************************************************************************)
(* The inductive invariant of the ranges.                                  *)
(***************************************************************************)

\* The answers that n listens to, and the range it has once they have come.
IsSent(h) == h.state = "SENT_REQ_LOCAL_NBR"
Answers(nd, nt, n) == {m \in nt : m.type = "LOCAL_LB_RESPONSE" /\ m.to = n /\ IsSent(nd[n])}
Due(nd, nt, n) ==
    IF Answers(nd, nt, n) = {} THEN nd[n].range ELSE (CHOOSE m \in Answers(nd, nt, n) : TRUE).range
Dues == [n \in Node |-> Due(node, net, n)]

\* Who asked.
Requester(m) == IF m.type = "LOCAL_LB_REQUEST" THEN m.from ELSE m.to

\* r is s but for a part it has taken, at the side of the neighbour o of n.
Grown(n, o, s, r) ==
    \/ o = Pred(n) /\ r.max = s.max /\ Size(s.min, s.max) <= Size(r.min, r.max)
    \/ o = Succ(n) /\ r.min = s.min /\ Size(s.min, s.max) <= Size(r.min, r.max)

Exchange ==
    /\ \A n \in Node :
          /\ node[n].resets \in {0, 1} /\ (IsSent(node[n]) => node[n].range # None)
          /\ node[n].range # None => Size(node[n].range.min, node[n].range.max) > 0
    /\ \A m, k \in net : (m.type \in Local /\ k.type \in Local /\ Requester(m) = Requester(k)) => m = k
    /\ \A m \in net :
          /\ m.type \in Local =>
                m.to \in {Succ(m.from), Pred(m.from)} /\ node[Requester(m)].resets = 1
          /\ m.type = "LOCAL_LB_REQUEST" /\ IsSent(node[m.from]) =>
                node[m.from].range = m.range /\ node[m.from].sentTo = m.to
          /\ m.type = "LOCAL_LB_RESPONSE" /\ IsSent(node[m.to]) =>
                node[m.to].sentTo = m.from /\ Grown(m.to, m.from, node[m.to].range, m.range)

\* Before anybody is asked to leave.
Meet ==
    left.asks = conf.asks =>
        /\ \A m \in net : m.type \in Local /\ IsSent(node[Requester(m)])
        /\ \A n \in Node : /\ node[n].state \in {"DOING_NOTHING", "SENT_REQ_LOCAL_NBR"}
                           /\ node[n].range # None
                           /\ Point(Dues[n].max) = Point(Dues[Succ(n)].min)

Fine == Exchange /\ Spread(Dues) /\ Meet
PartitionInv == left.asks <= conf.asks /\ (conf.apart => Fine)

\* What n gets: the range it is sent, or its own.
LEMMA DueIs ==
    ASSUME NEW nd, NEW nt, NEW n
    PROVE  /\ Answers(nd, nt, n) = {} => Due(nd, nt, n) = nd[n].range
           /\ \A m \in Answers(nd, nt, n) :
                 (\A k \in Answers(nd, nt, n) : k = m) => Due(nd, nt, n) = m.range
BY Zenon DEF Due

\* The answer a node listens to is the only one, and is what is due to it.
LEMMA AnswerOnly ==
    ASSUME Exchange, NEW n, NEW m \in Answers(node, net, n)
    PROVE  /\ m \in net /\ m.type = "LOCAL_LB_RESPONSE" /\ m.type \in Local /\ m.to = n
           /\ Requester(m) = n /\ IsSent(node[n])
           /\ \A k \in Answers(node, net, n) : k = m
           /\ Due(node, net, n) = m.range
<1>1. ASSUME NEW k \in Answers(node, net, n)
      PROVE  /\ k \in net /\ k.type = "LOCAL_LB_RESPONSE" /\ k.type \in Local /\ k.to = n
             /\ Requester(k) = n /\ IsSent(node[n])
  BY DEF Answers, Requester, Local
<1>2. \A k \in Answers(node, net, n) : k = m
  BY <1>1 DEF Exchange
<1>. QED  BY <1>1, <1>2, DueIs

\* What is due to n is its own range, or a greater one that has an end in common with it.
LEMMA DueKnown ==
    ASSUME WholeAssumption, IInv, Exchange, NEW n \in Node
    PROVE  /\ Due(node, net, n) \in NodeRange \cup {None} /\ Dues[n] = Due(node, net, n)
           /\ Due(node, net, n) = None <=> node[n].range = None
           /\ Answers(node, net, n) = {} => Due(node, net, n) = node[n].range
           /\ ~IsSent(node[n]) => Answers(node, net, n) = {}
           /\ Due(node, net, n) # node[n].range =>
                 \E o : /\ Grown(n, o, node[n].range, Due(node, net, n))
                        /\ node[n].range \in NodeRange
<1>0. Dues[n] = Due(node, net, n)
  BY DEF Dues
<1>1. node[n].range \in NodeRange \cup {None} /\ None \notin NodeRange
  BY Known DEF WholeAssumption, BalanceAssumption, Balancer
<1>2. ~IsSent(node[n]) => Answers(node, net, n) = {}
  BY DEF Answers
<1>3. CASE Answers(node, net, n) = {}
  BY <1>0, <1>1, <1>2, <1>3, DueIs
<1>4. CASE Answers(node, net, n) # {}
  <2>1. PICK m \in Answers(node, net, n) : TRUE
    BY <1>4
  <2>2. m \in net /\ m.type = "LOCAL_LB_RESPONSE" /\ m.type \in Local /\ m.to = n
        /\ IsSent(node[n]) /\ Due(node, net, n) = m.range
    BY <2>1, AnswerOnly
  <2>3. m.range \in NodeRange
    BY <2>2, Known DEF WholeAssumption
  <2>4. node[n].range # None /\ Grown(n, m.from, node[n].range, m.range)
    BY <2>2 DEF Exchange
  <2>. QED  BY <1>0, <1>1, <1>2, <1>4, <2>2, <2>3, <2>4
<1>. QED  BY <1>3, <1>4

\* A node that does not wait any more keeps its own range.
LEMMA Alone ==
    ASSUME WholeAssumption, IInv, Exchange, Spread(Dues), NEW n \in Node
    PROVE  /\ Spread(Put(Dues, n, node[n].range))
           /\ node[n].range # None =>
                 Arc(node[n].range.min, node[n].range.max) \subseteq Held(Dues, n)
<1>. DEFINE r == node[n].range
            d == Due(node, net, n)
<1>1. Dues[n] = d /\ (d = None <=> r = None) /\ r \in NodeRange \cup {None}
      /\ d \in NodeRange \cup {None}
  BY DueKnown, Known DEF Balancer
<1>2. r # None => Size(r.min, r.max) > 0
  BY DEF Exchange
<1>3. Dues \in [Node -> NodeRange \cup {None}]
  BY DEF Spread
<1>4. CASE d = r
  <2>. HIDE DEF r, d
  <2>1. Put(Dues, n, r) = Dues
    BY <1>1, <1>3, <1>4 DEF Put
  <2>. QED  BY <1>1, <1>4, <2>1 DEF Held, r
<1>5. CASE d # r
  <2>1. PICK o : Grown(n, o, r, d)
    BY <1>5, DueKnown
  <2>2. r # None /\ d # None
    BY <1>1, <1>5
  <2>. HIDE DEF r, d
  <2>3. \/ d.max = r.max /\ Size(r.min, r.max) <= Size(d.min, d.max)
        \/ d.min = r.min /\ Size(r.min, r.max) <= Size(d.min, d.max)
    BY <2>1 DEF Grown
  <2>4. Spread(Put(Dues, n, r)) /\ Arc(r.min, r.max) \subseteq Held(Dues, n)
    BY <1>1, <1>2, <2>2, <2>3, LessMax, LessMin
  <2>. QED  BY <2>4 DEF r
<1>. QED  BY <1>4, <1>5

\* The invariant is strong enough: what nodes have is within what is due to them.
LEMMA PartImplies == ASSUME WholeAssumption, IInv, PartitionInv PROVE Partition
<1>1. OneOwner
  <2>. SUFFICES ASSUME conf.apart, NEW n \in Node, NEW o \in Node,
                       n # o, node[n].range # None, node[o].range # None
                PROVE  Cells(node[n].range) \cap Cells(node[o].range) = {}
    BY DEF OneOwner
  <2>1. \A k \in Node : node[k].range # None =>
            /\ Cells(node[k].range) = Arc(node[k].range.min, node[k].range.max)
            /\ Arc(node[k].range.min, node[k].range.max) \subseteq Held(Dues, k)
    BY Alone DEF PartitionInv, Fine, Cells, Arc, Wraps
  <2>2. Held(Dues, n) \cap Held(Dues, o) = {}
    BY DEF PartitionInv, Fine, Spread, Apart
  <2>. QED  BY <2>1, <2>2
<1>2. RangesMeet
  <2>. SUFFICES ASSUME conf.apart, left.asks = conf.asks, ~\E m \in net : m.type = "LOCAL_LB_RESPONSE",
                       NEW n \in Node
                PROVE  node[n].range.max % AbsMax = node[Succ(n)].range.min % AbsMax
    BY DEF RangesMeet
  <2>1. Succ(n) \in Node /\ AbsMax \in Nat \ {0}
    BY Around DEF WholeAssumption, BalanceAssumption
  <2>2. \A k \in Node : Answers(node, net, k) = {}
    BY DEF Answers
  <2>3. \A k \in Node : Dues[k] = node[k].range /\ node[k].range # None
    BY <2>2, DueKnown DEF PartitionInv, Fine, Meet
  <2>4. Point(node[n].range.max) = Point(node[Succ(n)].range.min)
    BY <2>1, <2>3 DEF PartitionInv, Fine, Meet
  <2>5. \A k \in Node : node[k].range.min \in 0 .. AbsMax /\ node[k].range.max \in 0 .. AbsMax
    BY <2>3, Known DEF Balancer, NodeRange
  <2>. QED  BY <2>1, <2>4, <2>5, PointIs
<1>. QED  BY <1>1, <1>2 DEF Partition

\* It holds of the ranges a scenario begins with: nothing is on its way.
LEMMA PartInit == ASSUME WholeAssumption, Init PROVE PartitionInv
<1>1. conf \in Scenarios /\ net = {} /\ left.asks = conf.asks
      /\ node = [n \in Node |-> NewBalancer(conf, n)] /\ AbsMax \in Nat \ {0}
  BY DEF Init, WholeAssumption, BalanceAssumption
<1>2. ASSUME NEW n \in Node
      PROVE  /\ node[n].state = "DOING_NOTHING" /\ node[n].resets = 0 /\ node[n].range = conf.ranges[n]
             /\ node[n].range \in NodeRange /\ node[n].range # None
             /\ Dues[n] = conf.ranges[n] /\ Answers(node, net, n) = {}
  <2>1. /\ node[n].state = "DOING_NOTHING" /\ node[n].resets = 0 /\ node[n].range = conf.ranges[n]
    BY <1>1 DEF NewBalancer
  <2>2. conf.ranges[n] \in NodeRange /\ conf.ranges[n] # None
    BY <1>1 DEF WholeAssumption, BalanceAssumption
  <2>3. Answers(node, net, n) = {}
    BY <1>1 DEF Answers
  <2>4. Dues[n] = node[n].range
    BY <2>3, DueIs DEF Dues
  <2>. QED  BY <2>1, <2>2, <2>3, <2>4
<1>3. ASSUME NEW n \in Node
      PROVE  /\ conf.ranges[n].min \in 0 .. AbsMax /\ conf.ranges[n].max \in 0 .. AbsMax
             /\ Succ(n) \in Node
             /\ Cells(conf.ranges[n]) = Arc(conf.ranges[n].min, conf.ranges[n].max)
             /\ Size(conf.ranges[n].min, conf.ranges[n].max) > 0
             /\ Held(Dues, n) = Arc(conf.ranges[n].min, conf.ranges[n].max)
  <2>1. conf.ranges[n].min \in 0 .. AbsMax /\ conf.ranges[n].max \in 0 .. AbsMax
    BY <1>2 DEF NodeRange
  <2>2. Cells(conf.ranges[n]) = Arc(conf.ranges[n].min, conf.ranges[n].max)
    BY DEF Cells, Arc, Wraps
  <2>3. Arc(conf.ranges[n].min, conf.ranges[n].max) # {}
    BY <1>1, <2>2 DEF WholeAssumption
  <2>4. ASSUME NEW a \in 0 .. AbsMax, NEW b \in 0 .. AbsMax, Arc(a, b) # {}  PROVE Size(a, b) > 0
    BY <1>1, <2>4 DEF Arc, Size
  <2>5. Held(Dues, n) = Arc(conf.ranges[n].min, conf.ranges[n].max)
    BY <1>2 DEF Held
  <2>. QED  BY <2>1, <2>2, <2>3, <2>4, <2>5, Around DEF WholeAssumption
<1>4. ASSUME NEW n \in Node  PROVE Point(Dues[n].max) = Point(Dues[Succ(n)].min)
  <2>1. conf.ranges[n].max % AbsMax = conf.ranges[Succ(n)].min % AbsMax
    BY <1>1 DEF WholeAssumption
  <2>2. Point(conf.ranges[n].max) = Point(conf.ranges[Succ(n)].min)
    BY <1>1, <1>3, <2>1, PointIs
  <2>. QED  BY <1>2, <1>3, <2>2
<1>5. ASSUME NEW n \in Node  PROVE Gap(Dues, n) = {}
  <2>1. Point(Dues[n].max) \in Nat
    BY <1>1, <1>2, <1>3 DEF Point
  <2>2. Arc(Point(Dues[n].max), Point(Dues[Succ(n)].min)) = {}
    BY <1>4, <2>1, NoArc
  <2>. QED  BY <2>2 DEF Gap
<1>6. \A n, o \in Node : n # o => Held(Dues, n) \cap Held(Dues, o) = {}
  <2>1. \A n, o \in Node : n # o => Cells(conf.ranges[n]) \cap Cells(conf.ranges[o]) = {}
    BY <1>1 DEF WholeAssumption
  <2>. QED  BY <1>3, <2>1
<1>7. Apart(Dues)
  BY <1>5, <1>6, Zenon DEF Apart
<1>8. Dues \in [Node -> NodeRange \cup {None}]
  BY <1>2 DEF Dues
<1>9. Spread(Dues)
  BY <1>2, <1>3, <1>7, <1>8 DEF Spread
<1>10. Exchange
  BY <1>1, <1>2, <1>3 DEF Exchange, IsSent
<1>11. Meet
  BY <1>1, <1>2, <1>4 DEF Meet
<1>. QED  BY <1>1, <1>9, <1>10, <1>11 DEF PartitionInv, Fine, WholeAssumption, BalanceAssumption

-----------------------------------------------------------------------------
(***************************************************************************)
(* Steps that make no request and no answer.                               *)
(***************************************************************************)

\* A step that makes no request and no answer, at which n may stop waiting, and leave.
Fewer(n) ==
    /\ \A m \in net' : m.type \in Local => m \in net
    /\ \A m \in net : m.type = "LOCAL_LB_RESPONSE" /\ IsSent(node[m.to]) => m \in net'
    /\ \A k \in Node :
          /\ \/ node'[k].range = node[k].range
             \/ k = n /\ ~IsSent(node'[k]) /\ node'[k].range = None
          /\ IsSent(node'[k]) => IsSent(node[k]) /\ node'[k].sentTo = node[k].sentTo
          /\ k # n /\ IsSent(node[k]) => IsSent(node'[k])
          /\ \/ node'[k].resets = node[k].resets
             \/ node'[k].resets = 0 /\ \A m \in net' : m.type \in Local => Requester(m) # k

\* Requests and answers that are fewer still agree with who made them.
LEMMA FewerExchange ==
    ASSUME WholeAssumption, IInv, Exchange, NEW n \in Node, Fewer(n)
    PROVE  Exchange'
<1>1. \A k \in Node :
        /\ node'[k].resets \in {0, 1} /\ (IsSent(node'[k]) => node'[k].range # None)
        /\ node'[k].range # None => Size(node'[k].range.min, node'[k].range.max) > 0
  BY DEF Exchange, Fewer
<1>2. \A m, k \in net' :
          (m.type \in Local /\ k.type \in Local /\ Requester(m) = Requester(k)) => m = k
  BY DEF Exchange, Fewer
<1>3. ASSUME NEW m \in net'
      PROVE  /\ m.type \in Local =>
                   m.to \in {Succ(m.from), Pred(m.from)} /\ node'[Requester(m)].resets = 1
             /\ m.type = "LOCAL_LB_REQUEST" /\ IsSent(node'[m.from]) =>
                   node'[m.from].range = m.range /\ node'[m.from].sentTo = m.to
             /\ m.type = "LOCAL_LB_RESPONSE" /\ IsSent(node'[m.to]) =>
                   /\ node'[m.to].sentTo = m.from
                   /\ Grown(m.to, m.from, node'[m.to].range, m.range)
  <2>1. CASE m.type \in Local
    <3>1. m \in net /\ m.from \in Node /\ m.to \in Node /\ Requester(m) \in Node
      BY <2>1, Known DEF Requester, Fewer
    <3>2. /\ m.to \in {Succ(m.from), Pred(m.from)} /\ node[Requester(m)].resets = 1
          /\ m.type = "LOCAL_LB_REQUEST" /\ IsSent(node[m.from]) =>
                node[m.from].range = m.range /\ node[m.from].sentTo = m.to
          /\ m.type = "LOCAL_LB_RESPONSE" /\ IsSent(node[m.to]) =>
                node[m.to].sentTo = m.from /\ Grown(m.to, m.from, node[m.to].range, m.range)
      BY <2>1, <3>1 DEF Exchange
    <3>3. node'[Requester(m)].resets = 1
      BY <2>1, <3>1, <3>2 DEF Fewer
    <3>4. \A k \in Node : IsSent(node'[k]) =>
              IsSent(node[k]) /\ node'[k].sentTo = node[k].sentTo /\ node'[k].range = node[k].range
      BY DEF Fewer
    <3>. QED  BY <3>1, <3>2, <3>3, <3>4
  <2>2. CASE m.type \notin Local
    BY <2>2 DEF Local
  <2>. QED  BY <2>1, <2>2
<1>. QED  BY <1>1, <1>2, <1>3 DEF Exchange

\* What is due to the others stays the same, and so do the ranges' being apart.
LEMMA FewerDues ==
    ASSUME WholeAssumption, IInv, Exchange, Spread(Dues), NEW n \in Node, Fewer(n)
    PROVE  /\ Spread(Dues)'
           /\ node'[n].range = node[n].range
                 /\ (IsSent(node'[n]) = IsSent(node[n]) \/ Answers(node, net, n) = {}) => Dues' = Dues
<1>1. ASSUME NEW k \in Node, IsSent(node[k]) = IsSent(node'[k]), node'[k].range = node[k].range
      PROVE  Due(node', net', k) = Due(node, net, k)
  <2>1. Answers(node', net', k) = Answers(node, net, k)
    BY <1>1 DEF Answers, Local, Fewer
  <2>. QED  BY <1>1, <2>1 DEF Due
<1>2. ASSUME ~IsSent(node'[n])  PROVE Due(node', net', n) = node'[n].range
  <2>1. Answers(node', net', n) = {}
    BY <1>2 DEF Answers
  <2>. QED  BY <2>1, DueIs
<1>3. \A k \in Node \ {n} : IsSent(node[k]) = IsSent(node'[k]) /\ node'[k].range = node[k].range
  BY DEF IsSent, Fewer
<1>4. CASE IsSent(node'[n]) = IsSent(node[n]) /\ node'[n].range = node[n].range
  <2>1. \A k \in Node : Due(node', net', k) = Due(node, net, k)
    BY <1>1, <1>3, <1>4
  <2>2. Dues' = Dues
    BY <2>1 DEF Dues
  <2>. QED  BY <2>2
<1>5. CASE ~(IsSent(node'[n]) = IsSent(node[n]) /\ node'[n].range = node[n].range)
  <2>1. ~IsSent(node'[n]) /\ node'[n].range \in {node[n].range, None}
    BY <1>5 DEF Fewer, IsSent
  <2>2. \A k \in Node \ {n} : Due(node', net', k) = Due(node, net, k)
    BY <1>1, <1>3
  <2>3. Dues' = Put(Dues, n, node'[n].range)
    BY <1>2, <2>1, <2>2 DEF Dues, Put
  <2>4. Spread(Dues')
    BY <2>1, <2>3, Alone, Dropped
  <2>5. ASSUME node'[n].range = node[n].range, Answers(node, net, n) = {}  PROVE Dues' = Dues
    <3>1. Dues[n] = node[n].range
      BY <2>5, DueKnown
    <3>2. Put(Dues, n, Dues[n]) = Dues
      BY DEF Put, Dues
    <3>. QED  BY <2>3, <2>5, <3>1, <3>2
  <2>6. Spread(Dues)'
    BY <2>4
  <2>. QED  BY <1>5, <2>5, <2>6
<1>. QED  BY <1>4, <1>5

\* Nobody has been asked to leave, and nothing more happens than that n stops waiting in vain.
Unasked(n) ==
    left'.asks = conf.asks =>
        /\ \A m \in net' : m.type \in Local /\ IsSent(node'[Requester(m)])
        /\ \A k \in Node : node'[k].state \in {"DOING_NOTHING", "SENT_REQ_LOCAL_NBR"}
        /\ node'[n].range = node[n].range
        /\ IsSent(node'[n]) = IsSent(node[n]) \/ Answers(node, net, n) = {}

\* A node that is not asked may drop what it waits for: ranges stay apart, and so do the dues.
LEMMA FineFewer ==
    ASSUME WholeAssumption, IInv, Fine, NEW n \in Node, Fewer(n), Unasked(n),
           conf' = conf, left'.asks <= left.asks, left.asks <= conf.asks,
           left.asks \in Nat, left'.asks \in Nat, conf.asks \in Nat
    PROVE  Fine'
<1>1. Exchange' /\ Spread(Dues)'
  BY FewerExchange, FewerDues DEF Fine
<1>2. ASSUME left'.asks = conf.asks
      PROVE  /\ \A m \in net' : m.type \in Local /\ IsSent(node'[Requester(m)])
             /\ \A k \in Node : /\ node'[k].state \in {"DOING_NOTHING", "SENT_REQ_LOCAL_NBR"}
                                /\ node'[k].range # None
                                /\ Point(Dues'[k].max) = Point(Dues'[Succ(k)].min)
  <2>1. left.asks = conf.asks
    BY <1>2
  <2>2. Dues' = Dues
    BY <1>2, FewerDues DEF Fine, Unasked
  <2>3. \A k \in Node : node'[k].range = node[k].range
    BY <1>2 DEF Fewer, Unasked
  <2>4. \A k \in Node : node[k].range # None /\ Point(Dues[k].max) = Point(Dues[Succ(k)].min)
    BY <2>1 DEF Fine, Meet
  <2>. QED  BY <1>2, <2>2, <2>3, <2>4 DEF Unasked
<1>3. Meet'
  BY <1>2 DEF Meet
<1>. QED  BY <1>1, <1>3 DEF Fine

\* A step of n beside requests and answers, that takes no time of a neighbour.
Aside(n) ==
    /\ \A m \in net \cup net' : m.type \in Local => m \in net /\ m \in net'
    /\ \A k \in Node : /\ node'[k].range = node[k].range /\ node'[k].resets = node[k].resets
                       /\ node'[k].sentTo = node[k].sentTo
                       /\ IsSent(node'[k]) = IsSent(node[k])

\* A step that is no part of an exchange between neighbours leaves it alone.
LEMMA AsideFine ==
    ASSUME WholeAssumption, IInv, Fine, NEW n \in Node, Aside(n), conf' = conf,
           left'.asks <= left.asks, left.asks <= conf.asks,
           left.asks \in Nat, left'.asks \in Nat, conf.asks \in Nat,
           left'.asks = conf.asks =>
               net' \subseteq net /\ \A k \in Node : node'[k].state = node[k].state
    PROVE  Fine'
<1>1. Fewer(n)
  BY DEF Aside, Fewer, Local
<1>2. Unasked(n)
  <2>. SUFFICES ASSUME left'.asks = conf.asks
                PROVE  /\ \A m \in net' : m.type \in Local /\ IsSent(node'[Requester(m)])
                       /\ \A k \in Node : node'[k].state \in {"DOING_NOTHING", "SENT_REQ_LOCAL_NBR"}
                       /\ node'[n].range = node[n].range
                       /\ IsSent(node'[n]) = IsSent(node[n]) \/ Answers(node, net, n) = {}
    BY DEF Unasked
  <2>1. left.asks = conf.asks
    OBVIOUS
  <2>2. /\ \A m \in net : m.type \in Local /\ IsSent(node[Requester(m)])
        /\ \A k \in Node : node[k].state \in {"DOING_NOTHING", "SENT_REQ_LOCAL_NBR"}
    BY <2>1 DEF Fine, Meet
  <2>3. \A m \in net : Requester(m) \in Node
    BY Known DEF Requester
  <2>4. \A m \in net' : m.type \in Local /\ IsSent(node'[Requester(m)])
    BY <2>2, <2>3 DEF Aside
  <2>5. \A k \in Node : node'[k].state \in {"DOING_NOTHING", "SENT_REQ_LOCAL_NBR"}
    BY <2>2
  <2>. QED  BY <2>4, <2>5 DEF Aside
<1>. QED  BY <1>1, <1>2, FineFewer

\* Whoever has been asked to leave, somebody has asked.
LEMMA SomebodyAsked ==
    ASSUME Fine, NEW m \in net, m.type \notin Local
    PROVE  left.asks # conf.asks
BY DEF Fine, Meet

\* The numbers and records that all the following lemmas speak of.
LEMMA Numbers ==
    ASSUME BalanceAssumption, IInv, PartitionInv
    PROVE  /\ left.asks \in Nat /\ conf.asks \in Nat /\ left.asks <= conf.asks
           /\ node \in [Node -> Balancer]
BY DEF IInv, TypeOK, BalanceAssumption, PartitionInv, Bounds

\* How one node's record changes.
LEMMA Changes ==
    ASSUME IInv, NEW n \in Node, NEW g, node' = [node EXCEPT ![n] = g]
    PROVE  node'[n] = g /\ \A k \in Node \ {n} : node'[k] = node[k]
BY DEF IInv, TypeOK

\* A reset comes when nothing is on its way, so that nothing is lost by it.
LEMMA ResetFine ==
    ASSUME WholeAssumption, IInv, PartitionInv, Fine, NEW n \in Node, ResetLocalState(n)
    PROVE  Fine'
<1>. DEFINE g == [node[n] EXCEPT !.state = "DOING_NOTHING", !.sentTo = None, !.resets = @ - 1]
<1>1. node[n] \in Balancer /\ left' = left /\ conf' = conf /\ net' = net
  BY Known DEF ResetLocalState
<1>2. node'[n] = g /\ \A k \in Node \ {n} : node'[k] = node[k]
  <2>1. node' = [node EXCEPT ![n] = g]
    BY Known DEF ResetLocalState, IInv, TypeOK
  <2>. QED  BY <2>1, Changes
<1>3. g.state = "DOING_NOTHING" /\ g.range = node[n].range /\ g.resets = node[n].resets - 1
  BY <1>1 DEF Balancer
<1>4. node[n].resets = 1 /\ g.resets = 0
  BY <1>3 DEF ResetLocalState, Fine, Exchange
<1>5. \A m \in net : m.type \in Local => Requester(m) # n
  BY <1>4 DEF ResetLocalState, Sent, Requester
<1>. HIDE DEF g
<1>6. ~IsSent(node'[n])
  BY <1>2, <1>3 DEF IsSent
<1>7. Fewer(n)
  BY <1>1, <1>2, <1>3, <1>4, <1>5, <1>6 DEF Fewer
<1>8. Answers(node, net, n) = {}
  BY <1>5 DEF Answers, Local, Requester
<1>9. Unasked(n)
  <2>. SUFFICES ASSUME left'.asks = conf.asks
                PROVE  /\ \A m \in net' : m.type \in Local /\ IsSent(node'[Requester(m)])
                       /\ \A k \in Node : node'[k].state \in {"DOING_NOTHING", "SENT_REQ_LOCAL_NBR"}
    BY <1>2, <1>3, <1>8 DEF Unasked
  <2>1. left.asks = conf.asks
    BY <1>1
  <2>2. /\ \A m \in net : m.type \in Local /\ IsSent(node[Requester(m)])
        /\ \A k \in Node : node[k].state \in {"DOING_NOTHING", "SENT_REQ_LOCAL_NBR"}
    BY <2>1 DEF Fine, Meet
  <2>3. \A m \in net : Requester(m) \in Node
    BY Known DEF Requester
  <2>. QED  BY <1>1, <1>2, <1>3, <1>5, <2>2, <2>3
<1>. QED  BY <1>1, <1>7, <1>9, Numbers, FineFewer DEF WholeAssumption

\* n turns to, or from, something else than its neighbours.
LEMMA TurnFine ==
    ASSUME WholeAssumption, IInv, PartitionInv, Fine, NEW n \in Node, NEW g, node' = [node EXCEPT ![n] = g],
           g.range = node[n].range, g.resets = node[n].resets, g.sentTo = node[n].sentTo,
           IsSent(g) = IsSent(node[n]), conf' = conf, left'.asks \in Nat, left'.asks <= left.asks,
           \A m \in net \cup net' : m.type \in Local => m \in net /\ m \in net',
           left'.asks = conf.asks => net' \subseteq net /\ g.state = node[n].state
    PROVE  Fine'
<1>1. node'[n] = g /\ \A k \in Node \ {n} : node'[k] = node[k]
  BY Changes
<1>2. Aside(n)
  BY <1>1 DEF Aside
<1>3. left'.asks = conf.asks => net' \subseteq net /\ \A k \in Node : node'[k].state = node[k].state
  BY <1>1
<1>. QED  BY <1>2, <1>3, Numbers, AsideFine DEF WholeAssumption

\* An answer that is forgotten has come.
LEMMA ForgetFine ==
    ASSUME WholeAssumption, IInv, PartitionInv, Fine, NEW n \in Node, ForgetAnswer(n)
    PROVE  Fine'
<1>1. PICK m \in node[n].answered : node' = [node EXCEPT ![n].answered = @ \ {m}]
  BY DEF ForgetAnswer
<1>. DEFINE g == [node[n] EXCEPT !.answered = @ \ {m}]
<1>2. node[n] \in Balancer /\ left' = left /\ conf' = conf /\ net' = net
  BY Known DEF ForgetAnswer
<1>3. node' = [node EXCEPT ![n] = g]
  BY <1>1, Known DEF IInv, TypeOK
<1>4. /\ g.state = node[n].state /\ g.range = node[n].range /\ g.resets = node[n].resets
      /\ g.sentTo = node[n].sentTo
  BY <1>2 DEF Balancer
<1>. HIDE DEF g
<1>5. IsSent(g) = IsSent(node[n])
  BY <1>4 DEF IsSent
<1>6. left'.asks \in Nat /\ left'.asks <= left.asks
  BY <1>2, Numbers DEF WholeAssumption
<1>. QED  BY <1>2, <1>3, <1>4, <1>5, <1>6, TurnFine

\* A heavy node asks when no answer is to come to it.
LEMMA DoRemoteFine ==
    ASSUME WholeAssumption, IInv, PartitionInv, Fine, NEW n \in Node, DoRemoteLoadBalance(n)
    PROVE  Fine'
<1>1. PICK c \in node[n].light :
        /\ node' = [node EXCEPT ![n].state = "WAITING_FOR_LEAVE_JOIN_RESPONSE", ![n].light = @ \ {c},
                                ![n].tracker = TRUE]
        /\ net' = net \cup {Msg("LEAVEJOIN_LB_REQUEST", n, c)}
  BY Zenon DEF DoRemoteLoadBalance, Ask
<1>2. /\ ~IsSent(node[n]) /\ conf' = conf /\ left.asks > 0 /\ left' = [left EXCEPT !.asks = @ - 1]
  BY DEF DoRemoteLoadBalance, IsLoadBalanceOngoing, IsSent
<1>. DEFINE yes == TRUE
            g == [node[n] EXCEPT !.state = "WAITING_FOR_LEAVE_JOIN_RESPONSE", !.light = @ \ {c},
                                 !.tracker = yes]
<1>3. node[n] \in Balancer
  BY Known
<1>4. node' = [node EXCEPT ![n] = g]
  BY <1>1, Known DEF IInv, TypeOK
<1>. HIDE DEF yes
<1>5. /\ g.range = node[n].range /\ g.resets = node[n].resets /\ g.sentTo = node[n].sentTo
      /\ g.state = "WAITING_FOR_LEAVE_JOIN_RESPONSE"
  BY <1>3 DEF Balancer
<1>. HIDE DEF g
<1>6. IsSent(g) = IsSent(node[n])
  BY <1>2, <1>5 DEF IsSent
<1>7. \A m \in net \cup net' : m.type \in Local => m \in net /\ m \in net'
  BY <1>1 DEF Msg, Local
<1>8. left'.asks = left.asks - 1 /\ left'.asks \in Nat /\ left'.asks # conf.asks
  BY <1>2, Numbers, Known DEF WholeAssumption
<1>9. left'.asks <= left.asks
  BY <1>8, Numbers DEF WholeAssumption
<1>. QED  BY <1>2, <1>4, <1>5, <1>6, <1>7, <1>8, <1>9, TurnFine

\* A tracker ends a wait, but no request to a neighbour.
LEMMA TrackerFine ==
    ASSUME WholeAssumption, IInv, PartitionInv, Fine, NEW n \in Node, TrackerTimeout(n)
    PROVE  Fine'
<1>. DEFINE no == FALSE
            s == IF node[n].state = "WAITING_FOR_LEAVE_JOIN_RESPONSE" THEN "DOING_NOTHING" ELSE node[n].state
            g == [node[n] EXCEPT !.tracker = no, !.state = s]
<1>1. /\ node' = [node EXCEPT ![n].tracker = no, ![n].state = s]
      /\ conf' = conf /\ left' = left /\ net' = net
  BY Known DEF TrackerTimeout, IInv, TypeOK
<1>2. node[n] \in Balancer
  BY Known
<1>3. s = "SENT_REQ_LOCAL_NBR" <=> node[n].state = "SENT_REQ_LOCAL_NBR"
  OBVIOUS
<1>4. left.asks = conf.asks => s = node[n].state
  <2>1. left.asks = conf.asks => node[n].state # "WAITING_FOR_LEAVE_JOIN_RESPONSE"
    BY DEF Fine, Meet
  <2>. QED  BY <2>1
<1>. HIDE DEF s, no
<1>5. node' = [node EXCEPT ![n] = g]
  BY <1>1, Known DEF IInv, TypeOK
<1>6. /\ g.range = node[n].range /\ g.resets = node[n].resets /\ g.sentTo = node[n].sentTo /\ g.state = s
  BY <1>2 DEF Balancer
<1>. HIDE DEF g
<1>7. IsSent(g) = IsSent(node[n])
  BY <1>3, <1>6 DEF IsSent
<1>8. left'.asks \in Nat /\ left'.asks <= left.asks
  BY <1>1, Numbers DEF WholeAssumption
<1>. QED  BY <1>1, <1>4, <1>5, <1>6, <1>7, <1>8, TurnFine

\* A timer sends a denial, and only after somebody was asked.
LEMMA ExpiredFine ==
    ASSUME WholeAssumption, IInv, PartitionInv, Fine, NEW n \in Node, LeaveCheckExpired(n)
    PROVE  Fine'
<1>1. PICK r \in node[n].checkTimers :
        /\ node' = [node EXCEPT ![n].checkTimers = @ \ {r}] /\ conf' = conf /\ left' = left
        /\ net' = IF node[n].state = "CHECKING_SUCC"
                  THEN net \cup {Msg("LEAVEJOIN_DENIAL", n, r)} ELSE net
  BY Zenon DEF LeaveCheckExpired
<1>. DEFINE g == [node[n] EXCEPT !.checkTimers = @ \ {r}]
<1>2. node[n] \in Balancer
  BY Known
<1>3. node' = [node EXCEPT ![n] = g]
  BY <1>1, Known DEF IInv, TypeOK
<1>4. /\ g.state = node[n].state /\ g.range = node[n].range /\ g.resets = node[n].resets
      /\ g.sentTo = node[n].sentTo
  BY <1>2 DEF Balancer
<1>. HIDE DEF g
<1>5. IsSent(g) = IsSent(node[n])
  BY <1>4 DEF IsSent
<1>6. left'.asks \in Nat /\ left'.asks <= left.asks
  BY <1>1, Numbers DEF WholeAssumption
<1>7. \A m \in net \cup net' : m.type \in Local => m \in net /\ m \in net'
  BY <1>1 DEF Msg, Local
<1>8. left'.asks = conf.asks => net' \subseteq net
  BY <1>1 DEF Fine, Meet
<1>. QED  BY <1>1, <1>3, <1>4, <1>5, <1>6, <1>7, <1>8, TurnFine

\* Who has left gave up its range when it started to leave.
LEMMA LeftFine ==
    ASSUME WholeAssumption, IInv, PartitionInv, Fine, NEW n \in Node, Left(n)
    PROVE  Fine'
<1>. DEFINE g == [node[n] EXCEPT !.state = "LEFT"]
<1>1. /\ node[n].state = "STARTED_LEAVE_JOIN" /\ node' = [node EXCEPT ![n].state = "LEFT"]
      /\ conf' = conf /\ left' = left /\ net' = net
  BY DEF Left
<1>2. node[n] \in Balancer
  BY Known
<1>3. node' = [node EXCEPT ![n] = g]
  BY <1>1, Known DEF IInv, TypeOK
<1>4. /\ g.state = "LEFT" /\ g.range = node[n].range /\ g.resets = node[n].resets
      /\ g.sentTo = node[n].sentTo
  BY <1>2 DEF Balancer
<1>. HIDE DEF g
<1>5. IsSent(g) = IsSent(node[n])
  BY <1>1, <1>4 DEF IsSent
<1>6. left'.asks \in Nat /\ left'.asks <= left.asks
  BY <1>1, Numbers DEF WholeAssumption
<1>7. left'.asks # conf.asks
  BY <1>1 DEF Fine, Meet
<1>. QED  BY <1>1, <1>3, <1>4, <1>5, <1>6, <1>7, TurnFine

\* A node that becomes stable moves no boundary.
LEMMA MakeStableFine ==
    ASSUME WholeAssumption, IInv, PartitionInv, Fine, NEW n \in Node, MakeStable(n)
    PROVE  Fine'
<1>. DEFINE no == FALSE
            g == [node[n] EXCEPT !.unstable = no]
<1>1. node' = [node EXCEPT ![n].unstable = no] /\ conf' = conf /\ left' = left /\ net' = net
  BY Zenon DEF MakeStable
<1>2. node[n] \in Balancer
  BY Known
<1>. HIDE DEF no
<1>3. node' = [node EXCEPT ![n] = g]
  BY <1>1, Known DEF IInv, TypeOK
<1>4. /\ g.state = node[n].state /\ g.range = node[n].range /\ g.resets = node[n].resets
      /\ g.sentTo = node[n].sentTo
  BY <1>2 DEF Balancer
<1>. HIDE DEF g
<1>5. IsSent(g) = IsSent(node[n])
  BY <1>4 DEF IsSent
<1>6. left'.asks \in Nat /\ left'.asks <= left.asks
  BY <1>1, Numbers DEF WholeAssumption
<1>. QED  BY <1>1, <1>3, <1>4, <1>5, <1>6, TurnFine

\* No node changes, and only messages about leaving come or go.
LEMMA IdleFine ==
    ASSUME WholeAssumption, IInv, PartitionInv, Fine, node' = node, conf' = conf,
           left'.asks \in Nat, left'.asks <= left.asks,
           \A m \in net \cup net' : m.type \in Local => m \in net /\ m \in net',
           left'.asks = conf.asks => net' \subseteq net
    PROVE  Fine'
<1>1. \A n \in Node : Aside(n)
  BY DEF Aside
<1>2. \A n \in Node : n \in Node
  OBVIOUS
<1>3. CASE Node = {}
  BY <1>3 DEF WholeAssumption, BalanceAssumption, Node
<1>4. CASE Node # {}
  <2>1. PICK n \in Node : TRUE
    BY <1>4
  <2>. QED  BY <1>1, <2>1, Numbers, AsideFine DEF WholeAssumption
<1>. QED  BY <1>3, <1>4

\* A node that is asked to leave has no request to a neighbour under way.
LEMMA LeaveJoinRequestFine ==
    ASSUME WholeAssumption, IInv, PartitionInv, Fine, NEW m \in net, HandleLeaveJoinLBRequest(m)
    PROVE  Fine'
<1>. DEFINE n == m.to
            req == Msg("LCHECK_REQUEST", n, Succ(n))
            denial == Msg("LEAVEJOIN_DENIAL", n, m.from)
<1>1. /\ m.type = "LEAVEJOIN_LB_REQUEST" /\ m.type \notin Local /\ n \in Node /\ node[n] \in Balancer
      /\ conf' = conf /\ left' = left
  BY Known DEF HandleLeaveJoinLBRequest, Local
<1>2. left'.asks \in Nat /\ left'.asks <= left.asks /\ left'.asks # conf.asks
  BY <1>1, Numbers, SomebodyAsked DEF WholeAssumption
<1>3. \/ net' = net \ {m} /\ node' = node
      \/ net' = (net \ {m}) \cup {denial} /\ node' = node
      \/ /\ ~IsSent(node[n])
         /\ net' = (net \ {m}) \cup {req}
         /\ node' = [node EXCEPT ![n].state = "CHECKING_SUCC", ![n].requestor = m.from,
                                 ![n].checkTimers = @ \cup {m.from}]
  BY Zenon DEF HandleLeaveJoinLBRequest, Deny, IsLoadBalanceOngoing, IsSent
<1>4. \A x \in net \cup net' : x.type \in Local => x \in net /\ x \in net'
  BY <1>1, <1>3 DEF Msg, Local
<1>5. CASE node' = node
  BY <1>1, <1>2, <1>4, <1>5, IdleFine
<1>6. CASE /\ ~IsSent(node[n])
           /\ node' = [node EXCEPT ![n].state = "CHECKING_SUCC", ![n].requestor = m.from,
                                   ![n].checkTimers = @ \cup {m.from}]
  <2>. DEFINE g == [node[n] EXCEPT !.state = "CHECKING_SUCC", !.requestor = m.from,
                                   !.checkTimers = @ \cup {m.from}]
  <2>1. node' = [node EXCEPT ![n] = g]
    BY <1>1, <1>6, Known DEF IInv, TypeOK
  <2>2. /\ g.state = "CHECKING_SUCC" /\ g.range = node[n].range /\ g.resets = node[n].resets
        /\ g.sentTo = node[n].sentTo
    BY <1>1 DEF Balancer
  <2>. HIDE DEF g
  <2>3. IsSent(g) = IsSent(node[n])
    BY <1>6, <2>2 DEF IsSent
  <2>. HIDE DEF n
  <2>. QED  BY <1>1, <1>2, <1>4, <2>1, <2>2, <2>3, TurnFine
<1>. QED  BY <1>3, <1>5, <1>6

\* A denial can end a request to a neighbour, but not before somebody was asked to leave.
LEMMA DenialFine ==
    ASSUME WholeAssumption, IInv, PartitionInv, Fine, NEW m \in net, HandleLeaveJoinDenial(m)
    PROVE  Fine'
<1>. DEFINE n == m.to
            no == FALSE
            yes == TRUE
<1>1. /\ m.type = "LEAVEJOIN_DENIAL" /\ m.type \notin Local /\ n \in Node /\ node[n] \in Balancer
      /\ conf' = conf /\ left' = left
  BY Known DEF HandleLeaveJoinDenial, Local
<1>2. left'.asks \in Nat /\ left'.asks <= left.asks /\ left'.asks # conf.asks
  BY <1>1, Numbers, SomebodyAsked DEF WholeAssumption
<1>3. \/ net' = net \ {m} /\ node' = node
      \/ net' = net \ {m} /\ node' = [node EXCEPT ![n].tracker = no, ![n].state = "DOING_NOTHING"]
      \/ net' = net \ {m} /\ node' = [node EXCEPT ![n].tracker = no]
      \/ \E c \in node[n].light \ {m.from} :
            /\ net' = (net \ {m}) \cup {Msg("LEAVEJOIN_LB_REQUEST", n, c)}
            /\ node' = [node EXCEPT ![n].state = node[n].state, ![n].light = @ \ {c}, ![n].tracker = yes]
  BY Zenon DEF HandleLeaveJoinDenial, Ask
<1>. HIDE DEF no, yes
<1>4. \A x \in net \cup net' : x.type \in Local => x \in net /\ x \in net'
  <2>1. net' = net \ {m} \/ \E c : net' = (net \ {m}) \cup {Msg("LEAVEJOIN_LB_REQUEST", n, c)}
    BY <1>3, Zenon
  <2>. QED  BY <1>1, <2>1 DEF Msg, Local
<1>5. CASE node' = node
  BY <1>1, <1>2, <1>4, <1>5, IdleFine
<1>6. CASE node' = [node EXCEPT ![n].tracker = no, ![n].state = "DOING_NOTHING"]
  <2>. DEFINE g == [node[n] EXCEPT !.tracker = no, !.state = "DOING_NOTHING"]
  <2>1. node' = [node EXCEPT ![n] = g]
    BY <1>1, <1>6, Known DEF IInv, TypeOK
  <2>2. /\ g.state = "DOING_NOTHING" /\ g.range = node[n].range /\ g.resets = node[n].resets
    BY <1>1 DEF Balancer
  <2>. HIDE DEF g, n
  <2>3. node'[n] = g /\ \A k \in Node \ {n} : node'[k] = node[k]
    BY <1>1, <2>1, Changes
  <2>4. Fewer(n)
    BY <1>4, <2>2, <2>3 DEF Fewer, IsSent, Local
  <2>5. Unasked(n)
    BY <1>2 DEF Unasked
  <2>. QED  BY <1>1, <1>2, <2>4, <2>5, Numbers, FineFewer DEF WholeAssumption
<1>7. CASE node' = [node EXCEPT ![n].tracker = no]
  <2>. DEFINE g == [node[n] EXCEPT !.tracker = no]
  <2>1. node' = [node EXCEPT ![n] = g]
    BY <1>1, <1>7, Known DEF IInv, TypeOK
  <2>2. /\ g.state = node[n].state /\ g.range = node[n].range /\ g.resets = node[n].resets
        /\ g.sentTo = node[n].sentTo
    BY <1>1 DEF Balancer
  <2>. HIDE DEF g, n
  <2>3. IsSent(g) = IsSent(node[n])
    BY <2>2 DEF IsSent
  <2>. QED  BY <1>1, <1>2, <1>4, <2>1, <2>2, <2>3, TurnFine
<1>8. CASE \E c \in node[n].light \ {m.from} :
             node' = [node EXCEPT ![n].state = node[n].state, ![n].light = @ \ {c}, ![n].tracker = yes]
  <2>1. PICK c \in node[n].light \ {m.from} :
             node' = [node EXCEPT ![n].state = node[n].state, ![n].light = @ \ {c}, ![n].tracker = yes]
    BY <1>8
  <2>. DEFINE g == [node[n] EXCEPT !.state = node[n].state, !.light = @ \ {c}, !.tracker = yes]
  <2>2. node' = [node EXCEPT ![n] = g]
    BY <1>1, <2>1, Known DEF IInv, TypeOK
  <2>3. /\ g.state = node[n].state /\ g.range = node[n].range /\ g.resets = node[n].resets
        /\ g.sentTo = node[n].sentTo
    BY <1>1 DEF Balancer
  <2>. HIDE DEF g, n
  <2>4. IsSent(g) = IsSent(node[n])
    BY <2>3 DEF IsSent
  <2>. QED  BY <1>1, <1>2, <1>4, <2>2, <2>3, <2>4, TurnFine
<1>. QED  BY <1>3, <1>5, <1>6, <1>7, <1>8

\* A successor's word moves no boundary.
LEMMA CheckRequestFine ==
    ASSUME WholeAssumption, IInv, PartitionInv, Fine, NEW m \in net, HandleLeaveCheckRequest(m)
    PROVE  Fine'
<1>. DEFINE n == m.to
            yes == TRUE
<1>1. /\ m.type = "LCHECK_REQUEST" /\ m.type \notin Local /\ n \in Node /\ node[n] \in Balancer
      /\ conf' = conf /\ left' = left
  BY Known DEF HandleLeaveCheckRequest, Local
<1>2. left'.asks \in Nat /\ left'.asks <= left.asks /\ left'.asks # conf.asks
  BY <1>1, Numbers, SomebodyAsked DEF WholeAssumption
<1>. DEFINE Resp(agrees) == [type |-> "LCHECK_RESPONSE", from |-> n, to |-> m.from,
                             ok |-> agrees /\ ~IsLoadBalanceOngoing(node[n]) /\ ~node[n].unstable]
<1>3. PICK agrees \in BOOLEAN :
         net' = (net \ {m}) \cup IF node[n].range = None THEN {} ELSE {Resp(agrees)}
  BY Zenon DEF HandleLeaveCheckRequest
<1>4. \A x \in net \cup net' : x.type \in Local => x \in net /\ x \in net'
  BY <1>1, <1>3 DEF Local
<1>5. node' = node \/ node' = [node EXCEPT ![n].unstable = yes]
  BY Zenon DEF HandleLeaveCheckRequest
<1>6. CASE node' = node
  BY <1>1, <1>2, <1>4, <1>6, IdleFine
<1>7. CASE node' = [node EXCEPT ![n].unstable = yes]
  <2>. HIDE DEF yes
  <2>. DEFINE g == [node[n] EXCEPT !.unstable = yes]
  <2>1. node' = [node EXCEPT ![n] = g]
    BY <1>1, <1>7, Known DEF IInv, TypeOK
  <2>2. /\ g.state = node[n].state /\ g.range = node[n].range /\ g.resets = node[n].resets
        /\ g.sentTo = node[n].sentTo
    BY <1>1 DEF Balancer
  <2>. HIDE DEF g, n
  <2>3. IsSent(g) = IsSent(node[n])
    BY <2>2 DEF IsSent
  <2>. QED  BY <1>1, <1>2, <1>4, <2>1, <2>2, <2>3, TurnFine
<1>. QED  BY <1>5, <1>6, <1>7

\* A node that starts to leave gives up its range.
LEMMA CheckResponseFine ==
    ASSUME WholeAssumption, IInv, PartitionInv, Fine, NEW m \in net, HandleLeaveCheckResponse(m)
    PROVE  Fine'
<1>. DEFINE n == m.to
            waiting == node[n].range # None /\ node[n].state = "CHECKING_SUCC"
<1>1. /\ m.type = "LCHECK_RESPONSE" /\ m.type \notin Local /\ n \in Node /\ node[n] \in Balancer
      /\ conf' = conf /\ left' = left
  BY Known DEF HandleLeaveCheckResponse, Local
<1>2. left'.asks \in Nat /\ left'.asks <= left.asks /\ left'.asks # conf.asks
  BY <1>1, Numbers, SomebodyAsked DEF WholeAssumption
<1>3. net' = (net \ {m}) \cup
          IF waiting /\ ~m.ok THEN {Msg("LEAVEJOIN_DENIAL", n, node[n].requestor)} ELSE {}
  BY Zenon DEF HandleLeaveCheckResponse
<1>4. \A x \in net \cup net' : x.type \in Local => x \in net /\ x \in net'
  BY <1>1, <1>3 DEF Msg, Local
<1>5. \/ node' = node
      \/ /\ waiting
         /\ node' = [node EXCEPT ![n].state = "STARTED_LEAVE_JOIN", ![n].range = None, ![n].requestor = None]
      \/ waiting /\ node' = [node EXCEPT ![n].state = "DOING_NOTHING", ![n].requestor = None]
  BY Zenon DEF HandleLeaveCheckResponse
<1>6. CASE node' = node
  BY <1>1, <1>2, <1>4, <1>6, IdleFine
<1>7. CASE node' = [node EXCEPT ![n].state = "STARTED_LEAVE_JOIN", ![n].range = None, ![n].requestor = None]
  <2>. DEFINE g == [node[n] EXCEPT !.state = "STARTED_LEAVE_JOIN", !.range = None, !.requestor = None]
  <2>1. node' = [node EXCEPT ![n] = g]
    BY <1>1, <1>7, Known DEF IInv, TypeOK
  <2>2. g.state = "STARTED_LEAVE_JOIN" /\ g.range = None /\ g.resets = node[n].resets
    BY <1>1 DEF Balancer
  <2>. HIDE DEF g, n
  <2>3. node'[n] = g /\ \A k \in Node \ {n} : node'[k] = node[k]
    BY <1>1, <2>1, Changes
  <2>4. Fewer(n)
    BY <1>4, <2>2, <2>3 DEF Fewer, IsSent, Local
  <2>5. Unasked(n)
    BY <1>2 DEF Unasked
  <2>. QED  BY <1>1, <1>2, <2>4, <2>5, Numbers, FineFewer DEF WholeAssumption
<1>8. CASE waiting /\ node' = [node EXCEPT ![n].state = "DOING_NOTHING", ![n].requestor = None]
  <2>. DEFINE g == [node[n] EXCEPT !.state = "DOING_NOTHING", !.requestor = None]
  <2>1. node' = [node EXCEPT ![n] = g]
    BY <1>1, <1>8, Known DEF IInv, TypeOK
  <2>2. /\ g.state = "DOING_NOTHING" /\ g.range = node[n].range /\ g.resets = node[n].resets
        /\ g.sentTo = node[n].sentTo
    BY <1>1 DEF Balancer
  <2>. HIDE DEF g
  <2>3. IsSent(g) = IsSent(node[n])
    BY <1>8, <2>2 DEF IsSent
  <2>. HIDE DEF n
  <2>. QED  BY <1>1, <1>2, <1>4, <2>1, <2>2, <2>3, TurnFine
<1>. QED  BY <1>5, <1>6, <1>7, <1>8

\* A request is refused or lost, or an answer comes to a node that does not wait.
LEMMA RefusedFine ==
    ASSUME WholeAssumption, IInv, PartitionInv, Fine, NEW m \in net, net' = net \ {m}, node' = node, conf' = conf,
           left'.asks = left.asks,
           m.type = "LOCAL_LB_RESPONSE" => ~IsSent(node[m.to])
    PROVE  Fine'
<1>1. m.to \in Node
  BY Known
<1>2. Fewer(m.to)
  BY DEF Fewer
<1>3. Unasked(m.to)
  BY DEF Unasked, Fine, Meet
<1>4. left'.asks \in Nat /\ left'.asks <= left.asks
  BY Numbers DEF WholeAssumption
<1>. QED  BY <1>1, <1>2, <1>3, <1>4, Numbers, FineFewer DEF WholeAssumption

\* No answer is lost, and a request that is lost was not answered.
LEMMA LoseFine ==
    ASSUME WholeAssumption, IInv, PartitionInv, Fine, NEW m \in net, Lose(m)
    PROVE  Fine'
<1>1. /\ net' = net \ {m} /\ node' = node /\ conf' = conf /\ m.type # "LOCAL_LB_RESPONSE"
      /\ \E lost : left' = [left EXCEPT !.losses = @ - 1, !.unheard = @ \cup lost]
  BY DEF Lose
<1>2. left'.asks = left.asks
  BY <1>1, Known DEF Bounds
<1>. QED  BY <1>1, <1>2, RefusedFine

-----------------------------------------------------------------------------
(***************************************************************************)
(* Requests and answers.                                                   *)
(***************************************************************************)

\* A range that gives up no more than half of itself is still one (HandleLocalLBRequest).
LEMMA Halved ==
    ASSUME AbsMax \in Nat \ {0}, NEW a \in 0 .. AbsMax, NEW b \in 0 .. AbsMax, Size(a, b) > 0,
           NEW change \in Nat, 2 * change <= (IF a <= b THEN b - a ELSE (AbsMax - 1) - a + b)
    PROVE  LET max == b - change
               min == a + change
               curmax == IF max < 0 THEN max + AbsMax ELSE max
               curmin == IF min > AbsMax THEN min - AbsMax ELSE min
           IN  /\ curmax \in 0 .. AbsMax /\ Size(a, curmax) > 0 /\ Size(a, curmax) <= Size(a, b)
               /\ curmin \in 0 .. AbsMax /\ Size(curmin, b) > 0 /\ Size(curmin, b) <= Size(a, b)
BY DEF Size

\* What is moved leaves something to who gives, and starts where that ends.
LEMMA MoveSize ==
    ASSUME BalanceAssumption, NEW h \in Balancer, h.range # None, Size(h.range.min, h.range.max) > 0,
           NEW m, m.range \in NodeRange, m.load \in Nat \ {0}, h.load >= Delta * m.load,
           NEW toSucc \in BOOLEAN
    PROVE  LET mine == Move(h, m, toSucc).mine
               yours == Move(h, m, toSucc).yours
           IN  /\ Size(mine.min, mine.max) > 0
               /\ Size(mine.min, mine.max) <= Size(h.range.min, h.range.max)
               /\ toSucc => mine.min = h.range.min /\ yours.min = mine.max /\ yours.max = m.range.max
               /\ ~toSucc => mine.max = h.range.max /\ yours.max = mine.min /\ yours.min = m.range.min
<1>. DEFINE span == RangeSpan(h.range)
            l == h.load
            d == h.load - m.load
            change == (span * d) \div (2 * l)
            a == h.range.min
            b == h.range.max
<1>1. l \in Nat \ {0} /\ h.range \in NodeRange /\ AbsMax \in Nat \ {0} /\ Delta \in Nat \ {0}
  BY DEF Balancer, BalanceAssumption
<1>2. d \in 0 .. l
  <2>1. m.load <= Delta * m.load
    BY <1>1
  <2>2. Delta * m.load \in Nat
    BY <1>1
  <2>. QED  BY <1>1, <2>1, <2>2
<1>3. a \in 0 .. AbsMax /\ b \in 0 .. AbsMax
  BY <1>1 DEF NodeRange
<1>4. span \in Nat /\ span = IF a <= b THEN b - a ELSE (AbsMax - 1) - a + b
  BY <1>1, <1>3 DEF RangeSpan, GetSpan, Size
<1>. HIDE DEF span, l, d
<1>5. change \in Nat /\ 2 * change <= span
  BY <1>1, <1>2, <1>4, Share
<1>. HIDE DEF change
<1>. DEFINE max == b - change
            min == a + change
            curmax == IF max < 0 THEN max + AbsMax ELSE max
            curmin == IF min > AbsMax THEN min - AbsMax ELSE min
<1>6. /\ curmax \in 0 .. AbsMax /\ Size(a, curmax) > 0 /\ Size(a, curmax) <= Size(a, b)
      /\ curmin \in 0 .. AbsMax /\ Size(curmin, b) > 0 /\ Size(curmin, b) <= Size(a, b)
  BY <1>1, <1>3, <1>4, <1>5, Halved
<1>7. Move(h, m, toSucc) =
        IF toSucc THEN [mine  |-> [h.range EXCEPT !.max = curmax],
                        yours |-> [min |-> curmax, max |-> m.range.max]]
                  ELSE [mine  |-> [h.range EXCEPT !.min = curmin],
                        yours |-> [min |-> m.range.min, max |-> curmin]]
  BY Zenon DEF Move, change, l, d, span
<1>. HIDE DEF curmax, curmin
<1>8. [h.range EXCEPT !.max = curmax] = [min |-> a, max |-> curmax]
      /\ [h.range EXCEPT !.min = curmin] = [min |-> curmin, max |-> b]
  BY <1>1 DEF NodeRange
<1>9. CASE toSucc
  BY <1>6, <1>7, <1>8, <1>9
<1>10. CASE ~toSucc
  BY <1>6, <1>7, <1>8, <1>10
<1>. QED  BY <1>9, <1>10

\* A new request is the only one, as checks are apart, and tells the range the node has.
LEMMA DoLocalFine ==
    ASSUME WholeAssumption, IInv, PartitionInv, Fine, conf.apart, NEW n \in Node, DoLocalLoadBalance(n)
    PROVE  Fine'
<1>1. PICK to \in {Succ(n), Pred(n)} :
         /\ net' = net \cup {[type |-> "LOCAL_LB_REQUEST", from |-> n, to |-> to,
                              range |-> node[n].range, load |-> node[n].load]}
         /\ node' = [node EXCEPT ![n].state = "SENT_REQ_LOCAL_NBR", ![n].sentTo = to,
                                 ![n].resets = @ + 1]
  BY DEF DoLocalLoadBalance
<1>. DEFINE g == [node[n] EXCEPT !.state = "SENT_REQ_LOCAL_NBR", !.sentTo = to, !.resets = @ + 1]
            req == [type |-> "LOCAL_LB_REQUEST", from |-> n, to |-> to,
                    range |-> node[n].range, load |-> node[n].load]
<1>2. /\ node[n].range # None /\ node[n].resets = 0 /\ ~IsSent(node[n])
      /\ left' = [left EXCEPT !.checks = @ - 1] /\ conf' = conf /\ node[n] \in Balancer
  BY Known DEF DoLocalLoadBalance, IsSent, IsLoadBalanceOngoing
<1>3. node'[n] = g /\ \A k \in Node \ {n} : node'[k] = node[k]
  <2>1. node' = [node EXCEPT ![n] = g]
    BY <1>1, Known DEF IInv, TypeOK
  <2>. QED  BY <2>1, Changes
<1>4. /\ g.state = "SENT_REQ_LOCAL_NBR" /\ g.range = node[n].range /\ g.resets = 1 /\ g.sentTo = to
      /\ IsSent(g)
  BY <1>2 DEF Balancer, IsSent
<1>5. /\ req.type = "LOCAL_LB_REQUEST" /\ req.type \in Local /\ Requester(req) = n /\ req.from = n
      /\ req.to = to /\ req.range = node[n].range
  BY DEF Local, Requester
<1>6. \A m \in net : m.type \in Local => Requester(m) \in Node \ {n}
  <2>1. \A m \in net : m.type \in Local => node[Requester(m)].resets = 1 /\ Requester(m) \in Node
    BY Known DEF Fine, Exchange, Requester
  <2>. QED  BY <1>2, <2>1
<1>. HIDE DEF g, req
<1>7. net' = net \cup {req}
  BY <1>1 DEF req
<1>8. Exchange'
  <2>1. \A k \in Node :
          /\ node'[k].resets \in {0, 1} /\ (IsSent(node'[k]) => node'[k].range # None)
          /\ node'[k].range # None => Size(node'[k].range.min, node'[k].range.max) > 0
    BY <1>2, <1>3, <1>4 DEF Fine, Exchange
  <2>2. \A m, k \in net' :
            (m.type \in Local /\ k.type \in Local /\ Requester(m) = Requester(k)) => m = k
    BY <1>5, <1>6, <1>7 DEF Fine, Exchange
  <2>3. ASSUME NEW m \in net'
        PROVE  /\ m.type \in Local =>
                     m.to \in {Succ(m.from), Pred(m.from)} /\ node'[Requester(m)].resets = 1
               /\ m.type = "LOCAL_LB_REQUEST" /\ IsSent(node'[m.from]) =>
                     node'[m.from].range = m.range /\ node'[m.from].sentTo = m.to
               /\ m.type = "LOCAL_LB_RESPONSE" /\ IsSent(node'[m.to]) =>
                     /\ node'[m.to].sentTo = m.from
                     /\ Grown(m.to, m.from, node'[m.to].range, m.range)
    <3>1. CASE m = req
      BY <1>1, <1>3, <1>4, <1>5, <3>1
    <3>2. CASE m # req
      <4>1. m \in net
        BY <1>7, <3>2
      <4>2. /\ m.type \in Local =>
                  m.to \in {Succ(m.from), Pred(m.from)} /\ node[Requester(m)].resets = 1
            /\ m.type = "LOCAL_LB_REQUEST" /\ IsSent(node[m.from]) =>
                  node[m.from].range = m.range /\ node[m.from].sentTo = m.to
            /\ m.type = "LOCAL_LB_RESPONSE" /\ IsSent(node[m.to]) =>
                  node[m.to].sentTo = m.from /\ Grown(m.to, m.from, node[m.to].range, m.range)
        BY <4>1 DEF Fine, Exchange
      <4>3. m.type \in Local => node'[Requester(m)] = node[Requester(m)]
        BY <1>3, <1>6, <4>1
      <4>. QED  BY <4>2, <4>3 DEF Requester, Local
    <3>. QED  BY <3>1, <3>2
  <2>. QED  BY <2>1, <2>2, <2>3 DEF Exchange
<1>9. Dues' = Dues
  <2>1. ASSUME NEW k \in Node  PROVE Due(node', net', k) = Due(node, net, k)
    <3>1. CASE k = n
      <4>1. Answers(node, net, n) = {} /\ Answers(node', net', n) = {}
        BY <1>5, <1>6, <1>7 DEF Answers, Requester, Local
      <4>. QED  BY <1>3, <1>4, <3>1, <4>1, DueIs
    <3>2. CASE k # n
      <4>1. node'[k] = node[k]
        BY <1>3, <3>2
      <4>2. Answers(node', net', k) = Answers(node, net, k)
        BY <1>5, <1>7, <4>1 DEF Answers
      <4>. QED  BY <4>1, <4>2 DEF Due
    <3>. QED  BY <3>1, <3>2
  <2>. QED  BY <2>1 DEF Dues
<1>10. Meet'
  <2>1. left'.asks = left.asks
    BY <1>2, Known
  <2>. SUFFICES ASSUME left.asks = conf.asks
                PROVE  /\ \A m \in net' : m.type \in Local /\ IsSent(node'[Requester(m)])
                       /\ \A k \in Node : /\ node'[k].state \in {"DOING_NOTHING", "SENT_REQ_LOCAL_NBR"}
                                          /\ node'[k].range # None
                                          /\ Point(Dues'[k].max) = Point(Dues'[Succ(k)].min)
    BY <1>2, <2>1 DEF Meet
  <2>2. /\ \A m \in net : m.type \in Local /\ IsSent(node[Requester(m)])
        /\ \A k \in Node : /\ node[k].state \in {"DOING_NOTHING", "SENT_REQ_LOCAL_NBR"}
                           /\ node[k].range # None
                           /\ Point(Dues[k].max) = Point(Dues[Succ(k)].min)
    BY DEF Fine, Meet
  <2>3. \A m \in net' : m.type \in Local /\ IsSent(node'[Requester(m)])
    BY <1>3, <1>4, <1>5, <1>6, <1>7, <2>2
  <2>4. \A k \in Node : /\ node'[k].state \in {"DOING_NOTHING", "SENT_REQ_LOCAL_NBR"}
                        /\ node'[k].range # None
    BY <1>3, <1>4, <2>2
  <2>. QED  BY <1>9, <2>2, <2>3, <2>4
<1>. QED  BY <1>8, <1>9, <1>10 DEF Fine

\* What was due to a node is what it has afterwards.
LEMMA LocalResponseFine ==
    ASSUME WholeAssumption, IInv, PartitionInv, Fine, NEW m \in net, HandleLocalLBResponse(m)
    PROVE  Fine'
<1>. DEFINE n == m.to
            h == node[n]
            taken == h.range # None /\ h.state = "SENT_REQ_LOCAL_NBR" /\ h.sentTo = m.from
            g == [h EXCEPT !.range = m.range, !.load = m.load, !.sentTo = None, !.state = "DOING_NOTHING"]
<1>1. /\ m.type = "LOCAL_LB_RESPONSE" /\ m.type \in Local /\ n \in Node /\ Requester(m) = n
      /\ m.range \in NodeRange /\ m.range # None /\ h \in Balancer
      /\ conf' = conf /\ left' = left /\ net' = net \ {m}
  BY Known DEF HandleLocalLBResponse, Local, Requester, WholeAssumption, BalanceAssumption
<1>2. CASE ~IsSent(h)
  <2>1. node' = node
    BY <1>2 DEF HandleLocalLBResponse, IsSent
  <2>. QED  BY <1>1, <1>2, <2>1, RefusedFine
<1>3. CASE IsSent(h)
  <2>1. taken
    BY <1>1, <1>3 DEF Fine, Exchange, IsSent
  <2>2. node'[n] = g /\ \A k \in Node \ {n} : node'[k] = node[k]
    <3>1. node' = [node EXCEPT ![n].range = m.range, ![n].load = m.load,
                               ![n].sentTo = None, ![n].state = "DOING_NOTHING"]
      BY <2>1, Zenon DEF HandleLocalLBResponse
    <3>2. node' = [node EXCEPT ![n] = g]
      BY <1>1, <3>1, Known DEF IInv, TypeOK
    <3>. QED  BY <1>1, <3>2, Changes
  <2>3. /\ g.range = m.range /\ g.resets = h.resets /\ g.state = "DOING_NOTHING" /\ ~IsSent(g)
    BY <1>1 DEF Balancer, IsSent
  <2>4. Due(node, net, n) = m.range
    <3>1. m \in Answers(node, net, n)
      BY <1>1, <1>3 DEF Answers
    <3>. QED  BY <3>1, AnswerOnly DEF Fine
  <2>5. \A k \in net' : k \in net /\ (k.type \in Local => Requester(k) \in Node \ {n})
    <3>1. \A k \in net : k.type \in Local /\ Requester(k) = n => k = m
      BY <1>1 DEF Fine, Exchange
    <3>. QED  BY <1>1, <3>1, Known DEF Requester
  <2>6. Size(m.range.min, m.range.max) > 0
    <3>1. Dues[n] = m.range
      BY <1>1, <2>4 DEF Dues
    <3>. QED  BY <1>1, <3>1 DEF Fine, Spread
  <2>. HIDE DEF g, n, h
  <2>7. Exchange'
    <3>1. \A k \in Node :
            /\ node'[k].resets \in {0, 1} /\ (IsSent(node'[k]) => node'[k].range # None)
            /\ node'[k].range # None => Size(node'[k].range.min, node'[k].range.max) > 0
      BY <2>2, <2>3, <2>6 DEF Fine, Exchange, h
    <3>2. \A x, k \in net' :
              (x.type \in Local /\ k.type \in Local /\ Requester(x) = Requester(k)) => x = k
      BY <2>5 DEF Fine, Exchange
    <3>3. ASSUME NEW x \in net'
          PROVE  /\ x.type \in Local =>
                       x.to \in {Succ(x.from), Pred(x.from)} /\ node'[Requester(x)].resets = 1
                 /\ x.type = "LOCAL_LB_REQUEST" /\ IsSent(node'[x.from]) =>
                       node'[x.from].range = x.range /\ node'[x.from].sentTo = x.to
                 /\ x.type = "LOCAL_LB_RESPONSE" /\ IsSent(node'[x.to]) =>
                       /\ node'[x.to].sentTo = x.from
                       /\ Grown(x.to, x.from, node'[x.to].range, x.range)
      <4>1. /\ x.type \in Local =>
                  x.to \in {Succ(x.from), Pred(x.from)} /\ node[Requester(x)].resets = 1
            /\ x.type = "LOCAL_LB_REQUEST" /\ IsSent(node[x.from]) =>
                  node[x.from].range = x.range /\ node[x.from].sentTo = x.to
            /\ x.type = "LOCAL_LB_RESPONSE" /\ IsSent(node[x.to]) =>
                  node[x.to].sentTo = x.from /\ Grown(x.to, x.from, node[x.to].range, x.range)
        BY <2>5 DEF Fine, Exchange
      <4>2. x.type \in Local => node'[Requester(x)] = node[Requester(x)]
        BY <2>2, <2>5
      <4>. QED  BY <4>1, <4>2 DEF Requester, Local
    <3>. QED  BY <3>1, <3>2, <3>3 DEF Exchange
  <2>8. Dues' = Dues
    <3>1. ASSUME NEW k \in Node  PROVE Due(node', net', k) = Due(node, net, k)
      <4>1. CASE k = n
        <5>1. Answers(node', net', n) = {}
          BY <2>2, <2>3 DEF Answers
        <5>. QED  BY <2>2, <2>3, <2>4, <4>1, <5>1, DueIs
      <4>2. CASE k # n
        <5>1. node'[k] = node[k]
          BY <2>2, <4>2
        <5>2. Answers(node', net', k) = Answers(node, net, k)
          BY <1>1, <4>2, <5>1 DEF Answers, n
        <5>. QED  BY <5>1, <5>2 DEF Due
      <4>. QED  BY <4>1, <4>2
    <3>. QED  BY <3>1 DEF Dues
  <2>9. Meet'
    <3>. SUFFICES ASSUME left.asks = conf.asks
                  PROVE  /\ \A x \in net' : x.type \in Local /\ IsSent(node'[Requester(x)])
                         /\ \A k \in Node : /\ node'[k].state \in {"DOING_NOTHING", "SENT_REQ_LOCAL_NBR"}
                                            /\ node'[k].range # None
                                            /\ Point(Dues'[k].max) = Point(Dues'[Succ(k)].min)
      BY <1>1 DEF Meet
    <3>1. /\ \A x \in net : x.type \in Local /\ IsSent(node[Requester(x)])
          /\ \A k \in Node : /\ node[k].state \in {"DOING_NOTHING", "SENT_REQ_LOCAL_NBR"}
                             /\ node[k].range # None
                             /\ Point(Dues[k].max) = Point(Dues[Succ(k)].min)
      BY DEF Fine, Meet
    <3>2. \A x \in net' : x.type \in Local /\ IsSent(node'[Requester(x)])
      BY <2>2, <2>5, <3>1
    <3>3. \A k \in Node : /\ node'[k].state \in {"DOING_NOTHING", "SENT_REQ_LOCAL_NBR"}
                          /\ node'[k].range # None
      BY <1>1, <2>2, <2>3, <3>1
    <3>. QED  BY <2>8, <3>1, <3>2, <3>3
  <2>. QED  BY <2>7, <2>8, <2>9 DEF Fine
<1>. QED  BY <1>2, <1>3

\* One neighbour gives the other part of its range (HandleLocalLBRequest): what n gives up, the
\* requester takes, if it still waits.
LEMMA Given ==
    ASSUME WholeAssumption, NEW ef, Spread(ef), NEW n \in Node, NEW r \in {Succ(n), Pred(n)},
           ef[n] # None, NEW mine \in NodeRange, NEW yours \in NodeRange, NEW s \in NodeRange,
           Size(mine.min, mine.max) > 0, Size(mine.min, mine.max) <= Size(ef[n].min, ef[n].max),
           r = Succ(n) => mine.min = ef[n].min /\ yours.min = mine.max /\ yours.max = s.max,
           r # Succ(n) => mine.max = ef[n].max /\ yours.max = mine.min /\ yours.min = s.min
    PROVE  /\ Spread(Put(ef, n, mine))
           /\ ef[r] = s => Spread(Put(Put(ef, n, mine), r, yours)) /\ Grown(r, n, s, yours)
<1>. DEFINE mid == Put(ef, n, mine)
<1>1. /\ r \in Node /\ r # n /\ Succ(Pred(n)) = n /\ Pred(Succ(n)) = n /\ None \notin NodeRange
      /\ n \in {Succ(r), Pred(r)} /\ (r = Succ(n) => n = Pred(r)) /\ (r # Succ(n) => n = Succ(r))
  BY Ends
<1>2. Spread(mid)
  BY LessMax, LessMin
<1>3. mid[n] = mine /\ mid[r] = ef[r]
  BY <1>1, PutIs
<1>. HIDE DEF mid
<1>4. ASSUME ef[r] = s  PROVE Spread(Put(mid, r, yours)) /\ Grown(r, n, s, yours)
  <2>1. mid[r] = s /\ s # None /\ mine # None
    BY <1>1, <1>3, <1>4
  <2>2. CASE r = Succ(n)
    <3>1. Spread(Put(mid, r, yours)) /\ Size(s.min, s.max) <= Size(yours.min, yours.max)
      BY <1>1, <1>2, <1>3, <2>1, <2>2, MoreMin
    <3>. QED  BY <1>1, <2>2, <3>1 DEF Grown
  <2>3. CASE r # Succ(n)
    <3>1. Spread(Put(mid, r, yours)) /\ Size(s.min, s.max) <= Size(yours.min, yours.max)
      BY <1>1, <1>2, <1>3, <2>1, <2>3, MoreMax
    <3>. QED  BY <1>1, <2>3, <3>1 DEF Grown
  <2>. QED  BY <2>2, <2>3
<1>. QED  BY <1>2, <1>4 DEF mid

\* Who answers gives up what is due to the other from then on: one boundary moves.
LEMMA LocalRequestFine ==
    ASSUME WholeAssumption, IInv, PartitionInv, Fine, NEW m \in net, HandleLocalLBRequest(m)
    PROVE  Fine'
<1>. DEFINE n == m.to
            r == m.from
            h == node[n]
            next == m.from = Succ(n)
            moved == Move(h, m, next)
            load == (h.load + m.load) \div 2
            mine == moved.mine
            yours == moved.yours
            resp == [type |-> "LOCAL_LB_RESPONSE", from |-> n, to |-> m.from,
                     range |-> yours, load |-> load]
            g == [h EXCEPT !.range = mine, !.load = load, !.answered = @ \cup {m.from}]
<1>1. /\ m.type = "LOCAL_LB_REQUEST" /\ m.type \in Local /\ n \in Node /\ r \in Node
      /\ m.range \in NodeRange /\ m.load \in Nat \ {0} /\ h \in Balancer /\ Requester(m) = r
      /\ conf' = conf /\ left' = left
  BY Known DEF HandleLocalLBRequest, Local, Requester
<1>2. CASE ~Accepts(h, m)
  <2>1. net' = net \ {m} /\ node' = node
    BY <1>2 DEF HandleLocalLBRequest
  <2>. QED  BY <1>1, <2>1, RefusedFine
<1>3. CASE Accepts(h, m)
  <2>1. /\ h.range # None /\ h.load >= Delta * m.load /\ ~IsSent(h)
    BY <1>3 DEF Accepts, IsLoadBalanceOngoing, IsSent
  <2>2. node'[n] = g /\ \A k \in Node \ {n} : node'[k] = node[k]
    <3>1. node' = [node EXCEPT ![n].range = mine, ![n].load = load, ![n].answered = @ \cup {m.from}]
      BY <1>3, Zenon DEF HandleLocalLBRequest
    <3>2. node' = [node EXCEPT ![n] = g]
      BY <1>1, <3>1, Known DEF IInv, TypeOK
    <3>. QED  BY <1>1, <3>2, Changes
  <2>3. net' = (net \ {m}) \cup {resp}
    BY <1>3, Zenon DEF HandleLocalLBRequest
  <2>4. /\ r \in {Succ(n), Pred(n)} /\ r # n /\ n \in {Succ(r), Pred(r)}
        /\ node[r].resets = 1
        /\ IsSent(node[r]) => node[r].range = m.range /\ node[r].sentTo = n
    <3>1. /\ n \in {Succ(r), Pred(r)} /\ node[r].resets = 1
          /\ IsSent(node[r]) => node[r].range = m.range /\ node[r].sentTo = n
      BY <1>1 DEF Fine, Exchange
    <3>. QED  BY <1>1, <3>1, Around, AroundBack DEF WholeAssumption
  <2>5. Size(h.range.min, h.range.max) > 0
    BY <1>1, <2>1 DEF Fine, Exchange
  <2>6. mine \in NodeRange /\ yours \in NodeRange
    <3>. HIDE DEF next, h, n
    <3>. QED  BY <1>1, <2>1, MoveOK, Zenon DEF WholeAssumption
  <2>7. /\ Size(mine.min, mine.max) > 0
        /\ Size(mine.min, mine.max) <= Size(h.range.min, h.range.max)
        /\ next => mine.min = h.range.min /\ yours.min = mine.max /\ yours.max = m.range.max
        /\ ~next => mine.max = h.range.max /\ yours.max = mine.min /\ yours.min = m.range.min
    <3>1. next \in BOOLEAN
      OBVIOUS
    <3>. HIDE DEF next, h, n
    <3>. QED  BY <1>1, <2>1, <2>5, <3>1, MoveSize DEF WholeAssumption
  <2>. HIDE DEF moved, load
  <2>8. /\ g.range = mine /\ g.resets = h.resets /\ g.state = h.state /\ ~IsSent(g)
    BY <1>1, <2>1 DEF Balancer, IsSent
  <2>9. /\ resp.type = "LOCAL_LB_RESPONSE" /\ resp.type \in Local /\ resp.type # "LOCAL_LB_REQUEST"
        /\ Requester(resp) = r /\ resp.from = n /\ resp.to = r /\ resp.range = yours
    BY DEF Local, Requester
  <2>10. \A k \in net \ {m} : k.type \in Local => Requester(k) \in Node \ {r}
    <3>1. \A k \in net : k.type \in Local /\ Requester(k) = r => k = m
      BY <1>1 DEF Fine, Exchange
    <3>. QED  BY <3>1, Known DEF Requester
  <2>11. /\ Dues[n] = h.range /\ Dues[n] # None
         /\ IsSent(node[r]) => Dues[r] = m.range
         /\ ~IsSent(node[r]) => Dues[r] = node[r].range
    <3>1. Answers(node, net, n) = {} /\ Answers(node, net, r) = {}
      <4>1. Answers(node, net, n) = {}
        BY <2>1 DEF Answers
      <4>2. Answers(node, net, r) = {}
        BY <1>1, <2>10 DEF Answers, Requester, Local
      <4>. QED  BY <4>1, <4>2
    <3>2. Dues[n] = node[n].range /\ Dues[r] = node[r].range
      BY <1>1, <3>1, DueKnown DEF Fine
    <3>. QED  BY <2>1, <2>4, <3>2
  <2>12. /\ Spread(Put(Dues, n, mine))
         /\ Dues[r] = m.range =>
               Spread(Put(Put(Dues, n, mine), r, yours)) /\ Grown(r, n, m.range, yours)
    <3>1. Spread(Dues)
      BY DEF Fine
    <3>. HIDE DEF mine, yours, h, n, r
    <3>2. /\ r = Succ(n) => mine.min = Dues[n].min /\ yours.min = mine.max /\ yours.max = m.range.max
          /\ r # Succ(n) => mine.max = Dues[n].max /\ yours.max = mine.min /\ yours.min = m.range.min
      BY <2>7, <2>11 DEF r
    <3>. QED  BY <1>1, <2>4, <2>6, <2>7, <2>11, <3>1, <3>2, Given
  <2>. HIDE DEF g, resp, mine, yours, next, h, n, r
  <2>13. Exchange'
    <3>1. \A k \in Node :
            /\ node'[k].resets \in {0, 1} /\ (IsSent(node'[k]) => node'[k].range # None)
            /\ node'[k].range # None => Size(node'[k].range.min, node'[k].range.max) > 0
      BY <2>2, <2>7, <2>8 DEF Fine, Exchange, h
    <3>2. \A x, k \in net' :
              (x.type \in Local /\ k.type \in Local /\ Requester(x) = Requester(k)) => x = k
      BY <2>3, <2>9, <2>10 DEF Fine, Exchange
    <3>3. ASSUME NEW x \in net'
          PROVE  /\ x.type \in Local =>
                       x.to \in {Succ(x.from), Pred(x.from)} /\ node'[Requester(x)].resets = 1
                 /\ x.type = "LOCAL_LB_REQUEST" /\ IsSent(node'[x.from]) =>
                       node'[x.from].range = x.range /\ node'[x.from].sentTo = x.to
                 /\ x.type = "LOCAL_LB_RESPONSE" /\ IsSent(node'[x.to]) =>
                       /\ node'[x.to].sentTo = x.from
                       /\ Grown(x.to, x.from, node'[x.to].range, x.range)
      <4>1. CASE x = resp
        <5>1. node'[r] = node[r]
          BY <1>1, <2>2, <2>4
        <5>2. r \in {Succ(n), Pred(n)} /\ node'[r].resets = 1
          BY <2>4, <5>1
        <5>3. IsSent(node'[r]) => node'[r].sentTo = n /\ Grown(r, n, node'[r].range, yours)
          BY <2>4, <2>11, <2>12, <5>1
        <5>. QED  BY <2>9, <4>1, <5>2, <5>3
      <4>2. CASE x # resp
        <5>1. x \in net \ {m}
          BY <2>3, <4>2
        <5>2. /\ x.type \in Local =>
                    x.to \in {Succ(x.from), Pred(x.from)} /\ node[Requester(x)].resets = 1
              /\ x.type = "LOCAL_LB_REQUEST" /\ IsSent(node[x.from]) =>
                    node[x.from].range = x.range /\ node[x.from].sentTo = x.to
              /\ x.type = "LOCAL_LB_RESPONSE" /\ IsSent(node[x.to]) =>
                    node[x.to].sentTo = x.from /\ Grown(x.to, x.from, node[x.to].range, x.range)
          BY <5>1 DEF Fine, Exchange
        <5>3. x.type \in Local => Requester(x) \in Node
          BY <2>10, <5>1
        <5>4. CASE x.type \in Local /\ Requester(x) = n
          <6>1. ~IsSent(node'[n]) /\ node'[n].resets = node[n].resets
            BY <2>2, <2>8 DEF h
          <6>. QED  BY <5>2, <5>4, <6>1 DEF Requester, Local
        <5>5. CASE x.type \in Local /\ Requester(x) # n
          <6>1. node'[Requester(x)] = node[Requester(x)]
            BY <2>2, <5>3, <5>5
          <6>. QED  BY <5>2, <6>1 DEF Requester, Local
        <5>6. CASE x.type \notin Local
          BY <5>6 DEF Local
        <5>. QED  BY <5>4, <5>5, <5>6
      <4>. QED  BY <4>1, <4>2
    <3>. QED  BY <3>1, <3>2, <3>3 DEF Exchange
  <2>14. /\ Dues'[n] = mine
         /\ IsSent(node[r]) => Dues'[r] = yours
         /\ ~IsSent(node[r]) => Dues'[r] = Dues[r]
         /\ \A k \in Node \ {n, r} : Dues'[k] = Dues[k]
    <3>1. Dues'[n] = mine
      <4>1. Answers(node', net', n) = {}
        BY <2>2, <2>8 DEF Answers
      <4>2. Due(node', net', n) = mine
        BY <2>2, <2>8, <4>1, DueIs
      <4>. QED  BY <1>1, <4>2 DEF Dues
    <3>2. node'[r] = node[r]
      BY <1>1, <2>2, <2>4
    <3>3. ASSUME IsSent(node[r])  PROVE Dues'[r] = yours
      <4>1. \A k \in Answers(node', net', r) : k = resp
        BY <2>3, <2>9, <2>10 DEF Answers, Local, Requester
      <4>2. resp \in Answers(node', net', r)
        BY <2>3, <2>9, <3>2, <3>3 DEF Answers
      <4>3. Due(node', net', r) = yours
        BY <2>9, <4>1, <4>2, DueIs
      <4>. QED  BY <1>1, <4>3 DEF Dues
    <3>4. ASSUME ~IsSent(node[r])  PROVE Dues'[r] = Dues[r]
      <4>1. Answers(node', net', r) = {}
        BY <3>2, <3>4 DEF Answers
      <4>2. Due(node', net', r) = node[r].range
        BY <3>2, <4>1, DueIs
      <4>. QED  BY <1>1, <2>11, <3>4, <4>2 DEF Dues
    <3>5. ASSUME NEW k \in Node \ {n, r}  PROVE Dues'[k] = Dues[k]
      <4>1. node'[k] = node[k]
        BY <2>2
      <4>2. Answers(node', net', k) = Answers(node, net, k)
        BY <1>1, <2>3, <2>9, <4>1 DEF Answers
      <4>3. Due(node', net', k) = Due(node, net, k)
        BY <4>1, <4>2 DEF Due
      <4>. QED  BY <4>3 DEF Dues
    <3>. QED  BY <3>1, <3>3, <3>4, <3>5
  <2>15. Spread(Dues)'
    <3>1. DOMAIN Dues = Node /\ DOMAIN Dues' = Node /\ Dues' = [k \in Node |-> Dues'[k]]
      BY DEF Dues
    <3>2. CASE IsSent(node[r])
      <4>1. Dues' = Put(Put(Dues, n, mine), r, yours)
        <5>1. Put(Put(Dues, n, mine), r, yours) =
                [k \in Node |-> IF k = r THEN yours ELSE IF k = n THEN mine ELSE Dues[k]]
          BY <1>1, <2>4, <3>1 DEF Put, Dues
        <5>. QED  BY <1>1, <2>4, <2>14, <3>1, <3>2, <5>1
      <4>. QED  BY <2>11, <2>12, <3>2, <4>1
    <3>3. CASE ~IsSent(node[r])
      <4>1. Dues' = Put(Dues, n, mine)
        <5>1. Put(Dues, n, mine) = [k \in Node |-> IF k = n THEN mine ELSE Dues[k]]
          BY <3>1 DEF Put, Dues
        <5>. QED  BY <1>1, <2>4, <2>14, <3>1, <3>3, <5>1
      <4>. QED  BY <2>12, <4>1
    <3>. QED  BY <3>2, <3>3
  <2>16. Meet'
    <3>. SUFFICES ASSUME left.asks = conf.asks
                  PROVE  /\ \A x \in net' : x.type \in Local /\ IsSent(node'[Requester(x)])
                         /\ \A k \in Node : /\ node'[k].state \in {"DOING_NOTHING", "SENT_REQ_LOCAL_NBR"}
                                            /\ node'[k].range # None
                                            /\ Point(Dues'[k].max) = Point(Dues'[Succ(k)].min)
      BY <1>1 DEF Meet
    <3>1. /\ \A x \in net : x.type \in Local /\ IsSent(node[Requester(x)])
          /\ \A k \in Node : /\ node[k].state \in {"DOING_NOTHING", "SENT_REQ_LOCAL_NBR"}
                             /\ node[k].range # None
                             /\ Point(Dues[k].max) = Point(Dues[Succ(k)].min)
      BY DEF Fine, Meet
    <3>2. IsSent(node[r])
      BY <1>1, <3>1
    <3>3. \A k \in Node : IsSent(node'[k]) = IsSent(node[k]) /\ node'[k].state = node[k].state
      <4>1. \A k \in Node : node'[k].state = node[k].state
        BY <2>2, <2>8 DEF h
      <4>. QED  BY <4>1 DEF IsSent
    <3>4. \A x \in net' : x.type \in Local /\ IsSent(node'[Requester(x)])
      BY <1>1, <2>3, <2>9, <2>10, <3>1, <3>2, <3>3
    <3>5. None \notin NodeRange
      BY DEF WholeAssumption, BalanceAssumption
    <3>6. \A k \in Node : /\ node'[k].state \in {"DOING_NOTHING", "SENT_REQ_LOCAL_NBR"}
                          /\ node'[k].range # None
      BY <2>2, <2>6, <2>8, <3>1, <3>3, <3>5
    <3>7. Dues[r] = m.range /\ Dues'[r] = yours /\ Dues'[n] = mine
      BY <2>11, <2>14, <3>2
    <3>8. ASSUME NEW k \in Node  PROVE Point(Dues'[k].max) = Point(Dues'[Succ(k)].min)
      <4>1. Point(Dues[k].max) = Point(Dues[Succ(k)].min) /\ Succ(k) \in Node /\ Pred(Succ(k)) = k
        BY <3>1, Around DEF WholeAssumption
      <4>2. CASE r = Succ(n)
        <5>1. mine.min = Dues[n].min /\ yours.min = mine.max /\ yours.max = Dues[r].max
          BY <2>7, <2>11, <3>7, <4>2 DEF next, r
        <5>2. \A j \in Node : j # n => Dues'[j].max = Dues[j].max
          BY <2>14, <3>7, <5>1
        <5>3. \A j \in Node : j # r => Dues'[j].min = Dues[j].min
          BY <2>14, <3>7, <5>1
        <5>4. CASE k = n
          BY <3>7, <4>2, <5>1, <5>4
        <5>5. CASE k # n
          <6>1. Succ(k) # r
            BY <1>1, <4>1, <4>2, <5>5, Around DEF WholeAssumption
          <6>. QED  BY <4>1, <5>2, <5>3, <5>5, <6>1
        <5>. QED  BY <5>4, <5>5
      <4>3. CASE r # Succ(n)
        <5>1. mine.max = Dues[n].max /\ yours.max = mine.min /\ yours.min = Dues[r].min
          BY <2>7, <2>11, <3>7, <4>3 DEF next, r
        <5>2. \A j \in Node : j # r => Dues'[j].max = Dues[j].max
          BY <2>14, <3>7, <5>1
        <5>3. \A j \in Node : j # n => Dues'[j].min = Dues[j].min
          BY <2>14, <3>7, <5>1
        <5>4. Succ(r) = n
          BY <1>1, <2>4, <4>3, AroundBack
        <5>5. CASE k = r
          BY <3>7, <5>1, <5>4, <5>5
        <5>6. CASE k # r
          <6>1. Succ(k) # n
            BY <1>1, <4>1, <5>4, <5>6, Around DEF WholeAssumption
          <6>. QED  BY <4>1, <5>2, <5>3, <5>6, <6>1
        <5>. QED  BY <5>5, <5>6
      <4>. QED  BY <4>2, <4>3
    <3>. QED  BY <3>4, <3>6, <3>8
  <2>. QED  BY <2>13, <2>15, <2>16 DEF Fine
<1>. QED  BY <1>2, <1>3

-----------------------------------------------------------------------------
(***************************************************************************)
(* The theorems.                                                           *)
(***************************************************************************)

\* Whatever the ring, the scenario, the order of messages and the losses, two neighbours never
\* leave at a time (HandleLeaveCheckRequest, SetRingUnstable).  And a node that is busy still has
\* something to come that ends it, but for three cases, which the statement names and in which the
\* code leaves the node busy: its own check, or the answer to it, was lost; the successor it checks
\* has left; it was denied with nobody left to ask (LeaveCheckExpired, HandleLeaveJoinDenial).
THEOREM LeavesAloneHolds == ASSUME BalanceAssumption PROVE Spec => []LeavesAlone
<1>1. Init => IInv
  BY InitInv
<1>2. IInv /\ [Next]_vars => IInv'
  BY NextInv
<1>3. IInv => LeavesAlone
  BY InvImplies
<1>. QED  BY <1>1, <1>2, <1>3, PTL DEF Spec

\* Every step preserves the invariant of the ranges.
LEMMA PartNext == ASSUME WholeAssumption, IInv, PartitionInv, [Next]_vars PROVE PartitionInv'
<1>1. conf' = conf /\ left'.asks <= left.asks
  <2>0. left \in Bounds
    BY Known DEF WholeAssumption
  <2>1. CASE UNCHANGED vars
    BY <2>0, <2>1 DEF vars, Bounds
  <2>2. CASE \E n \in Node : CheckLoadBalance(n)
    BY <2>0, <2>2 DEF CheckLoadBalance, DoLocalLoadBalance, DoRemoteLoadBalance, Bounds
  <2>3. CASE \E n \in Node : \/ ResetLocalState(n) \/ ForgetAnswer(n) \/ TrackerTimeout(n)
                             \/ LeaveCheckExpired(n) \/ Left(n) \/ MakeStable(n)
    BY <2>0, <2>3 DEF ResetLocalState, ForgetAnswer, TrackerTimeout, LeaveCheckExpired, Left, MakeStable, Bounds
  <2>4. CASE \E m \in net : ProcessMessage(m)
    <3>1. conf' = conf /\ left' = left
      BY <2>4, Zenon DEF ProcessMessage, HandleLocalLBRequest, HandleLocalLBResponse,
         HandleLeaveJoinLBRequest, HandleLeaveJoinDenial, HandleLeaveCheckRequest,
         HandleLeaveCheckResponse
    <3>. QED  BY <2>0, <3>1 DEF Bounds
  <2>5. CASE \E m \in net : Lose(m)
    BY <2>0, <2>5 DEF Lose, Bounds
  <2>. QED  BY <2>1, <2>2, <2>3, <2>4, <2>5, Zenon DEF Next
<1>2. left'.asks <= conf'.asks
  <2>1. left'.asks \in Nat
    BY NextInv, Known DEF WholeAssumption, IInv, TypeOK, Bounds
  <2>. QED  BY <1>1, <2>1, Numbers DEF WholeAssumption
<1>3. ASSUME conf.apart  PROVE Fine'
  <2>0. Fine
    BY <1>3 DEF PartitionInv
  <2>1. CASE UNCHANGED vars
    <3>1. Exchange'
      BY <2>0, <2>1 DEF vars, Fine, Exchange
    <3>2. Dues' = Dues
      BY <2>1 DEF vars, Dues
    <3>3. Meet'
      BY <2>0, <2>1, <3>2 DEF vars, Fine, Meet
    <3>4. Spread(Dues)'
      BY <2>0, <3>2 DEF Fine
    <3>. QED  BY <3>1, <3>3, <3>4 DEF Fine
  <2>2. ASSUME NEW n \in Node, CheckLoadBalance(n)  PROVE Fine'
    BY <1>3, <2>0, <2>2, DoLocalFine, DoRemoteFine, Zenon DEF CheckLoadBalance
  <2>3. ASSUME NEW n \in Node, ResetLocalState(n) \/ ForgetAnswer(n) \/ TrackerTimeout(n)
                               \/ LeaveCheckExpired(n) \/ Left(n) \/ MakeStable(n)
        PROVE  Fine'
    BY <2>0, <2>3, ResetFine, ForgetFine, TrackerFine, ExpiredFine, LeftFine, MakeStableFine, Zenon
  <2>4. ASSUME NEW m \in net, ProcessMessage(m)  PROVE Fine'
    BY <2>0, <2>4, LocalRequestFine, LocalResponseFine, LeaveJoinRequestFine, DenialFine,
       CheckRequestFine, CheckResponseFine, Zenon DEF ProcessMessage
  <2>5. ASSUME NEW m \in net, Lose(m)  PROVE Fine'
    BY <2>0, <2>5, LoseFine, Zenon
  <2>. QED  BY <2>1, <2>2, <2>3, <2>4, <2>5, Zenon DEF Next
<1>. QED  BY <1>1, <1>2, <1>3 DEF PartitionInv

\* The ranges are a partition of the values, but for answers on their way: whatever the ring, the
\* loads and the order in which messages come, no two nodes answer for a value, and until somebody
\* is asked to leave, somebody answers for each (HandleLocalLBRequest, HandleLocalLBResponse).
THEOREM PartitionHolds == ASSUME WholeAssumption PROVE Spec => []Partition
<1>0. BalanceAssumption
  BY DEF WholeAssumption
<1>1. Init => IInv /\ PartitionInv
  BY <1>0, InitInv, PartInit
<1>2. IInv /\ PartitionInv /\ [Next]_vars => IInv' /\ PartitionInv'
  BY <1>0, NextInv, PartNext
<1>3. IInv /\ PartitionInv => Partition
  BY PartImplies
<1>. QED  BY <1>1, <1>2, <1>3, PTL DEF Spec
=============================================================================
