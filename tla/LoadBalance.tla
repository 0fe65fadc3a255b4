----------------------------- MODULE LoadBalance -----------------------------
(***************************************************************************)
(* Load balancing (mercury/LoadBalancer.cpp) in a ring whose nodes stay:   *)
(* a light node asks a heavy neighbour for part of its range, and a heavy  *)
(* node with no light neighbour asks a light node elsewhere to leave and   *)
(* join it again, which that node does if its successor agrees to stay.    *)
(*                                                                         *)
(* Loads are whole numbers; what a node has heard of other nodes' loads    *)
(* may be out of date, so whom it asks is open.  Requests and denials      *)
(* (PROTO_UDP) come in any order or never; an answer that moves a range is *)
(* sent by PROTO_TCP and comes within TCPFailureTimeout, and the answer of *)
(* a successor within JoinRequestTimeout; a denial comes before            *)
(* LeaveJoinResponseTimeout.  Bounds: how many checks and losses there are.*)
(***************************************************************************)
EXTENDS Circle, Sequences, FiniteSets, FiniteSetsExt

CONSTANTS
    Order,          \* the nodes, along the ring
    None,
    Delta,          \* loadbal_delta
    Scenarios       \* ranges, loads, light nodes; the bounds; whether checks are apart

VARIABLES
    conf,       \* the scenario
    left,       \* the checks that may still lead to a request, and losses; whose check was lost
    node,       \* what each node's LoadBalancer holds, with its range and load
    net         \* messages in flight

vars == <<conf, left, node, net>>

Node == {Order[i] : i \in DOMAIN Order}
At(i) == Order[((i - 1) % Len(Order)) + 1]
Index(n) == CHOOSE i \in DOMAIN Order : Order[i] = n
Succ(n) == At(Index(n) + 1)
Pred(n) == At(Index(n) + Len(Order) - 1)

DoingRemoteOps(h) ==
    h.state \in {"STARTED_LEAVE_JOIN", "WAITING_FOR_LEAVE_JOIN_RESPONSE", "CHECKING_SUCC"}
IsLoadBalanceOngoing(h) == h.state = "SENT_REQ_LOCAL_NBR" \/ DoingRemoteOps(h)

Msg(type, from, to) == [type |-> type, from |-> from, to |-> to]
Sent(types, n) == \E m \in net : m.type \in types /\ (m.from = n \/ m.to = n)
Local == {"LOCAL_LB_REQUEST", "LOCAL_LB_RESPONSE"}

\* Whether n leaves is being asked, or answered.
Asks(m, n) == \/ m.type = "LCHECK_REQUEST" /\ m.from = n
              \/ m.type = "LCHECK_RESPONSE" /\ m.to = n
Asked(n) == \E m \in net : Asks(m, n)

-----------------------------------------------------------------------------
(***************************************************************************)
(* Between neighbours.                                                     *)
(***************************************************************************)

\* DoLocalLoadBalance, when CheckLoadBalance finds nothing going on: the state is reset
\* TCPFailureTimeout later, whatever has become of it by then.  In a scenario whose checks
\* are apart, CheckLoadBalanceInterval is longer than that (the default is not).
DoLocalLoadBalance(n) ==
    /\ left.checks > 0 /\ node[n].range # None
    /\ ~IsLoadBalanceOngoing(node[n])
    /\ conf.apart => node[n].resets = 0
    /\ \E to \in {Succ(n), Pred(n)} :
          /\ net' = net \cup {[type |-> "LOCAL_LB_REQUEST", from |-> n, to |-> to,
                               range |-> node[n].range, load |-> node[n].load]}
          /\ node' = [node EXCEPT ![n].state = "SENT_REQ_LOCAL_NBR", ![n].sentTo = to,
                                  ![n].resets = @ + 1]
    /\ left' = [left EXCEPT !.checks = @ - 1]
    /\ UNCHANGED conf

\* The last of the resets comes when the request it was made for is answered or lost.
ResetLocalState(n) ==
    /\ node[n].resets > 0
    /\ node[n].resets = 1 => ~Sent(Local, n)
    /\ node' = [node EXCEPT ![n].state = "DOING_NOTHING", ![n].sentTo = None, ![n].resets = @ - 1]
    /\ UNCHANGED <<conf, left, net>>

\* Faulty: the neighbour is told of the boundary as it was.
MoveOne(h, m, toSucc) ==
    LET change == (RangeSpan(h.range) * (h.load - m.load)) \div (2 * h.load)
        max == h.range.max - change
        min == h.range.min + change
        curmax == IF max < 0 THEN max + AbsMax ELSE max
        curmin == IF min > AbsMax THEN min - AbsMax ELSE min
    IN  IF toSucc THEN [mine  |-> [h.range EXCEPT !.max = curmax], yours |-> m.range]
                  ELSE [mine  |-> [h.range EXCEPT !.min = curmin], yours |-> m.range]

\* The boundary moves by the part of the range that makes the loads equal.
Move(h, m, toSucc) ==
    LET change == (RangeSpan(h.range) * (h.load - m.load)) \div (2 * h.load)
        max == h.range.max - change
        min == h.range.min + change
        curmax == IF max < 0 THEN max + AbsMax ELSE max
        curmin == IF min > AbsMax THEN min - AbsMax ELSE min
    IN  IF toSucc THEN [mine  |-> [h.range EXCEPT !.max = curmax],
                        yours |-> [min |-> curmax, max |-> m.range.max]]
                  ELSE [mine  |-> [h.range EXCEPT !.min = curmin],
                        yours |-> [min |-> m.range.min, max |-> curmin]]

\* Faulty: a node answers while it waits for an answer itself.
AcceptsAlways(h, m) ==
    /\ h.range # None /\ m.from \notin h.answered /\ h.load >= Delta * m.load

\* A request is dropped by a node that is busy, that answered this neighbour a while ago, or
\* that is not that much heavier.
Accepts(h, m) ==
    /\ h.range # None /\ ~IsLoadBalanceOngoing(h)
    /\ m.from \notin h.answered /\ h.load >= Delta * m.load

HandleLocalLBRequest(m) ==
    LET n == m.to
        h == node[n]
        moved == Move(h, m, m.from = Succ(n))
        load == (h.load + m.load) \div 2
    IN  /\ m.type = "LOCAL_LB_REQUEST"
        /\ IF Accepts(h, m)
           THEN /\ node' = [node EXCEPT ![n].range = moved.mine, ![n].load = load,
                                        ![n].answered = @ \cup {m.from}]
                /\ net' = (net \ {m}) \cup
                      {[type |-> "LOCAL_LB_RESPONSE", from |-> n, to |-> m.from,
                        range |-> moved.yours, load |-> load]}
           ELSE net' = net \ {m} /\ UNCHANGED node
        /\ UNCHANGED <<conf, left>>

\* An answer is taken from the neighbour that was asked last.
HandleLocalLBResponse(m) ==
    LET h == node[m.to]
        taken == h.range # None /\ h.state = "SENT_REQ_LOCAL_NBR" /\ h.sentTo = m.from
    IN  /\ m.type = "LOCAL_LB_RESPONSE"
        /\ net' = net \ {m}
        /\ node' = IF ~taken THEN node
                   ELSE [node EXCEPT ![m.to].range = m.range, ![m.to].load = m.load,
                                     ![m.to].sentTo = None, ![m.to].state = "DOING_NOTHING"]
        /\ UNCHANGED <<conf, left>>

\* IsRequestDuplicate forgets an answer TCPFailureTimeout after it was sent.
ForgetAnswer(n) ==
    /\ \E m \in node[n].answered :
          /\ ~Sent({"LOCAL_LB_RESPONSE"}, m) /\ node[m].resets = 0
          /\ node' = [node EXCEPT ![n].answered = @ \ {m}]
    /\ UNCHANGED <<conf, left, net>>

-----------------------------------------------------------------------------
(***************************************************************************)
(* Leave and join again.                                                   *)
(***************************************************************************)

\* ChooseLightCandidate: one of the light nodes n knows of, which n then forgets; the tracker
\* runs for LeaveJoinResponseTimeout.
Ask(n, state, candidates, others) ==
    \E c \in candidates :
        /\ node' = [node EXCEPT ![n].state = state, ![n].light = @ \ {c}, ![n].tracker = TRUE]
        /\ net' = others \cup {Msg("LEAVEJOIN_LB_REQUEST", n, c)}

\* CheckLoadBalance at a heavy node whose neighbours are not light.
DoRemoteLoadBalance(n) ==
    /\ left.asks > 0 /\ n \in conf.heavy /\ node[n].range # None
    /\ ~IsLoadBalanceOngoing(node[n])
    /\ conf.apart => node[n].resets = 0
    /\ node[n].light # {}
    /\ Ask(n, "WAITING_FOR_LEAVE_JOIN_RESPONSE", node[n].light, net)
    /\ left' = [left EXCEPT !.asks = @ - 1]
    /\ UNCHANGED conf

\* The neighbours come first.
CheckLoadBalance(n) == DoLocalLoadBalance(n) \/ DoRemoteLoadBalance(n)

\* LeaveJoinLBReqTracker: a minute on, a denial is not to come any more.
TrackerTimeout(n) ==
    /\ node[n].tracker
    /\ ~Sent({"LEAVEJOIN_LB_REQUEST", "LEAVEJOIN_DENIAL"}, n)
    /\ ~\E m \in Node : n \in node[m].checkTimers
    /\ node' = [node EXCEPT ![n].tracker = FALSE,
           ![n].state = IF @ = "WAITING_FOR_LEAVE_JOIN_RESPONSE" THEN "DOING_NOTHING" ELSE @]
    /\ UNCHANGED <<conf, left, net>>

Deny(n, m) == (net \ {m}) \cup {Msg("LEAVEJOIN_DENIAL", n, m.from)}

\* A node that is light enough asks its successor whether it stays (the loads are not looked
\* at here: a node may be asked, and grow heavy before).
HandleLeaveJoinLBRequest(m) ==
    LET n == m.to
        h == node[n]
    IN  /\ m.type = "LEAVEJOIN_LB_REQUEST"
        /\ IF h.range = None THEN net' = net \ {m} /\ UNCHANGED node
           ELSE \/ net' = Deny(n, m) /\ UNCHANGED node
                \/ /\ ~IsLoadBalanceOngoing(h) /\ ~h.unstable
                   /\ net' = (net \ {m}) \cup {Msg("LCHECK_REQUEST", n, Succ(n))}
                   /\ node' = [node EXCEPT ![n].state = "CHECKING_SUCC", ![n].requestor = m.from,
                                           ![n].checkTimers = @ \cup {m.from}]
        /\ UNCHANGED <<conf, left>>

\* A node that is still heavy asks the next one; with nobody left to ask it keeps its state,
\* and its tracker is gone.
HandleLeaveJoinDenial(m) ==
    LET n == m.to
        others == node[n].light \ {m.from}
    IN  /\ m.type = "LEAVEJOIN_DENIAL"
        /\ IF node[n].range = None THEN net' = net \ {m} /\ UNCHANGED node
           ELSE \/ /\ net' = net \ {m}          \* no longer heavy
                   /\ node' = [node EXCEPT ![n].tracker = FALSE, ![n].state = "DOING_NOTHING"]
                \/ /\ node[n].light = {}
                   /\ net' = net \ {m}
                   /\ node' = [node EXCEPT ![n].tracker = FALSE]
                \/ Ask(n, node[n].state, others, net \ {m})
        /\ UNCHANGED <<conf, left>>

\* LeaveCheckExpired: whoever the timer was started for is denied if a check is going on, and
\* the state is kept.  The timer of an earlier check is not cancelled; that of the present one
\* goes off when no answer is to come.
LeaveCheckExpired(n) ==
    \E r \in node[n].checkTimers :
        /\ r = node[n].requestor => ~Asked(n)
        /\ node' = [node EXCEPT ![n].checkTimers = @ \ {r}]
        /\ net' = IF node[n].state = "CHECKING_SUCC"
                  THEN net \cup {Msg("LEAVEJOIN_DENIAL", n, r)} ELSE net
        /\ UNCHANGED <<conf, left>>

\* Faulty: a successor that agrees may leave right after.
HandleLeaveCheckRequestOnly(m) ==
    LET n == m.to
        h == node[n]
        ok == ~IsLoadBalanceOngoing(h) /\ ~h.unstable
    IN  /\ m.type = "LCHECK_REQUEST"
        /\ net' = (net \ {m}) \cup
               IF h.range = None THEN {}
               ELSE {[type |-> "LCHECK_RESPONSE", from |-> n, to |-> m.from, ok |-> ok]}
        /\ UNCHANGED <<conf, left, node>>

\* Faulty: a successor that does not agree says nothing.
HandleLeaveCheckRequestSilent(m) ==
    LET n == m.to
        h == node[n]
        ok == h.range # None /\ ~IsLoadBalanceOngoing(h) /\ ~h.unstable
    IN  /\ m.type = "LCHECK_REQUEST"
        /\ net' = (net \ {m}) \cup
               IF ok THEN {[type |-> "LCHECK_RESPONSE", from |-> n, to |-> m.from, ok |-> ok]} ELSE {}
        /\ node' = IF ok THEN [node EXCEPT ![n].unstable = TRUE] ELSE node
        /\ UNCHANGED <<conf, left>>

\* A successor agrees unless it is busy or unstable itself, or its application does not let the
\* other leave (APP_LEAVE_JOIN_OK); it denies to leave from then on for JoinRequestTimeout
\* (SetRingUnstable).
HandleLeaveCheckRequest(m) ==
    \E agrees \in BOOLEAN :
    LET n == m.to
        h == node[n]
        ok == agrees /\ ~IsLoadBalanceOngoing(h) /\ ~h.unstable
    IN  /\ m.type = "LCHECK_REQUEST"
        /\ net' = (net \ {m}) \cup
               IF h.range = None THEN {}
               ELSE {[type |-> "LCHECK_RESPONSE", from |-> n, to |-> m.from, ok |-> ok]}
        /\ node' = IF h.range # None /\ ok THEN [node EXCEPT ![n].unstable = TRUE] ELSE node
        /\ UNCHANGED <<conf, left>>

\* The neighbours of a node that leaves have heard of it (HandleLeaveNotification), and are
\* each other's neighbours.
Left(n) ==
    /\ node[n].state = "STARTED_LEAVE_JOIN"
    /\ node' = [node EXCEPT ![n].state = "LEFT"]
    /\ UNCHANGED <<conf, left, net>>

\* MakeStableTimer: the predecessor has left by then, if it does.
MakeStable(n) ==
    /\ node[n].unstable
    /\ ~Sent({"LCHECK_RESPONSE"}, n) /\ node[Pred(n)].state # "STARTED_LEAVE_JOIN"
    /\ node' = [node EXCEPT ![n].unstable = FALSE]
    /\ UNCHANGED <<conf, left, net>>

\* With the successor's agreement the node leaves: it answers for nothing (DoLeaveJoin).
HandleLeaveCheckResponse(m) ==
    LET n == m.to
        denial == {Msg("LEAVEJOIN_DENIAL", n, node[n].requestor)}
        waiting == node[n].range # None /\ node[n].state = "CHECKING_SUCC"
    IN  /\ m.type = "LCHECK_RESPONSE"
        /\ net' = (net \ {m}) \cup IF waiting /\ ~m.ok THEN denial ELSE {}
        /\ node' = IF ~waiting THEN node
                   ELSE IF m.ok THEN [node EXCEPT ![n].state = "STARTED_LEAVE_JOIN",
                                                  ![n].range = None, ![n].requestor = None]
                   ELSE [node EXCEPT ![n].state = "DOING_NOTHING", ![n].requestor = None]
        /\ UNCHANGED <<conf, left>>

-----------------------------------------------------------------------------

\* A message is lost; left.unheard only records whose check that was.
Lose(m) ==
    /\ left.losses > 0 /\ m.type # "LOCAL_LB_RESPONSE"
    /\ net' = net \ {m}
    /\ left' = [left EXCEPT !.losses = @ - 1, !.unheard = @ \cup {n \in Node : Asks(m, n)}]
    /\ UNCHANGED <<conf, node>>

NewBalancer(c, n) ==
    [state |-> "DOING_NOTHING", range |-> c.ranges[n], load |-> c.loads[n], light |-> c.light \ {n},
     sentTo |-> None, resets |-> 0, answered |-> {}, tracker |-> FALSE, checkTimers |-> {},
     requestor |-> None, unstable |-> FALSE]

Init ==
    /\ conf \in Scenarios
    /\ left = [checks |-> conf.checks, asks |-> conf.asks, losses |-> conf.losses,
             unheard |-> {}]
    /\ node = [n \in Node |-> NewBalancer(conf, n)]
    /\ net = {}

ProcessMessage(m) ==
    \/ HandleLocalLBRequest(m) \/ HandleLocalLBResponse(m)
    \/ HandleLeaveJoinLBRequest(m) \/ HandleLeaveJoinDenial(m)
    \/ HandleLeaveCheckRequest(m) \/ HandleLeaveCheckResponse(m)

Next ==
    \/ \E n \in Node : \/ CheckLoadBalance(n) \/ ResetLocalState(n) \/ ForgetAnswer(n)
                       \/ TrackerTimeout(n) \/ LeaveCheckExpired(n)
                       \/ Left(n) \/ MakeStable(n)
    \/ \E m \in net : ProcessMessage(m) \/ Lose(m)

Spec == Init /\ [][Next]_vars

-----------------------------------------------------------------------------
(***************************************************************************)
(* Properties.                                                             *)
(***************************************************************************)

\* If checks are apart, ranges that move never come to overlap, whoever asks whom at the same
\* time, and whoever leaves (HandleLocalLBRequest, HandleLocalLBResponse).  With the default
\* intervals, an answer may be taken for that to a later request.
OneOwner ==
    conf.apart =>
        \A n, o \in Node : (n # o /\ node[n].range # None /\ node[o].range # None) =>
            Cells(node[n].range) \cap Cells(node[o].range) = {}

\* Neither do they come apart, until somebody is asked to leave: once every answer has come, the
\* ranges of neighbours meet.  (A reset, or a denial that is not waited for any more, can make a
\* node deaf to an answer for which the neighbour has already given up part of its range.)
RangesMeet ==
    (conf.apart /\ left.asks = conf.asks /\ ~\E m \in net : m.type = "LOCAL_LB_RESPONSE") =>
        \A n \in Node : node[n].range.max % AbsMax = node[Succ(n)].range.min % AbsMax

\* Two neighbours never leave at a time, however many heavy nodes ask them to
\* (HandleLeaveCheckRequest, SetRingUnstable).
NeighboursStay ==
    \A n \in Node : ~(node[n].state = "STARTED_LEAVE_JOIN"
                       /\ node[Succ(n)].state = "STARTED_LEAVE_JOIN")

\* What a busy node waits for can still come.  Three times it cannot, and the code then keeps
\* the node busy for good: it was denied with nobody left to ask (HandleLeaveJoinDenial), its
\* own check or the answer to it was lost (LeaveCheckExpired keeps the state), or the successor
\* it checks has left.  What was lost between others is no excuse.
WaitIsOver ==
    \A n \in Node : LET h == node[n] IN
        CASE h.state = "SENT_REQ_LOCAL_NBR" -> h.resets > 0
          [] h.state = "WAITING_FOR_LEAVE_JOIN_RESPONSE" -> h.tracker \/ h.light = {}
          [] h.state = "CHECKING_SUCC" ->
                Asked(n) \/ n \in left.unheard \/ node[Succ(n)].range = None
          [] OTHER -> TRUE

\* The ranges are a partition of the values, but for answers on their way.
Partition == OneOwner /\ RangesMeet

\* Who is asked to leave does so alone, and what a busy node waits for can still come, but for
\* the three cases of WaitIsOver.
LeavesAlone == NeighboursStay /\ WaitIsOver
=============================================================================
