---------------------------- MODULE RemoteCalls ----------------------------
(***************************************************************************)
(* A node and its application in two processes (rpc/): the stubs either    *)
(* calls the other through, RealNetMarshaller, which sends calls and       *)
(* results over one connection, and the dispatchers.                       *)
(*                                                                         *)
(* Calls block, both sides make them, and to serve one may take calls the  *)
(* other way: a process that waits for a result serves the calls that come *)
(* meanwhile, so calls nest.  A process is the stack of what it waits for  *)
(* ("wait") and what it serves ("serve").  What a node or an application   *)
(* computes is left out, but for the names of samplers, which a node asks  *)
(* for once; nonces, which are random, are taken to be distinct.  The main *)
(* loops are the programs' own: they call ProcessRPCs and start calls.     *)
(***************************************************************************)
EXTENDS Naturals, Sequences, FiniteSets

CONSTANTS
    App, Node,      \* the two processes
    None,
    Scenarios       \* what either may call, how often, and whether the application may die

VARIABLES
    conf,       \* the scenario
    proc,       \* [stack, to, reqs, rmap, made, alive, conn] of each process
    wire,       \* what arrives at each process
    samplers,   \* the application's samplers by id; the names the node keeps; its registry
    log         \* the last result returned, with what was called

vars == <<conf, proc, wire, samplers, log>>

Process == {App, Node}
Other(p) == IF p = App THEN Node ELSE App

-----------------------------------------------------------------------------
(***************************************************************************)
(* Calls, and the results the dispatchers answer them with.                *)
(***************************************************************************)

\* MercRPCServerDispatcher::Dispatch.
NodeAnswers(call) ==
    CASE call \in {"IsJoined", "AllJoined"} -> "BOOL"
      [] call \in {"GetIP", "GetPort", "RegisterSampler", "RegisterLoadSampler"} -> "INT"
      [] call \in {"Start", "Stop", "SendEvent", "RegisterInterest"} -> "VOID"
      [] call = "ReadEvent" -> "EVENT"
      [] call \in {"GetHubConstraints", "GetHubRanges"} -> "CONSTRAINT_VEC"
      [] call \in {"GetSuccessors", "GetPredecessors", "GetLongNeighbors"} -> "NEIGHBOR_VEC"
      [] call = "GetSamples" -> "SAMPLE_VEC"

\* MercRPCClientDispatcher::Dispatch, of calls about the application's samplers.
SamplerAnswers(call) ==
    CASE call = "SamplerGetName" -> "STRING"
      [] call \in {"SamplerGetLocalRadius", "SamplerGetSampleLifetime", "SamplerGetNumReportSamples",
                   "SamplerGetRandomWalkInterval"} -> "INT"
      [] call \in {"SamplerGetPointEstimate", "SamplerMakeLocalEstimate"} -> "METRIC"

SamplerCallbacks ==
    {"SamplerGetName", "SamplerGetLocalRadius", "SamplerGetSampleLifetime", "SamplerGetNumReportSamples",
     "SamplerGetRandomWalkInterval", "SamplerGetPointEstimate", "SamplerMakeLocalEstimate"}

\* Application_ServerStub::Dispatch: every call has its own class of result.
AppAnswers(call) == call

ResultType(p, call) ==
    IF p = Node THEN NodeAnswers(call)
    ELSE IF call \in SamplerCallbacks THEN SamplerAnswers(call) ELSE AppAnswers(call)

\* MercuryNodeClientStub: the call a method sends; GetSamples sends another.
Sent(method) == IF method = "GetSamples" THEN "RegisterLoadSampler" ELSE method

\* MercuryNodeClientStub: the types of result that are not asserted against.
NodeStubTakes(method) ==
    CASE method \in {"IsJoined", "AllJoined"} -> {"BOOL"}
      [] method \in {"GetIP", "GetPort", "RegisterSampler", "RegisterLoadSampler"} -> {"INT"}
      [] method = "ReadEvent" -> {"EVENT"}
      [] method = "GetHubRanges" -> {"CONSTRAINT_VEC"}
      [] method \in {"GetSuccessors", "GetPredecessors", "GetLongNeighbors"} -> {"NEIGHBOR_VEC"}
      [] method = "GetSamples" -> {"SAMPLE_VEC"}
      [] OTHER -> {"VOID", "BOOL", "INT", "EVENT", "CONSTRAINT_VEC", "NEIGHBOR_VEC", "SAMPLE_VEC"}

\* Samplers_ClientStub.
SamplerStubTakes(method) ==
    CASE method = "SamplerGetName" -> {"STRING"}
      [] method \in {"SamplerGetPointEstimate", "SamplerMakeLocalEstimate"} -> {"METRIC"}
      [] OTHER -> {"INT"}

\* Application_ClientStub.
AppStubTakes(method) == {method}

Takes(p, method) ==
    IF p = App THEN NodeStubTakes(method)
    ELSE IF method \in SamplerCallbacks THEN SamplerStubTakes(method) ELSE AppStubTakes(method)

-----------------------------------------------------------------------------
(***************************************************************************)
(* RealNetMarshaller.                                                      *)
(***************************************************************************)

Top(s) == s.stack[Len(s.stack)]
Under(s) == SubSeq(s.stack, 1, Len(s.stack) - 1)

\* RealNetMarshaller::DoWork on a process s and what arrives there: a closed connection, if
\* there is one, and one message.
DoWork(s, arriving) ==
    LET gone == arriving # <<>> /\ Head(arriving).kind = "closed"
        rest == IF gone THEN Tail(arriving) ELSE arriving
        here == IF gone THEN [s EXCEPT !.to = None] ELSE s
    IN  IF rest = <<>> THEN [s |-> here, left |-> <<>>]
        ELSE LET m == Head(rest)
                 met == IF m.isnew THEN [here EXCEPT !.to = m.from] ELSE here
             IN  [s |-> IF m.rpc = "RPC" THEN [met EXCEPT !.reqs = Append(@, m)] ELSE [met EXCEPT !.rmap = @ \cup {m}],
                  left |-> Tail(rest)]

\* RealNet::SendMessage: the application's first message opens the connection; what is sent
\* to an application that is not connected is lost.
SentOn(w, p, m) ==
    IF p = Node /\ ~proc[App].conn THEN w
    ELSE [w EXCEPT ![Other(p)] = Append(@, [m EXCEPT !.isnew = p = App /\ ~proc[App].conn])]

Message(p, rpc, nonce, call, id, type) ==
    [kind |-> "message", rpc |-> rpc, from |-> p, isnew |-> FALSE, nonce |-> nonce, call |-> call, id |-> id, type |-> type]

\* Call, of s, the process p: CallAsync and the start of AsyncResult.  With nobody there a
\* node's stub gives a default; an application's asserts.
Call(p, s, method, id) ==
    LET nonce == <<p, s.made>>
        sent == [s EXCEPT !.made = @ + 1, !.conn = TRUE,
                     !.stack = Append(@, [at |-> "wait", method |-> method, nonce |-> nonce, id |-> id, pumping |-> FALSE])]
    IN  IF s.to = None
        THEN /\ proc' = [proc EXCEPT ![p] = [s EXCEPT !.made = @ + 1, !.alive = p = Node]]
             /\ UNCHANGED wire
        ELSE /\ proc' = [proc EXCEPT ![p] = sent]
             /\ wire' = SentOn(wire, p, Message(p, "RPC", nonce, Sent(method), id, None))

\* Faulty: the result that came first is taken for the one that is waited for.
TheirsFirst(p) == proc[p].rmap

\* AsyncResult: the results with the nonce of the call on top.
TheirsNow(p) == {r \in proc[p].rmap : r.nonce = Top(proc[p]).nonce}

Waits(p) == proc[p].stack # <<>> /\ Top(proc[p]).at = "wait"
Answered(p) == Waits(p) /\ ~Top(proc[p]).pumping /\ TheirsNow(p) # {}

-----------------------------------------------------------------------------
(***************************************************************************)
(* Serving.                                                                *)
(***************************************************************************)

\* What a node asks an application for while it serves a call: a new sampler's name and
\* interval (RegisterMetric), unless it has them (RPCableSampler).
Asked(id) ==
    IF samplers.names[id] # None THEN <<>>
    ELSE <<[method |-> "SamplerGetName", id |-> id], [method |-> "SamplerGetRandomWalkInterval", id |-> id]>>

Registering == {"RegisterSampler", "RegisterLoadSampler"}

\* What may be called while m is served: an application's callbacks may call what they like.
Plans(p, m) ==
    IF p = Node THEN {IF m.call \in Registering THEN Asked(m.id) ELSE <<>>}
    ELSE {<<>>} \cup IF proc[p].made < conf.calls[p] THEN {<<[method |-> c, id |-> 0]>> : c \in conf.nested} ELSE {}

\* Faulty: who waits for a result only reads, and serves nothing.
RequestsIdle(p, s) == IF Waits(p) THEN <<>> ELSE s.reqs

\* GetRPC: the requests there are.
Requests(p, s) == s.reqs

\* ProcessRPCs: from the main loop, or while a result is waited for.
Poll(p) ==
    LET first == DoWork(proc[p], wire[p])
        again == DoWork(first.s, first.left)
        m == Head(Requests(p, first.s))
        last == Len(proc[p].stack)
    IN  /\ proc[p].alive
        /\ proc[p].stack = <<>> \/ (Waits(p) /\ ~Answered(p))
        /\ wire[p] # <<>> \/ proc[p].reqs # <<>> \/ (last > 0 /\ Top(proc[p]).pumping)   \* or nothing changes
        /\ \/ /\ Requests(p, first.s) # <<>>
              /\ wire' = [wire EXCEPT ![p] = first.left]
              /\ IF p = App /\ m.call \in SamplerCallbacks /\ m.id >= Len(samplers.given)
                 THEN proc' = [proc EXCEPT ![p].alive = FALSE]          \* ASSERT(s)
                 ELSE \E plan \in Plans(p, m) :
                         LET s == IF last = 0 THEN first.s ELSE [first.s EXCEPT !.stack[last].pumping = TRUE]
                         IN  proc' = [proc EXCEPT ![p] = [s EXCEPT !.reqs = Tail(@),
                                         !.stack = Append(@, [at |-> "serve", rpc |-> m, plan |-> plan])]]
           \/ /\ Requests(p, first.s) = <<>>
              /\ IF last = 0
                 THEN proc' = [proc EXCEPT ![p] = first.s] /\ wire' = [wire EXCEPT ![p] = first.left]
                 ELSE /\ proc' = [proc EXCEPT ![p] = [again.s EXCEPT !.stack[last].pumping = FALSE]]
                      /\ wire' = [wire EXCEPT ![p] = again.left]
        /\ UNCHANGED <<conf, samplers, log>>

\* Dispatch: the calls a call takes, and then its result.
Serve(p) ==
    LET s == proc[p]
        f == Top(s)
        done == [s EXCEPT !.stack = Under(s)]
        val == IF f.rpc.call = "SamplerGetName" THEN samplers.given[f.rpc.id + 1] ELSE None
        res == Message(p, "RES", f.rpc.nonce, f.rpc.call, val, ResultType(p, f.rpc.call))
    IN  /\ s.alive /\ s.stack # <<>> /\ f.at = "serve"
        /\ IF f.plan # <<>>
           THEN /\ Call(p, [s EXCEPT !.stack[Len(s.stack)].plan = Tail(@)], Head(f.plan).method, Head(f.plan).id)
                /\ UNCHANGED samplers
           ELSE /\ proc' = [proc EXCEPT ![p] = done]
                /\ wire' = IF s.to = None THEN wire ELSE SentOn(wire, p, res)
                /\ samplers' = IF f.rpc.call \in Registering
                               THEN [samplers EXCEPT !.registered = @ \cup {samplers.names[f.rpc.id]}] ELSE samplers
        /\ UNCHANGED <<conf, log>>

\* The result is there: the stub looks at its type, and who called goes on.
Return(p) ==
    LET s == proc[p]
        f == Top(s)
    IN  /\ s.alive /\ Answered(p)
        /\ \E r \in TheirsNow(p) :
              /\ proc' = [proc EXCEPT ![p] = [s EXCEPT !.stack = Under(s), !.rmap = @ \ {r},
                                                      !.alive = r.type \in Takes(p, f.method)]]
              /\ log' = [by |-> p, method |-> f.method, nonce |-> f.nonce, res |-> r]
              /\ samplers' = IF f.method = "SamplerGetName" THEN [samplers EXCEPT !.names[f.id] = r.id] ELSE samplers
        /\ UNCHANGED <<conf, wire>>

-----------------------------------------------------------------------------

\* PointerMap: a sampler gets an id when it is first used.
GivenWith(s) ==
    IF \E i \in DOMAIN samplers.given : samplers.given[i] = s THEN samplers.given
    ELSE Append(samplers.given, s)

\* The application calls a method of its node.
AppCalls ==
    \E method \in conf.methods, s \in conf.samplers :
        LET about == method \in Registering \cup {"GetSamples"}
            given == IF about THEN GivenWith(s) ELSE samplers.given
            id == IF about THEN (CHOOSE i \in DOMAIN given : given[i] = s) - 1 ELSE 0
        IN  /\ proc[App].alive /\ proc[App].stack = <<>> /\ proc[App].made < conf.calls[App]
            /\ Call(App, proc[App], method, id)
            /\ samplers' = [samplers EXCEPT !.given = given]
            /\ UNCHANGED <<conf, log>>

\* A node calls its application, of its own: it routes, joins, leaves, or a timer asks a sampler.
NodeCalls ==
    \E method \in conf.callbacks, id \in DOMAIN samplers.names :
        /\ method \in SamplerCallbacks => samplers.names[id] \in samplers.registered \ {None}
        /\ method \notin SamplerCallbacks => id = 0
        /\ proc[Node].stack = <<>> /\ proc[Node].made < conf.calls[Node]
        /\ Call(Node, proc[Node], method, id)
        /\ UNCHANGED <<conf, samplers, log>>

Idle(p) == [stack |-> <<>>, to |-> IF p = App THEN Node ELSE None, reqs |-> <<>>, rmap |-> {}, made |-> 0,
            alive |-> TRUE, conn |-> p = Node]

\* The application dies, or a failed assertion has ended it; its connection closes.
Close ==
    /\ \/ ~proc[App].alive /\ proc[App].conn
       \/ proc[App].alive /\ conf.mortal /\ conf.restarts > 0
    /\ proc' = [proc EXCEPT ![App] = [Idle(App) EXCEPT !.made = proc[App].made, !.alive = FALSE]]
    /\ wire' = [[wire EXCEPT ![App] = <<>>] EXCEPT ![Node] = IF proc[App].conn THEN Append(@, [kind |-> "closed"]) ELSE @]
    /\ UNCHANGED <<conf, samplers, log>>

\* It is started again: it knows none of the samplers its node still has.
Restart ==
    /\ conf.mortal /\ conf.restarts > 0 /\ ~proc[App].alive /\ ~proc[App].conn
    /\ proc' = [proc EXCEPT ![App].alive = TRUE]
    /\ samplers' = [samplers EXCEPT !.given = <<>>]
    /\ conf' = [conf EXCEPT !.restarts = @ - 1]
    /\ UNCHANGED <<wire, log>>

Init ==
    /\ conf \in Scenarios
    /\ proc = [p \in Process |-> Idle(p)]
    /\ wire = [p \in Process |-> <<>>]
    /\ samplers = [given |-> <<>>, names |-> [i \in 0..1 |-> None], registered |-> {}]
    /\ log = None

Step(p) == Poll(p) \/ Serve(p) \/ Return(p)

Next == AppCalls \/ NodeCalls \/ (\E p \in Process : Step(p)) \/ Close \/ Restart

Spec == Init /\ [][Next]_vars

-----------------------------------------------------------------------------
(***************************************************************************)
(* What should hold.                                                       *)
(***************************************************************************)

\* Whatever calls were nested in a call or made at once by both sides, what it returns is the
\* result of that very call, and of the type the stub asserts; but for the client's GetSamples,
\* which sends another call than it expects the result of (MercuryNodeClientStub.cpp:181-186).
OwnResult ==
    log # None => /\ log.res.nonce = log.nonce
                  /\ log.res.type \in Takes(log.by, log.method) \/ log.method = "GetSamples"

\* While p is within a call; it is not, or its application has died.
Busy(p) == proc[p].alive /\ proc[p].stack # <<>>
Free(p) == proc[p].stack = <<>> \/ ~proc[App].alive \/ conf.mortal
=============================================================================
