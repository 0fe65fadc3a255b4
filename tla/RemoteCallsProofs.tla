-------------------------- MODULE RemoteCallsProofs --------------------------
(***************************************************************************)
(* Every call returns its own result, for any methods, samplers and        *)
(* callbacks, any number of calls and restarts of the application.         *)
(*                                                                         *)
(* A nonce is used for one call (Fresh), so whatever a process waits for   *)
(* and whatever is requested, served or answered with the same nonce is    *)
(* about the same call (Paired), and a result has the type that call is    *)
(* answered with (Typed).                                                  *)
(***************************************************************************)
EXTENDS RemoteCalls, SequenceTheorems, TLAPS

\* What MercuryNodeClientStub.cpp has a method for.
NodeMethods ==
    {"IsJoined", "AllJoined", "GetIP", "GetPort", "RegisterSampler", "RegisterLoadSampler", "Start",
     "Stop", "SendEvent", "RegisterInterest", "ReadEvent", "GetHubConstraints", "GetHubRanges",
     "GetSuccessors", "GetPredecessors", "GetLongNeighbors", "GetSamples"}

Samplers == UNION {c.samplers : c \in Scenarios}
Callbacks == UNION {c.callbacks : c \in Scenarios}

\* Two processes, and scenarios of the node's methods and any callbacks.
CallsAssumption ==
    /\ App # Node /\ None \notin Process
    /\ Scenarios \subseteq [methods : SUBSET NodeMethods, samplers : SUBSET Samplers,
                            callbacks : SUBSET Callbacks, nested : SUBSET NodeMethods,
                            calls : [Process -> Nat], mortal : BOOLEAN, restarts : Nat]

-----------------------------------------------------------------------------
(***************************************************************************)
(* The inductive invariant.                                                *)
(***************************************************************************)

\* What a process may call, and what it sends.
Calls(p) == IF p = App THEN NodeMethods ELSE SamplerCallbacks \cup Callbacks

RPCs(p) == [kind : {"message"}, rpc : {"RPC"}, from : {p}, isnew : BOOLEAN, nonce : {p} \X Nat,
            call : {Sent(m) : m \in Calls(p)}, id : Nat, type : {None}]
RESs(p) == [kind : {"message"}, rpc : {"RES"}, from : {p}, isnew : BOOLEAN, nonce : {Other(p)} \X Nat,
            call : {Sent(m) : m \in Calls(Other(p))}, id : Samplers \cup {None},
            type : {ResultType(p, Sent(m)) : m \in Calls(Other(p))}]
Closed == [kind |-> "closed"]

Waiting(p) == [at : {"wait"}, method : Calls(p), nonce : {p} \X Nat, id : Nat, pumping : BOOLEAN]
Planned(p) == [method : Calls(p), id : Nat]
Serving(p) == [at : {"serve"}, rpc : RPCs(Other(p)), plan : Seq(Planned(p))]

Proc(p) == [stack : Seq(Waiting(p) \cup Serving(p)), to : {Other(p), None}, reqs : Seq(RPCs(Other(p))),
            rmap : SUBSET RESs(Other(p)), made : Nat, alive : BOOLEAN, conn : BOOLEAN]
Wire(p) == Seq(RPCs(Other(p)) \cup RESs(Other(p)) \cup {Closed})

Confs ==
    conf \in [methods : SUBSET NodeMethods, samplers : SUBSET Samplers,
              callbacks : SUBSET Callbacks, nested : SUBSET NodeMethods,
              calls : [Process -> Nat], mortal : BOOLEAN, restarts : Nat]
Procs ==
    /\ DOMAIN proc = Process /\ proc = [p \in Process |-> proc[p]]
    /\ DOMAIN wire = Process /\ wire = [p \in Process |-> wire[p]]
    /\ \A p \in Process : proc[p] \in Proc(p) /\ wire[p] \in Wire(p)
Sampled ==
    /\ samplers = [given |-> samplers.given, names |-> samplers.names, registered |-> samplers.registered]
    /\ samplers.given \in Seq(Samplers)
    /\ DOMAIN samplers.names \subseteq Nat
TypeOK == Confs /\ Procs /\ Sampled

\* A connection closes once before the next is opened, and only the application's does.
Apart(w) == \A i \in 1 .. Len(w) - 1 : w[i].kind = "closed" => w[i + 1].kind # "closed"
Connected ==
    /\ \A i \in 1 .. Len(wire[App]) : wire[App][i].kind # "closed"
    /\ Apart(wire[Node])
    /\ wire[Node] # <<>> /\ wire[Node][Len(wire[Node])].kind = "closed" => ~proc[App].conn
    /\ proc[App].to = Node
    /\ ~proc[App].conn => wire[App] = <<>> /\ proc[App].stack = <<>> /\ proc[App].reqs = <<>>

\* The application has the samplers it serves calls about.
KnownOf(stack, given) ==
    \A i \in 1 .. Len(stack) :
       stack[i].at = "serve" /\ stack[i].rpc.call \in SamplerCallbacks => stack[i].rpc.id < Len(given)
Known == KnownOf(proc[App].stack, samplers.given)

\* The calls p waits for, and those requested by it, served for it or answered to it.
OpenOf(s) == {<<f.nonce, f.method>> : f \in {g \in Range(s.stack) : g.at = "wait"}}
ServedOf(s) == {<<f.rpc.nonce, f.rpc.call>> : f \in {g \in Range(s.stack) : g.at = "serve"}}
RequestedOf(M) == {<<m.nonce, m.call>> : m \in {r \in M : r.kind = "message" /\ r.rpc = "RPC"}}
AnswersOf(M) == {m \in M : m.kind = "message" /\ m.rpc = "RES"}
AnsweredOf(M) == {<<m.nonce, m.call>> : m \in AnswersOf(M)}

\* What is under way of the calls of a process s that has w to arrive, when the other is t
\* and has v to arrive.
CarriedOf(s, t, w, v) ==
    RequestedOf(Range(v) \cup Range(t.reqs)) \cup ServedOf(t) \cup AnsweredOf(Range(w) \cup s.rmap)

\* Each nonce was made by p, and what is carried with the nonce of an open call is that call.
Fresh(p, C, made) == \A c \in C : \E k \in Nat : c[1] = <<p, k>> /\ k < made
Paired(O, C) == \A o \in O, c \in C : o[1] = c[1] => c[2] = Sent(o[2])
Match(p, O, C, made) == Fresh(p, O, made) /\ Fresh(p, C, made) /\ Paired(O, C)

Matched ==
    \A p \in Process :
       Match(p, OpenOf(proc[p]), CarriedOf(proc[p], proc[Other(p)], wire[p], wire[Other(p)]), proc[p].made)

\* Results that p gets have the type the other answers with.
TypedOf(p, M) == \A m \in AnswersOf(M) : m.type = ResultType(Other(p), m.call)
Typed == \A p \in Process : TypedOf(p, Range(wire[p]) \cup proc[p].rmap)

IInv == TypeOK /\ Connected /\ Known /\ Matched /\ Typed /\ OwnResult

-----------------------------------------------------------------------------
(***************************************************************************)
(* Stubs, dispatchers and sequences.                                       *)
(***************************************************************************)

\* A stub asserts the type of result that the dispatcher on the other side answers its
\* call with (MercuryNodeClientStub.cpp, rpc/: the dispatchers), GetSamples apart.
LEMMA StubsAgree ==
    ASSUME CallsAssumption, NEW p \in Process, NEW m \in Calls(p), m # "GetSamples"
    PROVE  ResultType(Other(p), Sent(m)) \in Takes(p, m)
<1>1. Sent(m) = m
  BY DEF Sent
<1>2. CASE p = App
  <2>1. m \in NodeMethods /\ Other(p) = Node
    BY <1>2 DEF Calls, Other
  <2>2. NodeAnswers(m) \in NodeStubTakes(m)
    BY <2>1 DEF NodeMethods, NodeAnswers, NodeStubTakes
  <2>. QED  BY <1>1, <1>2, <2>1, <2>2 DEF ResultType, Takes
<1>3. CASE p # App
  <2>1. Other(p) = App /\ App # Node
    BY <1>3 DEF Other, CallsAssumption
  <2>2. CASE m \in SamplerCallbacks
    <3>1. SamplerAnswers(m) \in SamplerStubTakes(m)
      BY <2>2 DEF SamplerCallbacks, SamplerAnswers, SamplerStubTakes
    <3>. QED  BY <1>1, <1>3, <2>1, <2>2, <3>1 DEF ResultType, Takes
  <2>3. CASE m \notin SamplerCallbacks
    BY <1>1, <1>3, <2>1, <2>3 DEF ResultType, Takes, AppAnswers, AppStubTakes
  <2>. QED  BY <2>2, <2>3
<1>. QED  BY <1>2, <1>3

\* The two processes.
LEMMA TwoProcesses ==
    ASSUME CallsAssumption, NEW p \in Process
    PROVE  /\ Other(p) \in Process /\ Other(p) # p /\ Other(Other(p)) = p
           /\ \A q \in Process : q = p \/ q = Other(p)
BY DEF Process, Other, CallsAssumption

\* Appending.
LEMMA Appended ==
    ASSUME NEW S, NEW s \in Seq(S), NEW e \in S
    PROVE  /\ Append(s, e) \in Seq(S) /\ Len(Append(s, e)) = Len(s) + 1
           /\ Range(Append(s, e)) = Range(s) \cup {e}
           /\ \A i \in 1 .. Len(s) : Append(s, e)[i] = s[i]
           /\ Append(s, e)[Len(s) + 1] = e
<1>1. /\ Append(s, e) \in Seq(S) /\ Len(Append(s, e)) = Len(s) + 1
      /\ \A i \in 1 .. Len(s) : Append(s, e)[i] = s[i]
      /\ Append(s, e)[Len(s) + 1] = e
  BY AppendProperties
<1>2. Len(s) \in Nat /\ DOMAIN s = 1 .. Len(s) /\ DOMAIN Append(s, e) = 1 .. Len(s) + 1
  BY <1>1
<1>. QED  BY <1>1, <1>2 DEF Range

\* Taking the first.
LEMMA FirstTaken ==
    ASSUME NEW S, NEW s \in Seq(S), s # <<>>
    PROVE  /\ Head(s) \in S /\ Tail(s) \in Seq(S) /\ Len(Tail(s)) = Len(s) - 1
           /\ Head(s) = s[1] /\ Head(s) \in Range(s) /\ Range(Tail(s)) \subseteq Range(s)
           /\ \A i \in 1 .. Len(Tail(s)) : Tail(s)[i] = s[i + 1]
<1>1. /\ Head(s) \in S /\ Tail(s) \in Seq(S) /\ Len(Tail(s)) = Len(s) - 1 /\ Head(s) = s[1]
      /\ \A i \in 1 .. Len(Tail(s)) : Tail(s)[i] = s[i + 1]
  BY HeadTailProperties
<1>2. Len(s) \in Nat /\ Len(s) # 0 /\ DOMAIN s = 1 .. Len(s) /\ DOMAIN Tail(s) = 1 .. Len(s) - 1
  BY <1>1
<1>. QED  BY <1>1, <1>2 DEF Range

\* Taking the last: what is under the top of a stack.
LEMMA LastTaken ==
    ASSUME NEW S, NEW s \in Seq(S), s # <<>>
    PROVE  LET t == SubSeq(s, 1, Len(s) - 1)
           IN  /\ t \in Seq(S) /\ Len(t) = Len(s) - 1 /\ Range(t) \subseteq Range(s)
               /\ \A i \in 1 .. Len(t) : t[i] = s[i]
               /\ s[Len(s)] \in S /\ s[Len(s)] \in Range(s)
<1>. DEFINE n == Len(s) - 1
            t == SubSeq(s, 1, n)
<1>1. Len(s) \in Nat \ {0} /\ DOMAIN s = 1 .. Len(s) /\ n \in Nat /\ Len(s) = n + 1
      /\ \A i \in 1 .. Len(s) : s[i] \in S
  BY EmptySeq
<1>2. s[Len(s)] \in S /\ s[Len(s)] \in Range(s)
  BY <1>1 DEF Range
<1>. HIDE DEF n
<1>3. \A i \in 1 .. n : s[i] \in S
  BY <1>1
<1>4. t \in Seq(S) /\ Len(t) = n /\ \A i \in 1 .. n : t[i] = s[i]
  BY <1>1, <1>3, SubSeqProperties
<1>5. DOMAIN t = 1 .. n
  BY <1>4
<1>. HIDE DEF t
<1>6. Range(t) \subseteq Range(s)
  BY <1>1, <1>4, <1>5 DEF Range
<1>. QED  BY <1>1, <1>2, <1>4, <1>6 DEF n, t

\* Changing one.
LEMMA OneChanged ==
    ASSUME NEW S, NEW s \in Seq(S), NEW i \in 1 .. Len(s), NEW e \in S
    PROVE  /\ [s EXCEPT ![i] = e] \in Seq(S) /\ Len([s EXCEPT ![i] = e]) = Len(s)
           /\ Range([s EXCEPT ![i] = e]) \subseteq Range(s) \cup {e}
           /\ \A j \in 1 .. Len(s) : [s EXCEPT ![i] = e][j] = IF j = i THEN e ELSE s[j]
<1>1. /\ [s EXCEPT ![i] = e] \in Seq(S) /\ Len([s EXCEPT ![i] = e]) = Len(s)
      /\ \A j \in 1 .. Len(s) : [s EXCEPT ![i] = e][j] = IF j = i THEN e ELSE s[j]
  BY ExceptSeq
<1>2. DOMAIN s = 1 .. Len(s) /\ DOMAIN [s EXCEPT ![i] = e] = 1 .. Len(s)
  BY <1>1
<1>. QED  BY <1>1, <1>2 DEF Range

-----------------------------------------------------------------------------
(***************************************************************************)
(* Taking what arrives.                                                    *)
(***************************************************************************)

\* What arrives at p is a close or a message; messages are requests or results.
LEMMA Arriving ==
    ASSUME CallsAssumption, NEW p \in Process, NEW m \in RPCs(Other(p)) \cup RESs(Other(p)) \cup {Closed}
    PROVE  /\ m.kind = "closed" \/ m \in RPCs(Other(p)) \cup RESs(Other(p))
           /\ m \in RPCs(Other(p)) => m.rpc = "RPC" /\ m.kind = "message" /\ m.from = Other(p)
           /\ m \in RESs(Other(p)) => m.rpc = "RES" /\ m.kind = "message" /\ m.from = Other(p)
BY DEF RPCs, RESs, Closed

\* From s, with w to arrive, to t, with left to arrive: messages move and none is added.
Moves(p, s, w, t, left) ==
    /\ t \in Proc(p) /\ left \in Wire(p) /\ Apart(left)
    /\ t.stack = s.stack /\ t.made = s.made /\ t.alive = s.alive /\ t.conn = s.conn
    /\ left # <<>> => w # <<>> /\ left[Len(left)] = w[Len(w)]
    /\ p = App => t.to = Node /\ \A i \in 1 .. Len(left) : left[i].kind # "closed"
    /\ w = <<>> => t = s /\ left = <<>>
    /\ RequestedOf(Range(left) \cup Range(t.reqs)) \subseteq RequestedOf(Range(w) \cup Range(s.reqs))
    /\ AnswersOf(Range(left) \cup t.rmap) \subseteq AnswersOf(Range(w) \cup s.rmap)

\* DoWork (RealNetMarshaller.cpp) moves messages and adds none: what is left to arrive, to
\* be served and to be returned was there before.
LEMMA DoWorkOK ==
    ASSUME CallsAssumption, NEW p \in Process, NEW s \in Proc(p), NEW w \in Wire(p), Apart(w),
           p = App => s.to = Node /\ \A i \in 1 .. Len(w) : w[i].kind # "closed"
    PROVE  Moves(p, s, w, DoWork(s, w).s, DoWork(s, w).left)
<1>. DEFINE M == RPCs(Other(p)) \cup RESs(Other(p)) \cup {Closed}
            gone == w # <<>> /\ Head(w).kind = "closed"
            rest == IF gone THEN Tail(w) ELSE w
            here == IF gone THEN [s EXCEPT !.to = None] ELSE s
            r == DoWork(s, w)
<1>1. w \in Seq(M) /\ Len(w) \in Nat
  BY DEF Wire
<1>2. gone => p # App
  BY <1>1, FirstTaken
<1>3. /\ here \in Proc(p) /\ here.stack = s.stack /\ here.made = s.made /\ here.alive = s.alive
      /\ here.conn = s.conn /\ here.reqs = s.reqs /\ here.rmap = s.rmap
      /\ p = App => here.to = Node
  BY <1>2 DEF Proc
<1>4. /\ rest \in Seq(M) /\ Apart(rest) /\ Range(rest) \subseteq Range(w)
      /\ rest # <<>> => w # <<>> /\ rest[Len(rest)] = w[Len(w)] /\ Head(rest).kind # "closed"
      /\ p = App => \A i \in 1 .. Len(rest) : rest[i].kind # "closed"
  <2>1. CASE gone
    <3>1. /\ Tail(w) \in Seq(M) /\ Len(Tail(w)) = Len(w) - 1 /\ Range(Tail(w)) \subseteq Range(w)
          /\ \A i \in 1 .. Len(Tail(w)) : Tail(w)[i] = w[i + 1]
          /\ w[1].kind = "closed"
      BY <1>1, <2>1, FirstTaken
    <3>2. Apart(Tail(w))
      BY <1>1, <3>1 DEF Apart
    <3>3. ASSUME Tail(w) # <<>>  PROVE Tail(w)[Len(Tail(w))] = w[Len(w)] /\ Head(Tail(w)).kind # "closed"
      <4>1. Head(Tail(w)) = Tail(w)[1] /\ Len(Tail(w)) # 0
        BY <3>1, <3>3, FirstTaken, EmptySeq
      <4>. QED  BY <1>1, <3>1, <3>3, <4>1 DEF Apart
    <3>. QED  BY <2>1, <3>1, <3>2, <3>3, <1>2
  <2>2. CASE ~gone
    BY <1>1, <2>2
  <2>. QED  BY <2>1, <2>2
<1>. HIDE DEF gone, rest, here
<1>5. CASE rest = <<>>
  <2>1. r = [s |-> here, left |-> <<>>]
    BY <1>5 DEF DoWork, gone, rest, here
  <2>2. Apart(<<>>) /\ <<>> \in Wire(p) /\ Range(<<>>) = {}
    BY DEF Apart, Wire, Range
  <2>3. w = <<>> => here = s
    BY DEF here, gone
  <2>4. /\ RequestedOf(Range(<<>>) \cup Range(here.reqs)) \subseteq RequestedOf(Range(w) \cup Range(s.reqs))
        /\ AnswersOf(Range(<<>>) \cup here.rmap) \subseteq AnswersOf(Range(w) \cup s.rmap)
    BY <1>3, <2>2 DEF RequestedOf, AnswersOf
  <2>5. p = App => here.to = Node /\ \A i \in 1 .. Len(<<>>) : <<>>[i].kind # "closed"
    BY <1>3
  <2>50. Moves(p, s, w, here, <<>>)
    BY <1>3, <2>2, <2>3, <2>4, <2>5, Zenon DEF Moves
  <2>6. r.s = here /\ r.left = <<>>
    BY <2>1
  <2>. QED  BY <2>50, <2>6
<1>6. CASE rest # <<>>
  <2>. DEFINE m == Head(rest)
              met == IF m.isnew THEN [here EXCEPT !.to = m.from] ELSE here
              to == IF m.rpc = "RPC" THEN [met EXCEPT !.reqs = Append(@, m)] ELSE [met EXCEPT !.rmap = @ \cup {m}]
  <2>1. r = [s |-> to, left |-> Tail(rest)]
    BY <1>6 DEF DoWork, gone, rest, here
  <2>2. /\ m \in M /\ m.kind # "closed" /\ m \in Range(rest)
        /\ Tail(rest) \in Seq(M) /\ Range(Tail(rest)) \subseteq Range(rest) /\ Len(Tail(rest)) = Len(rest) - 1
        /\ \A i \in 1 .. Len(Tail(rest)) : Tail(rest)[i] = rest[i + 1]
    BY <1>4, <1>6, FirstTaken
  <2>3. /\ m \in RPCs(Other(p)) \/ m \in RESs(Other(p))
        /\ m.from = Other(p)
        /\ m.rpc = "RPC" => m \in RPCs(Other(p))
        /\ m.rpc # "RPC" => m \in RESs(Other(p))
    BY <2>2, Arriving
  <2>. HIDE DEF m
  <2>4. /\ met \in Proc(p) /\ met.stack = s.stack /\ met.made = s.made /\ met.alive = s.alive
        /\ met.conn = s.conn /\ met.reqs = s.reqs /\ met.rmap = s.rmap
        /\ p = App => met.to = Node
    BY <1>3, <2>3 DEF Proc, Other
  <2>. HIDE DEF met
  <2>5. /\ Append(s.reqs, m) \in Seq(RPCs(Other(p)) \cup {m})
        /\ Range(Append(s.reqs, m)) = Range(s.reqs) \cup {m}
        /\ m.rpc = "RPC" => Append(s.reqs, m) \in Seq(RPCs(Other(p)))
    <3>1. s.reqs \in Seq(RPCs(Other(p)) \cup {m}) /\ s.reqs \in Seq(RPCs(Other(p)))
      BY DEF Proc
    <3>2. m \in RPCs(Other(p)) \cup {m}
      OBVIOUS
    <3>. QED  BY <2>3, <3>1, <3>2, Appended
  <2>6. /\ to \in Proc(p) /\ to.stack = s.stack /\ to.made = s.made /\ to.alive = s.alive
        /\ to.conn = s.conn /\ to.to = met.to
        /\ Range(to.reqs) \subseteq Range(s.reqs) \cup {m} /\ to.rmap \subseteq s.rmap \cup {m}
    <3>1. CASE m.rpc = "RPC"
      BY <3>1, <2>4, <2>5 DEF Proc
    <3>2. CASE m.rpc # "RPC"
      BY <3>2, <2>3, <2>4 DEF Proc
    <3>. QED  BY <3>1, <3>2
  <2>. HIDE DEF to
  <2>7. /\ m \in Range(w) /\ Range(Tail(rest)) \subseteq Range(w)
    BY <1>4, <2>2
  <2>8. Apart(Tail(rest)) /\ Tail(rest) \in Wire(p)
    BY <1>4, <2>2 DEF Apart, Wire
  <2>9. ASSUME Tail(rest) # <<>>  PROVE w # <<>> /\ Tail(rest)[Len(Tail(rest))] = w[Len(w)]
    <3>1. Len(Tail(rest)) \in Nat \ {0}
      BY <2>2, <2>9, EmptySeq
    <3>. QED  BY <1>4, <1>6, <2>2, <3>1
  <2>10. p = App => \A i \in 1 .. Len(Tail(rest)) : Tail(rest)[i].kind # "closed"
    BY <1>4, <2>2
  <2>11. w # <<>>
    BY <1>4, <1>6
  <2>12. /\ RequestedOf(Range(Tail(rest)) \cup Range(to.reqs)) \subseteq RequestedOf(Range(w) \cup Range(s.reqs))
         /\ AnswersOf(Range(Tail(rest)) \cup to.rmap) \subseteq AnswersOf(Range(w) \cup s.rmap)
    BY <2>6, <2>7 DEF RequestedOf, AnswersOf
  <2>. DEFINE left == Tail(rest)
  <2>. HIDE DEF left
  <2>13. Moves(p, s, w, to, left)
    BY <2>4, <2>6, <2>8, <2>9, <2>10, <2>11, <2>12 DEF Moves, left
  <2>14. r.s = to /\ r.left = left
    BY <2>1 DEF left
  <2>. QED  BY <2>13, <2>14
<1>. QED  BY <1>5, <1>6

-----------------------------------------------------------------------------
(***************************************************************************)
(* Matching what is waited for and what is under way.                      *)
(***************************************************************************)

\* What goes on with fewer calls open and less under way still matches.
LEMMA MatchKept ==
    ASSUME NEW p, NEW O, NEW C, NEW made \in Nat, Match(p, O, C, made),
           NEW O2 \in SUBSET O, NEW C2 \in SUBSET C, NEW made2 \in Nat, made <= made2
    PROVE  Match(p, O2, C2, made2)
<1>1. Fresh(p, O2, made2)
  BY DEF Match, Fresh
<1>2. Fresh(p, C2, made2)
  BY DEF Match, Fresh
<1>3. Paired(O2, C2)
  BY DEF Match, Paired
<1>. QED  BY <1>1, <1>2, <1>3 DEF Match

\* A call with a nonce that was not used before matches its own request only.
LEMMA MatchCalled ==
    ASSUME NEW p, NEW O, NEW C, NEW made \in Nat, Match(p, O, C, made), NEW x,
           NEW O2 \in SUBSET (O \cup {<<<<p, made>>, x>>}),
           NEW C2 \in SUBSET (C \cup {<<<<p, made>>, Sent(x)>>})
    PROVE  Match(p, O2, C2, made + 1)
<1>1. Fresh(p, O2, made + 1)
  BY DEF Match, Fresh
<1>2. Fresh(p, C2, made + 1)
  BY DEF Match, Fresh
<1>3. ASSUME NEW o \in O2, NEW c \in C2, o[1] = c[1]  PROVE c[2] = Sent(o[2])
  <2>1. CASE o \in O /\ c \in C
    BY <1>3, <2>1 DEF Match, Paired
  <2>2. CASE o \in O /\ c = <<<<p, made>>, Sent(x)>>
    <3>1. PICK k \in Nat : o[1] = <<p, k>> /\ k < made
      BY <2>2 DEF Match, Fresh
    <3>2. <<p, k>> = <<p, made>>
      BY <1>3, <2>2, <3>1
    <3>. QED  BY <3>1, <3>2
  <2>3. CASE o = <<<<p, made>>, x>> /\ c \in C
    <3>1. PICK k \in Nat : c[1] = <<p, k>> /\ k < made
      BY <2>3 DEF Match, Fresh
    <3>2. <<p, k>> = <<p, made>>
      BY <1>3, <2>3, <3>1
    <3>. QED  BY <3>1, <3>2
  <2>4. CASE o = <<<<p, made>>, x>> /\ c = <<<<p, made>>, Sent(x)>>
    BY <2>4
  <2>. QED  BY <2>1, <2>2, <2>3, <2>4
<1>4. Paired(O2, C2)
  BY <1>3 DEF Paired
<1>. QED  BY <1>1, <1>2, <1>4 DEF Match

\* A step of p: p becomes s, and w arrives at it and v at the other.
Becomes(p, s, w, v) ==
    /\ proc' = [proc EXCEPT ![p] = s]
    /\ wire' = [r \in Process |-> IF r = p THEN w ELSE v]

\* A step of p changes what p is and what arrives at either, and leaves the other alone.
LEMMA StepOK ==
    ASSUME CallsAssumption, Procs, Matched, Typed, NEW p \in Process, NEW q \in Process, q = Other(p),
           NEW s, s \in Proc(p), NEW w, w \in Wire(p), NEW v, v \in Wire(q),
           Becomes(p, s, w, v),
           Match(p, OpenOf(s), CarriedOf(s, proc[q], w, v), s.made),
           CarriedOf(proc[q], s, v, w) \subseteq CarriedOf(proc[q], proc[p], wire[q], wire[p]),
           TypedOf(p, Range(w) \cup s.rmap), TypedOf(q, Range(v) \cup proc[q].rmap)
    PROVE  Procs' /\ Matched' /\ Typed'
<1>1. q # p /\ Other(q) = p /\ \A r \in Process : r = p \/ r = q
  BY TwoProcesses
<1>2. proc'[p] = s /\ proc'[q] = proc[q] /\ DOMAIN proc' = Process /\ proc' = [r \in Process |-> proc'[r]]
  BY <1>1 DEF Procs, Becomes
<1>3. wire'[p] = w /\ wire'[q] = v /\ DOMAIN wire' = Process /\ wire' = [r \in Process |-> wire'[r]]
  BY <1>1 DEF Becomes
<1>4. Procs'
  BY <1>1, <1>2, <1>3 DEF Procs
<1>5. Match(q, OpenOf(proc[q]), CarriedOf(proc[q], s, v, w), proc[q].made)
  <2>1. Match(q, OpenOf(proc[q]), CarriedOf(proc[q], proc[p], wire[q], wire[p]), proc[q].made)
    BY <1>1 DEF Matched
  <2>2. proc[q].made \in Nat
    BY DEF Procs, Proc
  <2>. HIDE DEF Match, OpenOf, CarriedOf
  <2>. QED  BY <2>1, <2>2, MatchKept
<1>6. Matched'
  <2>. SUFFICES ASSUME NEW r \in Process
                PROVE  Match(r, OpenOf(proc[r]), CarriedOf(proc[r], proc[Other(r)], wire[r], wire[Other(r)]), proc[r].made)'
    BY DEF Matched
  <2>1. CASE r = p
    BY <1>2, <1>3, <2>1, Zenon
  <2>2. CASE r = q
    BY <1>1, <1>2, <1>3, <1>5, <2>2, Zenon
  <2>. QED  BY <1>1, <2>1, <2>2
<1>7. Typed'
  <2>. SUFFICES ASSUME NEW r \in Process
                PROVE  TypedOf(r, Range(wire[r]) \cup proc[r].rmap)'
    BY DEF Typed
  <2>1. CASE r = p
    BY <1>2, <1>3, <2>1, Zenon
  <2>2. CASE r = q
    BY <1>1, <1>2, <1>3, <2>2, Zenon
  <2>. QED  BY <1>1, <2>1, <2>2
<1>. QED  BY <1>4, <1>6, <1>7

-----------------------------------------------------------------------------
(***************************************************************************)
(* Sending.                                                                *)
(***************************************************************************)

\* What sending m does: it arrives last at the other, or nothing does.
Arrives(p, m, n, v) ==
    /\ n \in RPCs(p) \cup RESs(p) /\ n.kind = m.kind /\ n.rpc = m.rpc /\ n.nonce = m.nonce
    /\ n.call = m.call /\ n.type = m.type
    /\ v \in Wire(Other(p))
    /\ v = wire[Other(p)] \/ v = Append(wire[Other(p)], n)
    /\ p = App => v = Append(wire[Other(p)], n)
    /\ p = Node /\ ~proc[App].conn => v = wire[Other(p)]
    /\ Range(v) \subseteq Range(wire[Other(p)]) \cup {n}

\* RealNet::SendMessage, of a call or a result.
LEMMA SentArrives ==
    ASSUME CallsAssumption, Procs, NEW p \in Process, NEW m \in RPCs(p) \cup RESs(p)
    PROVE  \E n, v : Arrives(p, m, n, v) /\ SentOn(wire, p, m) = [r \in Process |-> IF r = p THEN wire[p] ELSE v]
<1>. DEFINE n == [m EXCEPT !.isnew = p = App /\ ~proc[App].conn]
            q == Other(p)
            M == RPCs(p) \cup RESs(p) \cup {Closed}
<1>1. q # p /\ q \in Process /\ Other(q) = p /\ \A r \in Process : r = p \/ r = q
  BY TwoProcesses
<1>2. n \in RPCs(p) \cup RESs(p) /\ n.kind = m.kind /\ n.rpc = m.rpc /\ n.nonce = m.nonce
      /\ n.call = m.call /\ n.type = m.type
  <2>1. CASE m \in RPCs(p)
    BY <2>1 DEF RPCs
  <2>2. CASE m \in RESs(p)
    BY <2>2 DEF RESs
  <2>. QED  BY <2>1, <2>2
<1>3. wire[q] \in Seq(M) /\ Wire(q) = Seq(M)
  BY <1>1 DEF Procs, Wire
<1>. HIDE DEF n, q
<1>4. n \in M
  BY <1>2
<1>. HIDE DEF M
<1>5. Append(wire[q], n) \in Seq(M) /\ Range(Append(wire[q], n)) = Range(wire[q]) \cup {n}
  BY <1>3, <1>4, Appended
<1>6. CASE p = Node /\ ~proc[App].conn
  <2>1. SentOn(wire, p, m) = wire
    BY <1>6 DEF SentOn
  <2>2. wire = [r \in Process |-> IF r = p THEN wire[p] ELSE wire[q]]
    BY <1>1 DEF Procs
  <2>3. Arrives(p, m, n, wire[q])
    BY <1>2, <1>3, <1>6 DEF Arrives, q, CallsAssumption
  <2>. QED  BY <2>1, <2>2, <2>3
<1>7. CASE ~(p = Node /\ ~proc[App].conn)
  <2>1. SentOn(wire, p, m) = [wire EXCEPT ![q] = Append(@, n)]
    BY <1>7 DEF SentOn, n, q
  <2>2. SentOn(wire, p, m) = [r \in Process |-> IF r = p THEN wire[p] ELSE Append(wire[q], n)]
    BY <1>1, <2>1 DEF Procs
  <2>3. Arrives(p, m, n, Append(wire[q], n))
    BY <1>2, <1>3, <1>5, <1>7 DEF Arrives, q
  <2>. QED  BY <2>2, <2>3
<1>. QED  BY <1>6, <1>7

\* Whoever sends: an application that is connected, or a node.
LEMMA SendConnected ==
    ASSUME CallsAssumption, Procs, Connected, NEW p \in Process, NEW m \in RPCs(p) \cup RESs(p), NEW n, NEW v,
           Arrives(p, m, n, v), wire' = [r \in Process |-> IF r = p THEN wire[p] ELSE v],
           p = App => proc'[App].conn /\ proc'[App].to = Node,
           p = Node => proc'[App] = proc[App]
    PROVE  Connected'
<1>. DEFINE q == Other(p)
            M == RPCs(p) \cup RESs(p) \cup {Closed}
<1>1. q # p /\ q \in Process /\ Other(q) = p /\ p \in {App, Node} /\ q \in {App, Node}
  BY TwoProcesses DEF Process
<1>2. wire'[p] = wire[p] /\ wire'[q] = v
  BY <1>1
<1>3. wire[q] \in Seq(M) /\ n \in M /\ n.kind # "closed" /\ Len(wire[q]) \in Nat
  <2>1. wire[q] \in Seq(M) /\ n \in M
    BY <1>1 DEF Procs, Wire, Arrives
  <2>. HIDE DEF M
  <2>2. Len(wire[q]) \in Nat
    BY <2>1
  <2>3. n.kind # "closed"
    BY DEF Arrives, RPCs, RESs
  <2>. QED  BY <2>1, <2>2, <2>3
<1>. HIDE DEF M
<1>4. LET a == Append(wire[q], n)
      IN  /\ Len(a) = Len(wire[q]) + 1 /\ \A i \in 1 .. Len(wire[q]) : a[i] = wire[q][i]
          /\ a[Len(wire[q]) + 1] = n /\ a # <<>>
  <2>. DEFINE a == Append(wire[q], n)
  <2>1. /\ a \in Seq(M) /\ Len(a) = Len(wire[q]) + 1 /\ a[Len(wire[q]) + 1] = n
        /\ \A i \in 1 .. Len(wire[q]) : a[i] = wire[q][i]
    BY <1>3, Appended
  <2>. HIDE DEF a
  <2>2. a # <<>>
    BY <1>3, <2>1
  <2>. QED  BY <2>1, <2>2
<1>5. CASE p = App
  <2>1. q = Node /\ v = Append(wire[q], n)
    BY <1>1, <1>5 DEF Arrives, q
  <2>2. Apart(v)
    BY <1>3, <1>4, <2>1 DEF Connected, Apart
  <2>3. v[Len(v)].kind # "closed"
    BY <1>3, <1>4, <2>1
  <2>. QED  BY <1>2, <1>5, <2>1, <2>2, <2>3 DEF Connected
<1>6. CASE p # App
  <2>1. p = Node /\ q = App
    BY <1>1, <1>6
  <2>2. v = wire[App] \/ v = Append(wire[App], n)
    BY <2>1 DEF Arrives
  <2>3. \A i \in 1 .. Len(v) : v[i].kind # "closed"
    BY <1>3, <1>4, <2>1, <2>2 DEF Connected
  <2>4. ~proc[App].conn => v = wire[App]
    BY <2>1 DEF Arrives
  <2>. QED  BY <1>2, <2>1, <2>3, <2>4 DEF Connected
<1>. QED  BY <1>5, <1>6

\* A call (CallAsync and the start of AsyncResult) by p, when its own state is s: the call is
\* open and its request is under way, or the node has nobody to call.
LEMMA CallOK ==
    ASSUME CallsAssumption, Procs, Connected, Matched, Typed, NEW p \in Process,
           NEW s, s \in Proc(p), s.to = proc[p].to, s.reqs = proc[p].reqs, s.rmap = proc[p].rmap,
           s.made = proc[p].made, s.conn = proc[p].conn,
           OpenOf(s) \subseteq OpenOf(proc[p]), ServedOf(s) \subseteq ServedOf(proc[p]),
           KnownOf(IF p = App THEN s.stack ELSE proc[App].stack, samplers'.given),
           NEW x \in Calls(p), NEW id \in Nat, Call(p, s, x, id)
    PROVE  Procs' /\ Connected' /\ Known' /\ Matched' /\ Typed'
<1>. DEFINE q == Other(p)
            nonce == <<p, s.made>>
            f == [at |-> "wait", method |-> x, nonce |-> nonce, id |-> id, pumping |-> FALSE]
            made == s.made + 1
            conn == TRUE
            stack == Append(s.stack, f)
            sent == [s EXCEPT !.made = made, !.conn = conn, !.stack = stack]
            m == Message(p, "RPC", nonce, Sent(x), id, None)
            O == OpenOf(proc[p])
            C == CarriedOf(proc[p], proc[q], wire[p], wire[q])
<1>1. q # p /\ q \in Process /\ Other(q) = p /\ p \in {App, Node} /\ App # Node /\ {p, q} = {App, Node}
  BY TwoProcesses DEF Process, CallsAssumption
<1>2. /\ s.made \in Nat /\ s.stack \in Seq(Waiting(p) \cup Serving(p))
      /\ proc[p] \in Proc(p) /\ proc[q] \in Proc(q) /\ wire[p] \in Wire(p) /\ wire[q] \in Wire(q)
  BY <1>1 DEF Proc, Procs
<1>3. Match(p, O, C, s.made)
  BY DEF Matched
<1>4. TypedOf(p, Range(wire[p]) \cup proc[p].rmap) /\ TypedOf(q, Range(wire[q]) \cup proc[q].rmap)
  BY <1>1 DEF Typed
<1>5. CASE s.to = None
  <2>. DEFINE alive == p = Node
              t == [s EXCEPT !.made = made, !.alive = alive]
  <2>1. p = Node /\ q = App
    BY <1>1, <1>5 DEF Connected, CallsAssumption, Process
  <2>2. proc' = [proc EXCEPT ![p] = t] /\ wire' = wire
    BY <1>5 DEF Call
  <2>3. /\ t \in Proc(p) /\ t.made = s.made + 1 /\ t.stack = s.stack /\ t.reqs = proc[p].reqs
        /\ t.rmap = proc[p].rmap
    <3>1. made \in Nat /\ alive \in BOOLEAN
      BY <1>2
    <3>. HIDE DEF made, alive
    <3>2. /\ t \in Proc(p) /\ t.made = made /\ t.stack = s.stack /\ t.reqs = s.reqs /\ t.rmap = s.rmap
      BY <3>1 DEF Proc
    <3>. QED  BY <3>2 DEF made
  <2>4. Becomes(p, t, wire[p], wire[q])
    BY <1>1, <2>2 DEF Procs, Process, Becomes
  <2>. HIDE DEF t
  <2>5. OpenOf(t) \subseteq O /\ ServedOf(t) \subseteq ServedOf(proc[p])
    BY <2>3 DEF OpenOf, ServedOf
  <2>6. CarriedOf(t, proc[q], wire[p], wire[q]) = C
    BY <2>3 DEF CarriedOf
  <2>7. CarriedOf(proc[q], t, wire[q], wire[p]) \subseteq CarriedOf(proc[q], proc[p], wire[q], wire[p])
    BY <2>3, <2>5 DEF CarriedOf
  <2>8. Match(p, OpenOf(t), CarriedOf(t, proc[q], wire[p], wire[q]), t.made)
    <3>1. s.made + 1 \in Nat /\ s.made <= s.made + 1
      BY <1>2
    <3>. HIDE DEF O, C
    <3>. QED  BY <1>2, <1>3, <2>3, <2>5, <2>6, <3>1, MatchKept
  <2>9. Procs' /\ Matched' /\ Typed'
    <3>. HIDE DEF q, O, C
    <3>1. TypedOf(p, Range(wire[p]) \cup t.rmap)
      BY <1>4, <2>3
    <3>. QED  BY <1>1, <1>2, <1>4, <2>3, <2>4, <2>7, <2>8, <3>1, StepOK DEF q
  <2>10. proc'[App] = proc[App]
    BY <1>1, <2>1, <2>2 DEF Procs
  <2>11. Connected'
    BY <2>2, <2>10 DEF Connected
  <2>12. Known'
    BY <1>1, <2>1, <2>10 DEF Known
  <2>. QED  BY <2>9, <2>11, <2>12
<1>6. CASE s.to # None
  <2>1. m \in RPCs(p) /\ m.rpc = "RPC" /\ m.kind = "message" /\ m.nonce = nonce /\ m.call = Sent(x)
    BY <1>2 DEF RPCs, Message
  <2>2. f \in Waiting(p) \cup Serving(p) /\ f.at = "wait" /\ f.nonce = nonce /\ f.method = x
    BY <1>2 DEF Waiting
  <2>3. proc' = [proc EXCEPT ![p] = sent] /\ wire' = SentOn(wire, p, m)
    BY <1>6 DEF Call
  <2>. HIDE DEF m, f
  <2>4. PICK n, v : Arrives(p, m, n, v) /\ wire' = [r \in Process |-> IF r = p THEN wire[p] ELSE v]
    BY <1>1, <2>1, <2>3, SentArrives
  <2>5. /\ n.kind = "message" /\ n.rpc = "RPC" /\ n.nonce = nonce /\ n.call = Sent(x)
        /\ v \in Wire(q) /\ Range(v) \subseteq Range(wire[q]) \cup {n}
    BY <2>1, <2>4 DEF Arrives
  <2>6. /\ Append(s.stack, f) \in Seq(Waiting(p) \cup Serving(p)) /\ Range(Append(s.stack, f)) = Range(s.stack) \cup {f}
        /\ Len(Append(s.stack, f)) = Len(s.stack) + 1 /\ Append(s.stack, f)[Len(s.stack) + 1] = f
        /\ \A i \in 1 .. Len(s.stack) : Append(s.stack, f)[i] = s.stack[i]
    <3>. DEFINE S == Waiting(p) \cup Serving(p)
    <3>. HIDE DEF S
    <3>1. s.stack \in Seq(S) /\ f \in S
      BY <1>2, <2>2 DEF S
    <3>2. /\ Append(s.stack, f) \in Seq(S) /\ Range(Append(s.stack, f)) = Range(s.stack) \cup {f}
          /\ Len(Append(s.stack, f)) = Len(s.stack) + 1 /\ Append(s.stack, f)[Len(s.stack) + 1] = f
          /\ \A i \in 1 .. Len(s.stack) : Append(s.stack, f)[i] = s.stack[i]
      BY <3>1, Appended
    <3>. QED  BY <3>2 DEF S
  <2>7. /\ sent \in Proc(p) /\ sent.made = s.made + 1 /\ sent.stack = Append(s.stack, f) /\ sent.reqs = proc[p].reqs
        /\ sent.rmap = proc[p].rmap /\ sent.conn = TRUE /\ sent.to = proc[p].to
    <3>1. made \in Nat /\ conn \in BOOLEAN /\ stack \in Seq(Waiting(p) \cup Serving(p))
      BY <1>2, <2>6
    <3>. HIDE DEF made, conn, stack
    <3>2. /\ sent \in Proc(p) /\ sent.made = made /\ sent.stack = stack /\ sent.reqs = s.reqs
          /\ sent.rmap = s.rmap /\ sent.conn = conn /\ sent.to = s.to
      BY <3>1 DEF Proc
    <3>. QED  BY <3>2 DEF made, conn, stack
  <2>. HIDE DEF sent
  <2>8. OpenOf(sent) \subseteq O \cup {<<nonce, x>>} /\ ServedOf(sent) \subseteq ServedOf(proc[p])
    <3>1. OpenOf(sent) \subseteq OpenOf(s) \cup {<<nonce, x>>}
      BY <2>2, <2>6, <2>7 DEF OpenOf
    <3>2. ServedOf(sent) \subseteq ServedOf(s)
      BY <2>2, <2>6, <2>7 DEF ServedOf
    <3>. QED  BY <3>1, <3>2
  <2>9. /\ RequestedOf(Range(v) \cup Range(proc[q].reqs))
               \subseteq RequestedOf(Range(wire[q]) \cup Range(proc[q].reqs)) \cup {<<nonce, Sent(x)>>}
        /\ AnswersOf(Range(v) \cup proc[q].rmap) \subseteq AnswersOf(Range(wire[q]) \cup proc[q].rmap)
    BY <2>5 DEF RequestedOf, AnswersOf
  <2>10. CarriedOf(sent, proc[q], wire[p], v) \subseteq C \cup {<<nonce, Sent(x)>>}
    BY <2>7, <2>9 DEF CarriedOf
  <2>11. CarriedOf(proc[q], sent, v, wire[p]) \subseteq CarriedOf(proc[q], proc[p], wire[q], wire[p])
    <3>1. AnsweredOf(Range(v) \cup proc[q].rmap) \subseteq AnsweredOf(Range(wire[q]) \cup proc[q].rmap)
      BY <2>9 DEF AnsweredOf
    <3>. QED  BY <2>7, <2>8, <3>1 DEF CarriedOf
  <2>12. Match(p, OpenOf(sent), CarriedOf(sent, proc[q], wire[p], v), sent.made)
    <3>1. OpenOf(sent) \in SUBSET (O \cup {<<<<p, s.made>>, x>>})
      BY <2>8
    <3>2. CarriedOf(sent, proc[q], wire[p], v) \in SUBSET (C \cup {<<<<p, s.made>>, Sent(x)>>})
      BY <2>10
    <3>. HIDE DEF O, C
    <3>3. Match(p, OpenOf(sent), CarriedOf(sent, proc[q], wire[p], v), s.made + 1)
      BY <1>2, <1>3, <3>1, <3>2, MatchCalled, Zenon
    <3>. QED  BY <2>7, <3>3
  <2>13. TypedOf(p, Range(wire[p]) \cup sent.rmap) /\ TypedOf(q, Range(v) \cup proc[q].rmap)
    BY <1>4, <2>7, <2>9 DEF TypedOf
  <2>14. Procs' /\ Matched' /\ Typed'
    <3>1. Becomes(p, sent, wire[p], v)
      BY <2>3, <2>4 DEF Becomes
    <3>. HIDE DEF O, C, nonce, q
    <3>. QED  BY <1>1, <1>2, <2>5, <2>7, <2>11, <2>12, <2>13, <3>1, StepOK DEF q
  <2>15. (p = App => proc'[App] = sent) /\ (p = Node => proc'[App] = proc[App])
    BY <1>1, <2>3 DEF Procs
  <2>16. Connected'
    <3>1. p = App => proc'[App].conn /\ proc'[App].to = Node
      BY <2>7, <2>15 DEF Connected
    <3>2. m \in RPCs(p) \cup RESs(p)
      BY <2>1
    <3>. QED  BY <2>4, <2>15, <3>1, <3>2, SendConnected
  <2>17. Known'
    <3>1. CASE p = App
      <4>1. KnownOf(s.stack, samplers'.given)
        BY <3>1
      <4>2. KnownOf(Append(s.stack, f), samplers'.given)
        <5>. SUFFICES ASSUME NEW i \in 1 .. Len(Append(s.stack, f)), Append(s.stack, f)[i].at = "serve",
                             Append(s.stack, f)[i].rpc.call \in SamplerCallbacks
                      PROVE  Append(s.stack, f)[i].rpc.id < Len(samplers'.given)
          BY DEF KnownOf
        <5>1. i \in 1 .. Len(s.stack) \/ i = Len(s.stack) + 1
          BY <1>2, <2>6
        <5>2. i # Len(s.stack) + 1
          BY <2>2, <2>6
        <5>. QED  BY <4>1, <5>1, <5>2, <2>6 DEF KnownOf
      <4>. QED  BY <2>7, <2>15, <3>1, <4>2 DEF Known
    <3>2. CASE p # App
      BY <1>1, <2>15, <3>2 DEF Known
    <3>. QED  BY <3>1, <3>2
  <2>. QED  BY <2>14, <2>16, <2>17
<1>. QED  BY <1>5, <1>6

\* An application that knows more samplers still has those it serves calls about.
LEMMA KnownGrows ==
    ASSUME NEW k \in Seq(Waiting(App) \cup Serving(App)), NEW g \in Seq(Samplers), NEW h \in Seq(Samplers),
           Len(g) <= Len(h), KnownOf(k, g)
    PROVE  KnownOf(k, h)
<1>. SUFFICES ASSUME NEW i \in 1 .. Len(k), k[i].at = "serve", k[i].rpc.call \in SamplerCallbacks
              PROVE  k[i].rpc.id < Len(h)
  BY DEF KnownOf
<1>1. k[i].rpc.id < Len(g)
  BY DEF KnownOf
<1>2. k[i].rpc.id \in Nat
  <2>1. k[i] \in Waiting(App) \cup Serving(App)
    OBVIOUS
  <2>2. k[i] \in Serving(App)
    BY <2>1 DEF Waiting
  <2>3. k[i].rpc \in RPCs(Other(App))
    BY <2>2 DEF Serving
  <2>. QED  BY <2>3 DEF RPCs
<1>3. Len(g) \in Nat /\ Len(h) \in Nat
  OBVIOUS
<1>. QED  BY <1>1, <1>2, <1>3

-----------------------------------------------------------------------------
(***************************************************************************)
(* The steps.                                                              *)
(***************************************************************************)

\* PointerMap: an id is given once, and the samplers there are keep theirs.
LEMMA GivenKept ==
    ASSUME Sampled, NEW s \in Samplers
    PROVE  /\ GivenWith(s) \in Seq(Samplers) /\ Len(samplers.given) <= Len(GivenWith(s))
           /\ (CHOOSE i \in DOMAIN GivenWith(s) : GivenWith(s)[i] = s) - 1 \in Nat
<1>. DEFINE g == samplers.given
            h == GivenWith(s)
<1>1. g \in Seq(Samplers) /\ Len(g) \in Nat
  BY DEF Sampled
<1>2. CASE \E i \in DOMAIN g : g[i] = s
  <2>1. h = g
    BY <1>2 DEF GivenWith
  <2>2. (CHOOSE i \in DOMAIN h : h[i] = s) \in DOMAIN g
    BY <1>2, <2>1
  <2>3. DOMAIN g = 1 .. Len(g)
    BY <1>1
  <2>. HIDE DEF g, h
  <2>4. (CHOOSE i \in DOMAIN h : h[i] = s) - 1 \in Nat
    BY <1>1, <2>2, <2>3
  <2>. QED  BY <1>1, <2>1, <2>4 DEF g, h
<1>3. CASE ~\E i \in DOMAIN g : g[i] = s
  <2>1. h = Append(g, s)
    BY <1>3 DEF GivenWith
  <2>. HIDE DEF g, h
  <2>2. h \in Seq(Samplers) /\ Len(h) = Len(g) + 1 /\ h[Len(g) + 1] = s
    BY <1>1, <2>1, Appended
  <2>3. DOMAIN h = 1 .. Len(g) + 1
    BY <2>2
  <2>4. (CHOOSE i \in DOMAIN h : h[i] = s) \in DOMAIN h
    <3>1. \E i \in DOMAIN h : h[i] = s
      BY <1>1, <2>2, <2>3
    <3>. QED  BY <3>1
  <2>5. (CHOOSE i \in DOMAIN h : h[i] = s) - 1 \in Nat
    BY <1>1, <2>3, <2>4
  <2>6. Len(g) <= Len(h)
    BY <1>1, <2>2
  <2>. QED  BY <2>2, <2>5, <2>6 DEF g, h
<1>. QED  BY <1>2, <1>3

\* The application calls a method of its node.
LEMMA AppCallsOK ==
    ASSUME CallsAssumption, IInv, AppCalls
    PROVE  IInv'
<1>1. PICK method \in conf.methods, s \in conf.samplers :
         LET about == method \in Registering \cup {"GetSamples"}
             given == IF about THEN GivenWith(s) ELSE samplers.given
             id == IF about THEN (CHOOSE i \in DOMAIN given : given[i] = s) - 1 ELSE 0
         IN  /\ proc[App].alive /\ proc[App].stack = <<>> /\ proc[App].made < conf.calls[App]
             /\ Call(App, proc[App], method, id)
             /\ samplers' = [samplers EXCEPT !.given = given]
             /\ UNCHANGED <<conf, log>>
  BY DEF AppCalls
<1>. DEFINE about == method \in Registering \cup {"GetSamples"}
            given == IF about THEN GivenWith(s) ELSE samplers.given
            id == IF about THEN (CHOOSE i \in DOMAIN given : given[i] = s) - 1 ELSE 0
<1>2. /\ Call(App, proc[App], method, id)
      /\ samplers' = [samplers EXCEPT !.given = given] /\ UNCHANGED <<conf, log>>
  BY <1>1
<1>3. App \in Process /\ proc[App] \in Proc(App) /\ method \in Calls(App) /\ s \in Samplers
  BY DEF IInv, TypeOK, Procs, Confs, Process, Calls
<1>4. Sampled /\ samplers.given \in Seq(Samplers)
  BY DEF IInv, TypeOK, Sampled
<1>5. given \in Seq(Samplers) /\ Len(samplers.given) <= Len(given) /\ id \in Nat
  BY <1>3, <1>4, GivenKept
<1>. HIDE DEF id, given
<1>6. Sampled' /\ samplers'.given = given
  BY <1>2, <1>4, <1>5 DEF Sampled
<1>7. KnownOf(proc[App].stack, given)
  <2>1. proc[App].stack \in Seq(Waiting(App) \cup Serving(App))
    BY <1>3 DEF Proc
  <2>2. KnownOf(proc[App].stack, samplers.given)
    BY DEF IInv, Known
  <2>. QED  BY <1>4, <1>5, <2>1, <2>2, KnownGrows
<1>8. Procs' /\ Connected' /\ Known' /\ Matched' /\ Typed'
  BY <1>2, <1>3, <1>5, <1>6, <1>7, CallOK DEF IInv, TypeOK
<1>9. Confs' /\ OwnResult'
  BY <1>2 DEF IInv, TypeOK, Confs, OwnResult
<1>. QED  BY <1>6, <1>8, <1>9 DEF IInv, TypeOK

\* A node calls its application, of its own.
LEMMA NodeCallsOK ==
    ASSUME CallsAssumption, IInv, NodeCalls
    PROVE  IInv'
<1>1. PICK method \in conf.callbacks, id \in DOMAIN samplers.names :
         Call(Node, proc[Node], method, id) /\ UNCHANGED <<conf, samplers, log>>
  BY DEF NodeCalls
<1>2. Node \in Process /\ Node # App /\ proc[Node] \in Proc(Node) /\ method \in Calls(Node) /\ id \in Nat
  BY DEF IInv, TypeOK, Procs, Confs, Sampled, Process, Calls, CallsAssumption
<1>3. KnownOf(proc[App].stack, samplers'.given)
  BY <1>1 DEF IInv, Known
<1>4. Procs' /\ Connected' /\ Known' /\ Matched' /\ Typed'
  BY <1>1, <1>2, <1>3, CallOK DEF IInv, TypeOK
<1>5. Confs' /\ OwnResult' /\ Sampled'
  BY <1>1 DEF IInv, TypeOK, Confs, OwnResult, Sampled
<1>. QED  BY <1>4, <1>5 DEF IInv, TypeOK

\* The application dies and its connection closes: nothing of its calls is left.
LEMMA CloseOK ==
    ASSUME CallsAssumption, IInv, Close
    PROVE  IInv'
<1>. DEFINE s == [Idle(App) EXCEPT !.made = proc[App].made, !.alive = FALSE]
            v == IF proc[App].conn THEN Append(wire[Node], Closed) ELSE wire[Node]
            M == RPCs(App) \cup RESs(App) \cup {Closed}
<1>1. App \in Process /\ Node \in Process /\ App # Node /\ Other(App) = Node /\ Other(Node) = App
  BY DEF Process, Other, CallsAssumption
<1>2. /\ Procs /\ Connected /\ Matched /\ Typed
      /\ proc[App] \in Proc(App) /\ proc[Node] \in Proc(Node) /\ proc[App].made \in Nat
      /\ wire[Node] \in Seq(M) /\ wire[App] \in Wire(App) /\ Wire(Node) = Seq(M)
  BY <1>1 DEF IInv, TypeOK, Procs, Proc, Wire
<1>3. /\ Idle(App) \in Proc(App) /\ Idle(App).stack = <<>> /\ Idle(App).reqs = <<>> /\ Idle(App).rmap = {}
      /\ Idle(App).to = Node /\ Idle(App).conn = FALSE
  <2>. DEFINE alive == TRUE
              conn == App = Node
              idle == [stack |-> <<>>, to |-> Node, reqs |-> <<>>, rmap |-> {}, made |-> 0, alive |-> alive, conn |-> conn]
  <2>1. alive \in BOOLEAN /\ conn \in BOOLEAN /\ conn = FALSE
    BY <1>1
  <2>2. Idle(App) = idle
    BY Zenon DEF Idle
  <2>. HIDE DEF alive, conn
  <2>3. idle \in Proc(App)
    BY <1>1, <2>1 DEF Proc
  <2>. QED  BY <2>1, <2>2, <2>3
<1>4. /\ s \in Proc(App) /\ s.stack = <<>> /\ s.reqs = <<>> /\ s.rmap = {} /\ s.made = proc[App].made
      /\ s.to = Node /\ s.conn = FALSE
  <2>. DEFINE idle == Idle(App)
              dead == FALSE
              made == proc[App].made
  <2>1. dead \in BOOLEAN /\ made \in Nat
    BY <1>2
  <2>. HIDE DEF idle, dead, made
  <2>2. /\ [idle EXCEPT !.made = made, !.alive = dead].made = made
        /\ [idle EXCEPT !.made = made, !.alive = dead] \in Proc(App)
        /\ [idle EXCEPT !.made = made, !.alive = dead].stack = idle.stack
        /\ [idle EXCEPT !.made = made, !.alive = dead].reqs = idle.reqs
        /\ [idle EXCEPT !.made = made, !.alive = dead].rmap = idle.rmap
        /\ [idle EXCEPT !.made = made, !.alive = dead].to = idle.to
        /\ [idle EXCEPT !.made = made, !.alive = dead].conn = idle.conn
    BY <1>3, <2>1 DEF Proc, idle
  <2>3. s = [idle EXCEPT !.made = made, !.alive = dead]
    BY DEF idle, made, dead
  <2>. HIDE DEF s
  <2>. QED  BY <1>3, <2>2, <2>3 DEF idle, made
<1>5. Becomes(App, s, <<>>, v)
  <2>1. wire' = [[wire EXCEPT ![App] = <<>>] EXCEPT ![Node] = v]
    BY <1>1, <1>2 DEF Close, Closed, Procs
  <2>2. wire' = [r \in Process |-> IF r = App THEN <<>> ELSE v]
    BY <1>1, <1>2, <2>1 DEF Procs, Process
  <2>. QED  BY <2>2 DEF Close, Becomes
<1>. HIDE DEF s
<1>7. /\ v \in Seq(M) /\ Range(v) \subseteq Range(wire[Node]) \cup {Closed} /\ Apart(v)
  <2>1. CASE proc[App].conn
    <3>1. Closed \in M /\ v = Append(wire[Node], Closed)
      BY <2>1
    <3>. HIDE DEF M, v
    <3>2. /\ v \in Seq(M) /\ Range(v) = Range(wire[Node]) \cup {Closed} /\ Len(v) = Len(wire[Node]) + 1
          /\ \A i \in 1 .. Len(wire[Node]) : v[i] = wire[Node][i]
      BY <1>2, <3>1, Appended
    <3>3. ASSUME NEW i \in 1 .. Len(v) - 1, v[i].kind = "closed"  PROVE v[i + 1].kind # "closed"
      <4>1. Len(wire[Node]) \in Nat /\ i \in 1 .. Len(wire[Node]) /\ v[i] = wire[Node][i]
        BY <1>2, <3>2
      <4>2. wire[Node] # <<>>
        BY <4>1
      <4>3. i # Len(wire[Node])
        BY <1>2, <2>1, <3>3, <4>1, <4>2 DEF Connected
      <4>4. i \in 1 .. Len(wire[Node]) - 1 /\ v[i + 1] = wire[Node][i + 1]
        BY <3>2, <4>1, <4>3
      <4>. QED  BY <1>2, <3>3, <4>1, <4>4 DEF Connected, Apart
    <3>. QED  BY <3>2, <3>3 DEF Apart
  <2>2. CASE ~proc[App].conn
    BY <1>2, <2>2 DEF Connected
  <2>. QED  BY <2>1, <2>2
<1>. HIDE DEF v, M
<1>8. /\ RequestedOf(Range(v) \cup Range(proc[Node].reqs)) \subseteq RequestedOf(Range(wire[Node]) \cup Range(proc[Node].reqs))
      /\ AnswersOf(Range(v) \cup proc[Node].rmap) \subseteq AnswersOf(Range(wire[Node]) \cup proc[Node].rmap)
  BY <1>7 DEF RequestedOf, AnswersOf, Closed
<1>9. Range(<<>>) = {} /\ <<>> \in Wire(App)
  BY DEF Range, Wire
<1>10. /\ OpenOf(s) = {} /\ ServedOf(s) = {} /\ AnswersOf(Range(<<>>) \cup s.rmap) = {}
       /\ RequestedOf(Range(<<>>) \cup Range(s.reqs)) = {}
  BY <1>4, <1>9 DEF OpenOf, ServedOf, AnswersOf, RequestedOf
<1>11. CarriedOf(s, proc[Node], <<>>, v) \subseteq CarriedOf(proc[App], proc[Node], wire[App], wire[Node])
  BY <1>8, <1>10 DEF CarriedOf, AnsweredOf
<1>12. CarriedOf(proc[Node], s, v, <<>>) \subseteq CarriedOf(proc[Node], proc[App], wire[Node], wire[App])
  BY <1>8, <1>10 DEF CarriedOf, AnsweredOf
<1>13. Match(App, OpenOf(s), CarriedOf(s, proc[Node], <<>>, v), s.made)
  <2>1. Match(App, OpenOf(proc[App]), CarriedOf(proc[App], proc[Node], wire[App], wire[Node]), proc[App].made)
    BY <1>1, <1>2 DEF Matched
  <2>. QED  BY <1>2, <1>4, <1>10, <1>11, <2>1, MatchKept
<1>14. TypedOf(App, Range(<<>>) \cup s.rmap) /\ TypedOf(Node, Range(v) \cup proc[Node].rmap)
  BY <1>1, <1>2, <1>8, <1>10 DEF Typed, TypedOf
<1>15. v \in Wire(Node)
  BY <1>2, <1>7
<1>16. Procs' /\ Matched' /\ Typed'
  BY <1>1, <1>2, <1>5, <1>4, <1>9, <1>12, <1>13, <1>14, <1>15, StepOK
<1>17. proc'[App] = s /\ wire'[App] = <<>> /\ wire'[Node] = v
  BY <1>1, <1>2, <1>5 DEF Becomes, Procs
<1>18. Connected' /\ Known'
  BY <1>4, <1>7, <1>17 DEF Connected, Known, KnownOf
<1>19. Confs' /\ OwnResult' /\ Sampled'
  BY DEF Close, IInv, TypeOK, Confs, OwnResult, Sampled
<1>. QED  BY <1>16, <1>18, <1>19 DEF IInv, TypeOK

\* The application is started again, and has nothing under way.
LEMMA RestartOK ==
    ASSUME CallsAssumption, IInv, Restart
    PROVE  IInv'
<1>. DEFINE alive == TRUE
            s == [proc[App] EXCEPT !.alive = alive]
<1>1. App \in Process /\ Node \in Process /\ App # Node /\ Other(App) = Node /\ Other(Node) = App
  BY DEF Process, Other, CallsAssumption
<1>2. /\ Procs /\ Connected /\ Matched /\ Typed
      /\ proc[App] \in Proc(App) /\ wire[Node] \in Wire(Node) /\ wire[App] \in Wire(App)
      /\ ~proc[App].conn /\ proc[App].stack = <<>>
  BY <1>1 DEF IInv, TypeOK, Procs, Restart, Connected
<1>3. Becomes(App, s, wire[App], wire[Node])
  BY <1>1, <1>2 DEF Restart, Becomes, Procs, Process
<1>4. alive \in BOOLEAN
  OBVIOUS
<1>. HIDE DEF alive
<1>5. /\ s \in Proc(App) /\ s.stack = proc[App].stack /\ s.reqs = proc[App].reqs /\ s.rmap = proc[App].rmap
      /\ s.made = proc[App].made /\ s.to = proc[App].to /\ s.conn = proc[App].conn
  BY <1>2, <1>4 DEF Proc
<1>. HIDE DEF s
<1>6. OpenOf(s) = OpenOf(proc[App]) /\ ServedOf(s) = ServedOf(proc[App])
  BY <1>5 DEF OpenOf, ServedOf
<1>7. /\ CarriedOf(s, proc[Node], wire[App], wire[Node]) = CarriedOf(proc[App], proc[Node], wire[App], wire[Node])
      /\ CarriedOf(proc[Node], s, wire[Node], wire[App]) = CarriedOf(proc[Node], proc[App], wire[Node], wire[App])
  BY <1>5, <1>6 DEF CarriedOf
<1>8. Match(App, OpenOf(s), CarriedOf(s, proc[Node], wire[App], wire[Node]), s.made)
  BY <1>1, <1>2, <1>5, <1>6, <1>7 DEF Matched
<1>9. TypedOf(App, Range(wire[App]) \cup s.rmap) /\ TypedOf(Node, Range(wire[Node]) \cup proc[Node].rmap)
  BY <1>1, <1>2, <1>5 DEF Typed
<1>10. Procs' /\ Matched' /\ Typed'
  BY <1>1, <1>2, <1>3, <1>5, <1>7, <1>8, <1>9, StepOK
<1>11. proc'[App] = s /\ wire' = wire
  BY <1>1, <1>2, <1>3 DEF Becomes, Procs, Restart
<1>12. Connected' /\ Known'
  BY <1>2, <1>5, <1>11 DEF Connected, Known, KnownOf
<1>13. Sampled' /\ OwnResult'
  BY DEF IInv, TypeOK, Sampled, Restart, OwnResult
<1>14. Confs'
  BY DEF IInv, TypeOK, Confs, Restart
<1>. QED  BY <1>10, <1>12, <1>13, <1>14 DEF IInv, TypeOK

\* A process that reads only: what it has is moved, dropped or taken up, and nothing is added.
LEMMA ReadsOK ==
    ASSUME CallsAssumption, IInv, NEW p \in Process, NEW q \in Process, q = Other(p),
           NEW s, s \in Proc(p), NEW w, w \in Wire(p), Becomes(p, s, w, wire[q]),
           s.made = proc[p].made, OpenOf(s) \subseteq OpenOf(proc[p]),
           RequestedOf(Range(w) \cup Range(s.reqs)) \cup ServedOf(s)
               \subseteq RequestedOf(Range(wire[p]) \cup Range(proc[p].reqs)) \cup ServedOf(proc[p]),
           AnswersOf(Range(w) \cup s.rmap) \subseteq AnswersOf(Range(wire[p]) \cup proc[p].rmap)
    PROVE  Procs' /\ Matched' /\ Typed'
<1>1. q # p /\ Other(q) = p
  BY TwoProcesses
<1>2. /\ Procs /\ Matched /\ Typed /\ wire[q] \in Wire(q) /\ proc[p].made \in Nat
  BY <1>1 DEF IInv, TypeOK, Procs, Proc
<1>3. AnsweredOf(Range(w) \cup s.rmap) \subseteq AnsweredOf(Range(wire[p]) \cup proc[p].rmap)
  BY DEF AnsweredOf
<1>4. CarriedOf(s, proc[q], w, wire[q]) \subseteq CarriedOf(proc[p], proc[q], wire[p], wire[q])
  BY <1>3 DEF CarriedOf
<1>5. CarriedOf(proc[q], s, wire[q], w) \subseteq CarriedOf(proc[q], proc[p], wire[q], wire[p])
  BY DEF CarriedOf
<1>6. Match(p, OpenOf(s), CarriedOf(s, proc[q], w, wire[q]), s.made)
  <2>1. Match(p, OpenOf(proc[p]), CarriedOf(proc[p], proc[q], wire[p], wire[q]), proc[p].made)
    BY <1>2 DEF Matched
  <2>. QED  BY <1>2, <1>4, <2>1, MatchKept
<1>7. TypedOf(p, Range(w) \cup s.rmap) /\ TypedOf(q, Range(wire[q]) \cup proc[q].rmap)
  BY <1>2 DEF Typed, TypedOf
<1>. QED  BY <1>2, <1>5, <1>6, <1>7, StepOK

\* Two DoWork one after the other.
LEMMA MovesTwice ==
    ASSUME NEW p, NEW s, NEW w, NEW t, NEW v, NEW u, NEW x, Moves(p, s, w, t, v), Moves(p, t, v, u, x)
    PROVE  Moves(p, s, w, u, x)
<1>1. /\ u \in Proc(p) /\ x \in Wire(p) /\ Apart(x)
      /\ u.stack = s.stack /\ u.made = s.made /\ u.alive = s.alive /\ u.conn = s.conn
      /\ p = App => u.to = Node /\ \A i \in 1 .. Len(x) : x[i].kind # "closed"
  BY DEF Moves
<1>2. x # <<>> => w # <<>> /\ x[Len(x)] = w[Len(w)]
  BY DEF Moves
<1>3. w = <<>> => u = s /\ x = <<>>
  BY DEF Moves
<1>4. /\ RequestedOf(Range(x) \cup Range(u.reqs)) \subseteq RequestedOf(Range(w) \cup Range(s.reqs))
      /\ AnswersOf(Range(x) \cup u.rmap) \subseteq AnswersOf(Range(w) \cup s.rmap)
  BY DEF Moves
<1>. QED  BY <1>1, <1>2, <1>3, <1>4, Zenon DEF Moves

\* Marking the call on top as one that is polled for, or not.
Pumped(s, b) == [s EXCEPT !.stack[Len(s.stack)].pumping = b]

\* AsyncResult polls for the call on top, which stays what it is.
LEMMA PumpingSet ==
    ASSUME NEW p \in Process, NEW s \in Proc(p), s.stack # <<>>, s.stack[Len(s.stack)].at = "wait", NEW b \in BOOLEAN
    PROVE  LET t == Pumped(s, b)
           IN  /\ t \in Proc(p) /\ t.reqs = s.reqs /\ t.rmap = s.rmap /\ t.made = s.made /\ t.conn = s.conn
               /\ t.to = s.to /\ Len(t.stack) = Len(s.stack)
               /\ OpenOf(t) \subseteq OpenOf(s) /\ ServedOf(t) \subseteq ServedOf(s)
               /\ \A given : KnownOf(s.stack, given) => KnownOf(t.stack, given)
<1>. DEFINE S == Waiting(p) \cup Serving(p)
            k == Len(s.stack)
            e == [s.stack[k] EXCEPT !.pumping = b]
            stack == [s.stack EXCEPT ![k] = e]
            t == [s EXCEPT !.stack = stack]
<1>1. s.stack \in Seq(S)
  BY DEF Proc
<1>2. k \in 1 .. Len(s.stack) /\ s.stack[k] \in S /\ s.stack[k] \in Range(s.stack)
  <2>. HIDE DEF S
  <2>1. s.stack[Len(s.stack)] \in S /\ s.stack[Len(s.stack)] \in Range(s.stack)
    BY <1>1, LastTaken
  <2>2. Len(s.stack) \in Nat \ {0}
    BY <1>1, EmptySeq
  <2>. QED  BY <2>1, <2>2
<1>3. s.stack[k] \in Waiting(p)
  BY <1>2 DEF Serving
<1>4. e \in S /\ e.at = "wait" /\ e.nonce = s.stack[k].nonce /\ e.method = s.stack[k].method
  BY <1>3 DEF Waiting
<1>5. k \in 1 .. Len(s.stack) /\ s.stack[k].at = "wait"
  BY <1>2
<1>. HIDE DEF S, e, k
<1>6. /\ stack \in Seq(S) /\ Len(stack) = Len(s.stack) /\ Range(stack) \subseteq Range(s.stack) \cup {e}
      /\ \A j \in 1 .. Len(s.stack) : stack[j] = IF j = k THEN e ELSE s.stack[j]
  BY <1>1, <1>2, <1>4, OneChanged
<1>. HIDE DEF stack
<1>7. /\ t \in Proc(p) /\ t.stack = stack /\ t.reqs = s.reqs /\ t.rmap = s.rmap /\ t.made = s.made
      /\ t.conn = s.conn /\ t.to = s.to
  BY <1>6 DEF Proc, S
<1>8. Pumped(s, b) = t
  BY DEF t, stack, e, k, Pumped
<1>. HIDE DEF t
<1>9. OpenOf(t) \subseteq OpenOf(s)
  BY <1>2, <1>4, <1>5, <1>6, <1>7 DEF OpenOf
<1>10. ServedOf(t) \subseteq ServedOf(s)
  BY <1>4, <1>6, <1>7 DEF ServedOf
<1>11. ASSUME NEW given, KnownOf(s.stack, given)  PROVE KnownOf(t.stack, given)
  BY <1>4, <1>6, <1>7, <1>11 DEF KnownOf
<1>. QED  BY <1>6, <1>7, <1>8, <1>9, <1>10, <1>11

\* Reading leaves the connection of the application as it is.
LEMMA ReadsConnected ==
    ASSUME CallsAssumption, IInv, NEW p \in Process, NEW q \in Process, q = Other(p),
           NEW s, s \in Proc(p), NEW t, NEW w, w \in Wire(p), Becomes(p, s, w, wire[q]), Moves(p, proc[p], wire[p], t, w),
           s.to = t.to \/ s.to = proc[p].to, s.conn = proc[p].conn, p = App => proc[App].conn
    PROVE  Connected'
<1>1. q # p /\ Other(q) = p /\ {p, q} = {App, Node} /\ App # Node
  BY TwoProcesses DEF Process, CallsAssumption
<1>2. proc'[p] = s /\ proc'[q] = proc[q] /\ wire'[p] = w /\ wire'[q] = wire[q]
  BY <1>1 DEF IInv, TypeOK, Procs, Becomes
<1>3. Connected
  BY DEF IInv
<1>4. CASE p = App
  <2>1. q = Node /\ s.to = Node /\ \A i \in 1 .. Len(w) : w[i].kind # "closed"
    BY <1>1, <1>3, <1>4 DEF Moves, Connected
  <2>. QED  BY <1>2, <1>3, <1>4, <2>1 DEF Connected
<1>5. CASE p # App
  <2>1. p = Node /\ q = App
    BY <1>1, <1>5
  <2>2. Apart(w) /\ (w # <<>> => wire[Node] # <<>> /\ w[Len(w)] = wire[Node][Len(wire[Node])])
    BY <2>1 DEF Moves
  <2>3. w # <<>> /\ w[Len(w)].kind = "closed" => ~proc[App].conn
    BY <1>3, <2>2 DEF Connected
  <2>. QED  BY <1>2, <1>3, <2>1, <2>2, <2>3 DEF Connected
<1>. QED  BY <1>4, <1>5

\* ProcessRPCs: taking a message and serving a call, or marking the one that is waited for.
LEMMA PollOK ==
    ASSUME CallsAssumption, IInv, NEW p \in Process, Poll(p)
    PROVE  IInv'
<1>. DEFINE q == Other(p)
            first == DoWork(proc[p], wire[p])
            again == DoWork(first.s, first.left)
            f == first.s
            g == again.s
            m == Head(Requests(p, f))
            last == Len(proc[p].stack)
<1>1. q \in Process /\ q # p /\ Other(q) = p /\ {p, q} = {App, Node} /\ App # Node
  BY TwoProcesses DEF Process, CallsAssumption
<1>2. /\ Procs /\ Connected /\ proc[p] \in Proc(p) /\ wire[p] \in Wire(p)
      /\ proc[p].stack \in Seq(Waiting(p) \cup Serving(p)) /\ last \in Nat
  <2>1. Procs /\ Connected /\ proc[p] \in Proc(p) /\ wire[p] \in Wire(p)
    BY DEF IInv, TypeOK, Procs
  <2>2. proc[p].stack \in Seq(Waiting(p) \cup Serving(p))
    BY <2>1 DEF Proc
  <2>. QED  BY <2>1, <2>2
<1>3. p = App => proc[App].conn
  <2>1. wire[p] # <<>> \/ proc[p].reqs # <<>> \/ last > 0
    BY Zenon DEF Poll
  <2>2. proc[p].stack = <<>> => last = 0
    BY <1>2, EmptySeq
  <2>. HIDE DEF last
  <2>3. p = App /\ ~proc[App].conn => wire[p] = <<>> /\ proc[p].stack = <<>> /\ proc[p].reqs = <<>>
    BY <1>2 DEF Connected
  <2>. QED  BY <1>2, <2>1, <2>2, <2>3
<1>4. Apart(wire[p]) /\ (p = App => proc[p].to = Node /\ \A i \in 1 .. Len(wire[p]) : wire[p][i].kind # "closed")
  <2>1. CASE p = App
    <3>1. \A i \in 1 .. Len(wire[p]) : wire[p][i].kind # "closed"
      BY <1>2, <2>1 DEF Connected
    <3>2. Apart(wire[p])
      <4>1. Len(wire[p]) \in Nat
        BY <1>2 DEF Wire
      <4>. QED  BY <3>1, <4>1 DEF Apart
    <3>. QED  BY <1>2, <2>1, <3>1, <3>2 DEF Connected
  <2>2. CASE p # App
    BY <1>1, <1>2, <2>2 DEF Connected
  <2>. QED  BY <2>1, <2>2
<1>5. Moves(p, proc[p], wire[p], f, first.left)
  BY <1>2, <1>4, DoWorkOK
<1>6. Moves(p, f, first.left, g, again.left)
  <2>1. /\ f \in Proc(p) /\ first.left \in Wire(p) /\ Apart(first.left)
        /\ p = App => f.to = Node /\ \A i \in 1 .. Len(first.left) : first.left[i].kind # "closed"
    BY <1>5 DEF Moves
  <2>. HIDE DEF first
  <2>. QED  BY <2>1, DoWorkOK
<1>7. Moves(p, proc[p], wire[p], g, again.left)
  BY <1>5, <1>6, MovesTwice
<1>8. last # 0 => proc[p].stack # <<>> /\ proc[p].stack[last].at = "wait"
  <2>1. last # 0 => proc[p].stack # <<>>
    BY <1>2, EmptySeq
  <2>2. proc[p].stack = <<>> \/ Waits(p)
    BY DEF Poll
  <2>. QED  BY <2>1, <2>2 DEF Waits, Top
<1>9. UNCHANGED <<conf, samplers, log>>
  BY DEF Poll
<1>10. Confs' /\ Sampled' /\ OwnResult'
  BY <1>9 DEF IInv, TypeOK, Confs, Sampled, OwnResult
<1>11. Known /\ Len(samplers.given) \in Nat
  BY DEF IInv, TypeOK, Sampled
<1>12. ASSUME NEW s, s \in Proc(p), NEW t, NEW w, w \in Wire(p), Becomes(p, s, w, wire[q]), Moves(p, proc[p], wire[p], t, w),
              s.to = t.to \/ s.to = proc[p].to, s.conn = proc[p].conn,
              s.made = proc[p].made, OpenOf(s) \subseteq OpenOf(proc[p]),
              RequestedOf(Range(w) \cup Range(s.reqs)) \cup ServedOf(s)
                  \subseteq RequestedOf(Range(wire[p]) \cup Range(proc[p].reqs)) \cup ServedOf(proc[p]),
              AnswersOf(Range(w) \cup s.rmap) \subseteq AnswersOf(Range(wire[p]) \cup proc[p].rmap),
              p = App => KnownOf(s.stack, samplers.given)
       PROVE  IInv'
  <2>1. Procs' /\ Matched' /\ Typed'
    <3>. HIDE DEF q
    <3>. QED  BY <1>1, <1>12, ReadsOK DEF q
  <2>2. Connected'
    <3>. HIDE DEF q
    <3>. QED  BY <1>1, <1>3, <1>12, ReadsConnected DEF q
  <2>3. proc'[p] = s /\ proc'[q] = proc[q]
    BY <1>1, <1>2, <1>12 DEF Becomes, Procs
  <2>4. Known'
    BY <1>1, <1>9, <1>11, <1>12, <2>3 DEF Known
  <2>. QED  BY <1>10, <2>1, <2>2, <2>4 DEF IInv, TypeOK
<1>13. ASSUME NEW w, wire' = [wire EXCEPT ![p] = w], NEW s, proc' = [proc EXCEPT ![p] = s]
       PROVE  Becomes(p, s, w, wire[q])
  BY <1>1, <1>2, <1>13 DEF Becomes, Procs, Process
<1>14. CASE Requests(p, f) # <<>>
  <2>1. wire' = [wire EXCEPT ![p] = first.left]
    BY <1>14 DEF Poll
  <2>2. /\ f \in Proc(p) /\ f.reqs # <<>> /\ f.reqs \in Seq(RPCs(q)) /\ m = Head(f.reqs)
        /\ f.stack = proc[p].stack /\ f.made = proc[p].made /\ f.conn = proc[p].conn
    BY <1>5, <1>14 DEF Requests, Proc, Moves
  <2>3. /\ m \in RPCs(q) /\ m \in Range(f.reqs) /\ Tail(f.reqs) \in Seq(RPCs(q))
        /\ Range(Tail(f.reqs)) \subseteq Range(f.reqs)
    BY <2>2, FirstTaken
  <2>4. CASE p = App /\ m.call \in SamplerCallbacks /\ m.id >= Len(samplers.given)
    <3>. DEFINE dead == FALSE
                s == [proc[p] EXCEPT !.alive = dead]
    <3>1. proc' = [proc EXCEPT ![p] = s]
      BY <1>14, <2>4, Zenon DEF Poll
    <3>2. dead \in BOOLEAN
      OBVIOUS
    <3>. HIDE DEF dead
    <3>3. /\ s \in Proc(p) /\ s.stack = proc[p].stack /\ s.reqs = proc[p].reqs /\ s.rmap = proc[p].rmap
          /\ s.made = proc[p].made /\ s.to = proc[p].to /\ s.conn = proc[p].conn
      BY <1>2, <3>2 DEF Proc
    <3>. HIDE DEF s
    <3>. DEFINE w == first.left
    <3>4. Becomes(p, s, w, wire[q])
      BY <1>13, <2>1, <3>1
    <3>5. Moves(p, proc[p], wire[p], f, w) /\ w \in Wire(p)
      BY <1>5 DEF Moves
    <3>. HIDE DEF w, f
    <3>6. OpenOf(s) = OpenOf(proc[p]) /\ ServedOf(s) = ServedOf(proc[p])
      BY <3>3 DEF OpenOf, ServedOf
    <3>7. /\ RequestedOf(Range(w) \cup Range(s.reqs)) \subseteq RequestedOf(Range(wire[p]) \cup Range(proc[p].reqs))
          /\ AnswersOf(Range(w) \cup s.rmap) \subseteq AnswersOf(Range(wire[p]) \cup proc[p].rmap)
      <4>1. RequestedOf(Range(w) \cup Range(f.reqs)) \subseteq RequestedOf(Range(wire[p]) \cup Range(proc[p].reqs))
        BY <3>5 DEF Moves
      <4>2. RequestedOf(Range(w) \cup Range(s.reqs)) \subseteq RequestedOf(Range(wire[p]) \cup Range(proc[p].reqs))
        BY <3>3, <4>1 DEF RequestedOf
      <4>3. AnswersOf(Range(w) \cup f.rmap) \subseteq AnswersOf(Range(wire[p]) \cup proc[p].rmap)
        BY <3>5 DEF Moves
      <4>4. AnswersOf(Range(w) \cup s.rmap) \subseteq AnswersOf(Range(wire[p]) \cup proc[p].rmap)
        BY <3>3, <4>3 DEF AnswersOf
      <4>. QED  BY <4>2, <4>4
    <3>8. p = App => KnownOf(s.stack, samplers.given)
      BY <1>11, <3>3 DEF Known
    <3>9. RequestedOf(Range(w) \cup Range(s.reqs)) \cup ServedOf(s)
              \subseteq RequestedOf(Range(wire[p]) \cup Range(proc[p].reqs)) \cup ServedOf(proc[p])
      BY <3>6, <3>7
    <3>10. OpenOf(s) \subseteq OpenOf(proc[p])
      BY <3>6
    <3>. HIDE DEF q
    <3>. QED  BY <1>12, <3>3, <3>4, <3>5, <3>7, <3>8, <3>9, <3>10
  <2>5. CASE ~(p = App /\ m.call \in SamplerCallbacks /\ m.id >= Len(samplers.given))
    <3>. DEFINE s0 == IF last = 0 THEN f ELSE [f EXCEPT !.stack[last].pumping = TRUE]
    <3>1. PICK plan \in Plans(p, m) :
             proc' = [proc EXCEPT ![p] = [s0 EXCEPT !.reqs = Tail(@),
                         !.stack = Append(@, [at |-> "serve", rpc |-> m, plan |-> plan])]]
      BY <1>14, <2>5, Zenon DEF Poll
    <3>. DEFINE e == [at |-> "serve", rpc |-> m, plan |-> plan]
                reqs == Tail(f.reqs)
                stack == Append(s0.stack, e)
                s == [s0 EXCEPT !.reqs = reqs, !.stack = stack]
                S == Waiting(p) \cup Serving(p)
    <3>2. /\ s0 \in Proc(p) /\ s0.reqs = f.reqs /\ s0.rmap = f.rmap /\ s0.made = f.made /\ s0.conn = f.conn
          /\ s0.to = f.to
          /\ OpenOf(s0) \subseteq OpenOf(f) /\ ServedOf(s0) \subseteq ServedOf(f)
          /\ KnownOf(f.stack, samplers.given) => KnownOf(s0.stack, samplers.given)
      <4>1. CASE last = 0
        BY <2>2, <4>1
      <4>2. CASE last # 0
        <5>. DEFINE b == TRUE
        <5>1. f.stack # <<>> /\ f.stack[Len(f.stack)].at = "wait" /\ last = Len(f.stack) /\ b \in BOOLEAN
          BY <1>8, <2>2, <4>2
        <5>2. s0 = Pumped(f, b)
          BY <4>2, <5>1, Zenon DEF Pumped
        <5>. HIDE DEF s0, f, b
        <5>. QED  BY <2>2, <5>1, <5>2, PumpingSet
      <4>. QED  BY <4>1, <4>2
    <3>3. proc' = [proc EXCEPT ![p] = s]
      <4>. HIDE DEF s0, f
      <4>1. reqs = Tail(s0.reqs)
        BY <3>2
      <4>. HIDE DEF reqs
      <4>. QED  BY <3>1, <4>1, Zenon
    <3>. HIDE DEF s0
    <3>4. plan \in Seq(Planned(p))
      <4>1. CASE p = Node
        <5>1. m.id \in Nat
          BY <2>3 DEF RPCs
        <5>2. plan = <<>> \/ plan = Asked(m.id)
          BY <3>1, <4>1 DEF Plans
        <5>3. \A name \in {"SamplerGetName", "SamplerGetRandomWalkInterval"} : [method |-> name, id |-> m.id] \in Planned(p)
          BY <1>1, <4>1, <5>1 DEF Planned, Calls, SamplerCallbacks
        <5>. HIDE DEF m
        <5>4. Asked(m.id) \in Seq(Planned(p))
          BY <5>3 DEF Asked
        <5>5. <<>> \in Seq(Planned(p))
          OBVIOUS
        <5>. HIDE DEF m
        <5>. QED  BY <5>2, <5>4, <5>5, Zenon
      <4>2. CASE p # Node
        <5>1. p = App /\ conf.nested \subseteq NodeMethods
          BY <1>1, <4>2 DEF IInv, TypeOK, Confs
        <5>2. plan = <<>> \/ \E c \in conf.nested : plan = <<[method |-> c, id |-> 0]>>
          BY <3>1, <4>2 DEF Plans
        <5>3. \A c \in conf.nested : [method |-> c, id |-> 0] \in Planned(p)
          BY <5>1 DEF Planned, Calls
        <5>4. <<>> \in Seq(Planned(p)) /\ \A d \in Planned(p) : <<d>> \in Seq(Planned(p))
          OBVIOUS
        <5>. QED  BY <5>2, <5>3, <5>4, Zenon
      <4>. QED  BY <4>1, <4>2
    <3>5. e \in S /\ e.at = "serve" /\ e.rpc = m
      BY <2>3, <3>4 DEF Serving
    <3>6. s0.stack \in Seq(S)
      BY <3>2 DEF Proc
    <3>. HIDE DEF e, S
    <3>7. /\ stack \in Seq(S) /\ Len(stack) = Len(s0.stack) + 1 /\ Range(stack) = Range(s0.stack) \cup {e}
          /\ \A i \in 1 .. Len(s0.stack) : stack[i] = s0.stack[i]
          /\ stack[Len(s0.stack) + 1] = e
      BY <3>5, <3>6, Appended
    <3>8. reqs \in Seq(RPCs(q)) /\ Range(reqs) \subseteq Range(f.reqs)
      BY <2>3
    <3>. HIDE DEF stack, reqs
    <3>9. /\ s \in Proc(p) /\ s.stack = stack /\ s.reqs = reqs /\ s.rmap = f.rmap /\ s.made = proc[p].made
          /\ s.to = f.to /\ s.conn = proc[p].conn
      BY <2>2, <3>2, <3>7, <3>8 DEF Proc, S
    <3>. HIDE DEF s
    <3>. DEFINE w == first.left
    <3>10. Becomes(p, s, w, wire[q])
      BY <1>13, <2>1, <3>3
    <3>11. Moves(p, proc[p], wire[p], f, w) /\ w \in Wire(p)
      BY <1>5 DEF Moves
    <3>12. OpenOf(f) = OpenOf(proc[p]) /\ ServedOf(f) = ServedOf(proc[p])
      BY <2>2 DEF OpenOf, ServedOf
    <3>13. m.kind = "message" /\ m.rpc = "RPC"
      BY <2>3 DEF RPCs
    <3>. HIDE DEF w, f, m
    <3>14. OpenOf(s) \subseteq OpenOf(proc[p])
      <4>1. OpenOf(s) \subseteq OpenOf(s0)
        BY <3>5, <3>7, <3>9 DEF OpenOf
      <4>. QED  BY <3>2, <3>12, <4>1
    <3>15. RequestedOf(Range(w) \cup Range(s.reqs)) \cup ServedOf(s)
               \subseteq RequestedOf(Range(wire[p]) \cup Range(proc[p].reqs)) \cup ServedOf(proc[p])
      <4>1. ServedOf(s) \subseteq ServedOf(s0) \cup {<<m.nonce, m.call>>}
        BY <3>5, <3>7, <3>9 DEF ServedOf
      <4>2. <<m.nonce, m.call>> \in RequestedOf(Range(w) \cup Range(f.reqs))
        BY <2>3, <3>13 DEF RequestedOf
      <4>3. RequestedOf(Range(w) \cup Range(s.reqs)) \subseteq RequestedOf(Range(w) \cup Range(f.reqs))
        BY <3>8, <3>9 DEF RequestedOf
      <4>4. RequestedOf(Range(w) \cup Range(f.reqs)) \subseteq RequestedOf(Range(wire[p]) \cup Range(proc[p].reqs))
        BY <3>11 DEF Moves
      <4>. QED  BY <3>2, <3>12, <4>1, <4>2, <4>3, <4>4
    <3>16. AnswersOf(Range(w) \cup s.rmap) \subseteq AnswersOf(Range(wire[p]) \cup proc[p].rmap)
      BY <3>9, <3>11 DEF Moves
    <3>17. p = App => KnownOf(s.stack, samplers.given)
      <4>. SUFFICES ASSUME p = App, NEW i \in 1 .. Len(stack), stack[i].at = "serve", stack[i].rpc.call \in SamplerCallbacks
                    PROVE  stack[i].rpc.id < Len(samplers.given)
        BY <3>9 DEF KnownOf
      <4>1. Len(s0.stack) \in Nat /\ (i \in 1 .. Len(s0.stack) \/ i = Len(s0.stack) + 1)
        BY <3>6, <3>7
      <4>2. CASE i \in 1 .. Len(s0.stack)
        <5>1. KnownOf(f.stack, samplers.given)
          BY <1>11, <2>2 DEF Known
        <5>2. KnownOf(s0.stack, samplers.given)
          BY <3>2, <5>1
        <5>. QED  BY <3>7, <4>2, <5>2 DEF KnownOf
      <4>3. CASE i = Len(s0.stack) + 1
        <5>1. stack[i].rpc = m
          BY <3>5, <3>7, <4>3
        <5>2. m.id \in Nat
          BY <2>3 DEF RPCs
        <5>. QED  BY <1>11, <2>5, <5>1, <5>2
      <4>. QED  BY <4>1, <4>2, <4>3
    <3>18. s.to = f.to \/ s.to = proc[p].to
      BY <3>9
    <3>. HIDE DEF q
    <3>. QED  BY <1>12, <3>9, <3>10, <3>11, <3>14, <3>15, <3>16, <3>17, <3>18
  <2>. QED  BY <2>4, <2>5
<1>15. CASE Requests(p, f) = <<>>
  <2>1. CASE last = 0
    <3>. DEFINE w == first.left
    <3>1. Becomes(p, f, w, wire[q])
      <4>1. proc' = [proc EXCEPT ![p] = f] /\ wire' = [wire EXCEPT ![p] = w]
        BY <1>15, <2>1 DEF Poll
      <4>. QED  BY <1>13, <4>1
    <3>2. /\ f \in Proc(p) /\ w \in Wire(p) /\ f.stack = proc[p].stack /\ f.made = proc[p].made /\ f.conn = proc[p].conn
          /\ RequestedOf(Range(w) \cup Range(f.reqs)) \subseteq RequestedOf(Range(wire[p]) \cup Range(proc[p].reqs))
          /\ AnswersOf(Range(w) \cup f.rmap) \subseteq AnswersOf(Range(wire[p]) \cup proc[p].rmap)
      BY <1>5 DEF Moves
    <3>3. Moves(p, proc[p], wire[p], f, w)
      BY <1>5
    <3>. HIDE DEF w, f, q
    <3>4. OpenOf(f) = OpenOf(proc[p]) /\ ServedOf(f) = ServedOf(proc[p])
      BY <3>2 DEF OpenOf, ServedOf
    <3>5. RequestedOf(Range(w) \cup Range(f.reqs)) \cup ServedOf(f)
              \subseteq RequestedOf(Range(wire[p]) \cup Range(proc[p].reqs)) \cup ServedOf(proc[p])
      BY <3>2, <3>4
    <3>6. p = App => KnownOf(f.stack, samplers.given)
      BY <1>11, <3>2 DEF Known
    <3>7. OpenOf(f) \subseteq OpenOf(proc[p])
      BY <3>4
    <3>. QED  BY <1>12, <3>1, <3>2, <3>3, <3>5, <3>6, <3>7
  <2>2. CASE last # 0
    <3>. DEFINE b == FALSE
                w == again.left
                s == Pumped(g, b)
    <3>1. /\ g \in Proc(p) /\ w \in Wire(p) /\ g.stack = proc[p].stack /\ g.made = proc[p].made /\ g.conn = proc[p].conn
          /\ RequestedOf(Range(w) \cup Range(g.reqs)) \subseteq RequestedOf(Range(wire[p]) \cup Range(proc[p].reqs))
          /\ AnswersOf(Range(w) \cup g.rmap) \subseteq AnswersOf(Range(wire[p]) \cup proc[p].rmap)
      BY <1>7 DEF Moves
    <3>2. proc' = [proc EXCEPT ![p] = s] /\ wire' = [wire EXCEPT ![p] = w]
      <4>1. /\ proc' = [proc EXCEPT ![p] = [again.s EXCEPT !.stack[last].pumping = FALSE]]
            /\ wire' = [wire EXCEPT ![p] = again.left]
        BY <1>15, <2>2, Zenon DEF Poll
      <4>2. last = Len(g.stack)
        BY <3>1
      <4>. QED  BY <4>1, <4>2, Zenon DEF Pumped
    <3>3. Becomes(p, s, w, wire[q])
      BY <1>13, <3>2
    <3>4. g.stack # <<>> /\ g.stack[Len(g.stack)].at = "wait" /\ b \in BOOLEAN
      BY <1>8, <2>2, <3>1
    <3>5. Moves(p, proc[p], wire[p], g, w)
      BY <1>7
    <3>. HIDE DEF g, w, b
    <3>6. /\ s \in Proc(p) /\ s.reqs = g.reqs /\ s.rmap = g.rmap /\ s.made = g.made /\ s.conn = g.conn
          /\ s.to = g.to
          /\ OpenOf(s) \subseteq OpenOf(g) /\ ServedOf(s) \subseteq ServedOf(g)
          /\ KnownOf(g.stack, samplers.given) => KnownOf(s.stack, samplers.given)
      BY <3>1, <3>4, PumpingSet
    <3>. HIDE DEF s, q
    <3>7. OpenOf(g) = OpenOf(proc[p]) /\ ServedOf(g) = ServedOf(proc[p])
      BY <3>1 DEF OpenOf, ServedOf
    <3>8. RequestedOf(Range(w) \cup Range(s.reqs)) \cup ServedOf(s)
              \subseteq RequestedOf(Range(wire[p]) \cup Range(proc[p].reqs)) \cup ServedOf(proc[p])
      BY <3>1, <3>6, <3>7
    <3>9. p = App => KnownOf(s.stack, samplers.given)
      BY <1>11, <3>1, <3>6 DEF Known
    <3>10. /\ OpenOf(s) \subseteq OpenOf(proc[p]) /\ s.made = proc[p].made /\ s.conn = proc[p].conn
           /\ AnswersOf(Range(w) \cup s.rmap) \subseteq AnswersOf(Range(wire[p]) \cup proc[p].rmap)
      BY <3>1, <3>6, <3>7
    <3>. QED  BY <1>12, <3>3, <3>5, <3>1, <3>6, <3>8, <3>9, <3>10
  <2>. QED  BY <2>1, <2>2
<1>. QED  BY <1>14, <1>15

\* What is under the top of a stack.
LEMMA UnderOK ==
    ASSUME NEW p \in Process, NEW s \in Proc(p), s.stack # <<>>
    PROVE  /\ Under(s) \in Seq(Waiting(p) \cup Serving(p)) /\ Range(Under(s)) \subseteq Range(s.stack)
           /\ \A given : KnownOf(s.stack, given) => KnownOf(Under(s), given)
           /\ Top(s) \in Waiting(p) \cup Serving(p) /\ Top(s) \in Range(s.stack)
           /\ \A given : KnownOf(s.stack, given) /\ Top(s).at = "serve" /\ Top(s).rpc.call \in SamplerCallbacks
                            => Top(s).rpc.id < Len(given)
<1>. DEFINE S == Waiting(p) \cup Serving(p)
<1>1. s.stack \in Seq(S)
  BY DEF Proc
<1>. HIDE DEF S
<1>2. /\ Under(s) \in Seq(S) /\ Len(Under(s)) = Len(s.stack) - 1 /\ Range(Under(s)) \subseteq Range(s.stack)
      /\ \A i \in 1 .. Len(Under(s)) : Under(s)[i] = s.stack[i]
      /\ Top(s) \in S /\ Top(s) \in Range(s.stack)
  BY <1>1, LastTaken DEF Under, Top
<1>3. Len(s.stack) \in Nat \ {0}
  BY <1>1, EmptySeq
<1>4. \A given : KnownOf(s.stack, given) => KnownOf(Under(s), given)
  BY <1>2, <1>3 DEF KnownOf
<1>5. \A given : KnownOf(s.stack, given) /\ Top(s).at = "serve" /\ Top(s).rpc.call \in SamplerCallbacks
                    => Top(s).rpc.id < Len(given)
  BY <1>3 DEF KnownOf, Top
<1>. QED  BY <1>2, <1>4, <1>5 DEF S

\* Dispatch: a call it takes, or its result.
LEMMA ServeOK ==
    ASSUME CallsAssumption, IInv, NEW p \in Process, Serve(p)
    PROVE  IInv'
<1>. DEFINE q == Other(p)
            r == proc[p]
            f == Top(r)
            S == Waiting(p) \cup Serving(p)
            k == Len(r.stack)
<1>1. q \in Process /\ q # p /\ Other(q) = p /\ {p, q} = {App, Node} /\ App # Node
  BY TwoProcesses DEF Process, CallsAssumption
<1>2. /\ Procs /\ Connected /\ Known /\ Matched /\ Typed /\ Sampled
      /\ r \in Proc(p) /\ proc[q] \in Proc(q) /\ wire[p] \in Wire(p) /\ wire[q] \in Wire(q)
      /\ r.stack \in Seq(S) /\ r.stack # <<>> /\ r.made \in Nat
  BY <1>1 DEF IInv, TypeOK, Procs, Proc, Serve
<1>3. f \in Serving(p) /\ f \in Range(r.stack) /\ f.at = "serve"
  <2>1. f \in Waiting(p) \cup Serving(p) /\ f \in Range(r.stack)
    <3>. HIDE DEF r
    <3>. QED  BY <1>2, UnderOK
  <2>2. f.at = "serve"
    BY Zenon DEF Serve
  <2>. QED  BY <2>1, <2>2 DEF Waiting
<1>4. f.rpc \in RPCs(q) /\ f.plan \in Seq(Planned(p))
  BY <1>3 DEF Serving
<1>5. conf' = conf /\ log' = log
  BY DEF Serve
<1>6. Confs' /\ OwnResult'
  BY <1>5 DEF IInv, TypeOK, Confs, OwnResult
<1>7. k \in 1 .. Len(r.stack) /\ f = r.stack[k]
  BY <1>2, EmptySeq DEF Top
<1>8. CASE f.plan # <<>>
  <2>. DEFINE plan == Tail(f.plan)
              e == [f EXCEPT !.plan = plan]
              stack == [r.stack EXCEPT ![k] = e]
              s == [r EXCEPT !.stack = stack]
              x == Head(f.plan).method
              id == Head(f.plan).id
  <2>1. Call(p, s, x, id) /\ samplers' = samplers
    <3>1. /\ Call(p, [r EXCEPT !.stack[Len(r.stack)].plan = Tail(@)], Head(f.plan).method, Head(f.plan).id)
          /\ UNCHANGED samplers
      BY <1>8, Zenon DEF Serve
    <3>2. [r EXCEPT !.stack[Len(r.stack)].plan = Tail(@)] = s
      BY Zenon DEF Top
    <3>. QED  BY <3>1, <3>2
  <2>2. plan \in Seq(Planned(p)) /\ Head(f.plan) \in Planned(p)
    BY <1>4, <1>8, FirstTaken
  <2>3. x \in Calls(p) /\ id \in Nat
    BY <2>2 DEF Planned
  <2>. HIDE DEF plan, x, id
  <2>4. e \in S /\ e.at = "serve" /\ e.rpc = f.rpc
    BY <1>3, <2>2 DEF Serving
  <2>. HIDE DEF e, S, k, r, f
  <2>5. /\ stack \in Seq(S) /\ Len(stack) = Len(r.stack) /\ Range(stack) \subseteq Range(r.stack) \cup {e}
        /\ \A j \in 1 .. Len(r.stack) : stack[j] = IF j = k THEN e ELSE r.stack[j]
    BY <1>2, <1>7, <2>4, OneChanged
  <2>. HIDE DEF stack
  <2>6. /\ s \in Proc(p) /\ s.stack = stack /\ s.to = r.to /\ s.reqs = r.reqs /\ s.rmap = r.rmap
        /\ s.made = r.made /\ s.conn = r.conn
    BY <1>2, <2>5 DEF Proc, S
  <2>. HIDE DEF s
  <2>7. OpenOf(s) \subseteq OpenOf(r)
    BY <2>4, <2>5, <2>6 DEF OpenOf
  <2>8. ServedOf(s) \subseteq ServedOf(r)
    BY <1>3, <2>4, <2>5, <2>6 DEF ServedOf
  <2>9. KnownOf(IF p = App THEN s.stack ELSE proc[App].stack, samplers'.given)
    <3>1. CASE p = App
      <4>1. KnownOf(r.stack, samplers.given)
        BY <1>2, <3>1 DEF Known, r
      <4>2. KnownOf(stack, samplers.given)
        BY <1>3, <1>7, <2>4, <2>5, <4>1 DEF KnownOf
      <4>. QED  BY <2>1, <2>6, <3>1, <4>2
    <3>2. CASE p # App
      BY <1>2, <2>1, <3>2 DEF Known
    <3>. QED  BY <3>1, <3>2
  <2>10. Procs' /\ Connected' /\ Known' /\ Matched' /\ Typed'
    BY <1>2, <2>1, <2>3, <2>6, <2>7, <2>8, <2>9, CallOK DEF r
  <2>11. Sampled'
    BY <1>2, <2>1 DEF Sampled
  <2>. QED  BY <1>6, <2>10, <2>11 DEF IInv, TypeOK
<1>9. CASE f.plan = <<>>
  <2>. DEFINE stack == Under(r)
              s == [r EXCEPT !.stack = stack]
              val == IF f.rpc.call = "SamplerGetName" THEN samplers.given[f.rpc.id + 1] ELSE None
              m == Message(p, "RES", f.rpc.nonce, f.rpc.call, val, ResultType(p, f.rpc.call))
  <2>1. /\ proc' = [proc EXCEPT ![p] = s]
        /\ wire' = IF r.to = None THEN wire ELSE SentOn(wire, p, m)
        /\ samplers' = IF f.rpc.call \in Registering
                       THEN [samplers EXCEPT !.registered = @ \cup {samplers.names[f.rpc.id]}] ELSE samplers
    BY <1>9, Zenon DEF Serve
  <2>2. Sampled' /\ samplers'.given = samplers.given
    BY <1>2, <2>1 DEF Sampled
  <2>3. /\ stack \in Seq(S) /\ Range(stack) \subseteq Range(r.stack)
        /\ KnownOf(r.stack, samplers.given) => KnownOf(stack, samplers.given)
        /\ KnownOf(r.stack, samplers.given) /\ f.rpc.call \in SamplerCallbacks => f.rpc.id < Len(samplers.given)
    <3>. HIDE DEF r
    <3>. QED  BY <1>2, <1>3, UnderOK
  <2>4. val \in Samplers \cup {None}
    <3>1. CASE f.rpc.call = "SamplerGetName"
      <4>1. f.rpc.call \in SamplerCallbacks
        BY <3>1 DEF SamplerCallbacks
      <4>2. p = App
        <5>. SUFFICES ASSUME q = App  PROVE FALSE
          BY <1>1
        <5>1. PICK c \in NodeMethods : "SamplerGetName" = Sent(c)
          BY <1>4, <3>1 DEF RPCs, Calls
        <5>. QED  BY <5>1 DEF NodeMethods, Sent
      <4>3. f.rpc.id < Len(samplers.given) /\ f.rpc.id \in Nat
        BY <1>2, <1>4, <2>3, <4>1, <4>2 DEF Known, RPCs
      <4>4. samplers.given \in Seq(Samplers)
        BY <1>2 DEF Sampled
      <4>5. f.rpc.id + 1 \in 1 .. Len(samplers.given)
        BY <4>3, <4>4
      <4>. HIDE DEF f
      <4>. QED  BY <3>1, <4>4, <4>5
    <3>2. CASE f.rpc.call # "SamplerGetName"
      BY <3>2
    <3>. QED  BY <3>1, <3>2
  <2>5. /\ f.rpc.nonce \in {q} \X Nat /\ f.rpc.call \in {Sent(c) : c \in Calls(q)}
        /\ ResultType(p, f.rpc.call) \in {ResultType(p, Sent(c)) : c \in Calls(q)}
    BY <1>4 DEF RPCs
  <2>. HIDE DEF val
  <2>6. m \in RESs(p) /\ m.kind = "message" /\ m.rpc = "RES" /\ m.nonce = f.rpc.nonce /\ m.call = f.rpc.call
        /\ m.type = ResultType(p, f.rpc.call)
    BY <2>4, <2>5 DEF RESs, Message
  <2>. HIDE DEF m, stack
  <2>7. /\ s \in Proc(p) /\ s.stack = stack /\ s.to = r.to /\ s.reqs = r.reqs /\ s.rmap = r.rmap
        /\ s.made = r.made /\ s.conn = r.conn
    BY <1>2, <2>3 DEF Proc, S
  <2>. HIDE DEF s
  <2>8. OpenOf(s) \subseteq OpenOf(r) /\ ServedOf(s) \subseteq ServedOf(r)
    BY <2>3, <2>7 DEF OpenOf, ServedOf
  <2>9. <<f.rpc.nonce, f.rpc.call>> \in ServedOf(r)
    BY <1>3 DEF ServedOf
  <2>10. p = App => proc[App].conn /\ proc[App].to = Node
    BY <1>2 DEF Connected
  <2>11. (p = App => proc'[App] = s) /\ (p = Node => proc'[App] = proc[App])
    BY <1>1, <1>2, <2>1 DEF Procs
  <2>12. Known'
    <3>1. CASE p = App
      BY <1>2, <2>2, <2>3, <2>7, <2>11, <3>1 DEF Known
    <3>2. CASE p # App
      BY <1>1, <1>2, <2>2, <2>11, <3>2 DEF Known
    <3>. QED  BY <3>1, <3>2
  <2>13. PICK v, n : /\ Becomes(p, s, wire[p], v) /\ Connected' /\ v \in Wire(q)
                     /\ Range(v) \subseteq Range(wire[q]) \cup {n}
                     /\ n.kind = "message" /\ n.rpc = "RES" /\ n.nonce = f.rpc.nonce /\ n.call = f.rpc.call
                     /\ n.type = ResultType(p, f.rpc.call)
    <3>1. CASE r.to = None
      <4>1. wire' = wire
        BY <2>1, <3>1
      <4>2. p = Node /\ q = App
        BY <1>1, <2>10, <3>1 DEF CallsAssumption, Process
      <4>3. Becomes(p, s, wire[p], wire[q])
        BY <1>1, <1>2, <2>1, <4>1 DEF Becomes, Procs, Process
      <4>4. Connected'
        BY <1>2, <2>11, <4>1, <4>2 DEF Connected
      <4>5. Range(wire[q]) \subseteq Range(wire[q]) \cup {m}
        OBVIOUS
      <4>. HIDE DEF q, f, r
      <4>. QED  BY <1>2, <2>6, <4>3, <4>4, <4>5
    <3>2. CASE r.to # None
      <4>1. wire' = SentOn(wire, p, m)
        BY <2>1, <3>2
      <4>2. PICK n, v : Arrives(p, m, n, v) /\ SentOn(wire, p, m) = [j \in Process |-> IF j = p THEN wire[p] ELSE v]
        <5>1. m \in RPCs(p) \cup RESs(p)
          BY <2>6
        <5>. QED  BY <1>2, <5>1, SentArrives
      <4>3. Becomes(p, s, wire[p], v)
        BY <2>1, <4>1, <4>2 DEF Becomes
      <4>4. Connected'
        <5>1. p = App => proc'[App].conn /\ proc'[App].to = Node
          BY <2>7, <2>10, <2>11
        <5>2. wire' = [j \in Process |-> IF j = p THEN wire[p] ELSE v]
          BY <4>1, <4>2
        <5>3. m \in RPCs(p) \cup RESs(p)
          BY <2>6
        <5>. QED  BY <1>2, <2>11, <4>2, <5>1, <5>2, <5>3, SendConnected
      <4>5. /\ n.kind = "message" /\ n.rpc = "RES" /\ n.nonce = f.rpc.nonce /\ n.call = f.rpc.call
            /\ n.type = ResultType(p, f.rpc.call) /\ v \in Wire(q) /\ Range(v) \subseteq Range(wire[q]) \cup {n}
        BY <2>6, <4>2 DEF Arrives
      <4>. HIDE DEF q, f, r
      <4>. QED  BY <4>3, <4>4, <4>5
    <3>. QED  BY <3>1, <3>2
  <2>14. AnsweredOf(Range(v) \cup proc[q].rmap)
             \subseteq AnsweredOf(Range(wire[q]) \cup proc[q].rmap) \cup {<<f.rpc.nonce, f.rpc.call>>}
    BY <2>13 DEF AnsweredOf, AnswersOf
  <2>15. RequestedOf(Range(v) \cup Range(proc[q].reqs)) \subseteq RequestedOf(Range(wire[q]) \cup Range(proc[q].reqs))
    BY <2>13 DEF RequestedOf
  <2>16. CarriedOf(proc[q], s, v, wire[p]) \subseteq CarriedOf(proc[q], r, wire[q], wire[p])
    BY <2>7, <2>8, <2>9, <2>14 DEF CarriedOf
  <2>17. CarriedOf(s, proc[q], wire[p], v) \subseteq CarriedOf(r, proc[q], wire[p], wire[q])
    BY <2>7, <2>15 DEF CarriedOf
  <2>18. Match(p, OpenOf(s), CarriedOf(s, proc[q], wire[p], v), s.made)
    <3>1. Match(p, OpenOf(r), CarriedOf(r, proc[q], wire[p], wire[q]), r.made)
      BY <1>2 DEF Matched
    <3>. HIDE DEF q, r
    <3>. QED  BY <1>2, <2>7, <2>8, <2>17, <3>1, MatchKept
  <2>19. TypedOf(p, Range(wire[p]) \cup s.rmap)
    BY <1>2, <2>7 DEF Typed
  <2>20. TypedOf(q, Range(v) \cup proc[q].rmap)
    <3>1. TypedOf(q, Range(wire[q]) \cup proc[q].rmap)
      BY <1>1, <1>2 DEF Typed
    <3>. HIDE DEF q, f
    <3>. QED  BY <1>1, <2>13, <3>1 DEF TypedOf, AnswersOf
  <2>21. Procs' /\ Matched' /\ Typed'
    <3>. HIDE DEF q, f
    <3>. QED  BY <1>1, <1>2, <2>7, <2>13, <2>16, <2>18, <2>19, <2>20, StepOK DEF q
  <2>. QED  BY <1>6, <2>2, <2>12, <2>13, <2>21 DEF IInv, TypeOK
<1>. QED  BY <1>8, <1>9

\* The result of the call on top is returned, and is that call's.
LEMMA ReturnOK ==
    ASSUME CallsAssumption, IInv, NEW p \in Process, Return(p)
    PROVE  IInv'
<1>. DEFINE q == Other(p)
            f == Top(proc[p])
<1>1. q \in Process /\ q # p /\ Other(q) = p /\ {p, q} = {App, Node} /\ App # Node
  BY TwoProcesses DEF Process, CallsAssumption
<1>2. /\ Procs /\ Connected /\ Known /\ Matched /\ Typed /\ Sampled /\ Confs
      /\ proc[p] \in Proc(p) /\ wire[p] \in Wire(p)
      /\ proc[p].stack # <<>> /\ f.at = "wait"
  BY DEF IInv, TypeOK, Procs, Return, Answered, Waits
<1>3. f \in Waiting(p) \cup Serving(p) /\ f \in Range(proc[p].stack)
      /\ Under(proc[p]) \in Seq(Waiting(p) \cup Serving(p)) /\ Range(Under(proc[p])) \subseteq Range(proc[p].stack)
      /\ (KnownOf(proc[p].stack, samplers.given) => KnownOf(Under(proc[p]), samplers.given))
  BY <1>2, UnderOK
<1>4. f \in Waiting(p)
  BY <1>2, <1>3 DEF Serving
<1>5. f.method \in Calls(p)
  BY <1>4 DEF Waiting
<1>6. PICK r \in TheirsNow(p) :
         /\ proc' = [proc EXCEPT ![p] = [proc[p] EXCEPT !.stack = Under(proc[p]), !.rmap = @ \ {r},
                                                       !.alive = r.type \in Takes(p, f.method)]]
         /\ log' = [by |-> p, method |-> f.method, nonce |-> f.nonce, res |-> r]
         /\ samplers' = IF f.method = "SamplerGetName" THEN [samplers EXCEPT !.names[f.id] = r.id] ELSE samplers
  BY Zenon DEF Return
<1>7. r \in proc[p].rmap /\ r.nonce = f.nonce
  BY <1>6 DEF TheirsNow
<1>8. UNCHANGED <<conf, wire>>
  BY DEF Return
<1>. DEFINE alive == r.type \in Takes(p, f.method)
            stack == Under(proc[p])
            rmap == proc[p].rmap \ {r}
            s == [proc[p] EXCEPT !.stack = stack, !.rmap = rmap, !.alive = alive]
<1>9. proc' = [proc EXCEPT ![p] = s]
  BY <1>6, Zenon
<1>10. alive \in BOOLEAN
  OBVIOUS
<1>. HIDE DEF alive
<1>11. /\ s \in Proc(p) /\ s.stack = stack /\ s.rmap = rmap /\ s.reqs = proc[p].reqs /\ s.made = proc[p].made
       /\ s.to = proc[p].to /\ s.conn = proc[p].conn
  <2>1. stack \in Seq(Waiting(p) \cup Serving(p)) /\ rmap \in SUBSET RESs(Other(p))
    BY <1>2, <1>3 DEF Proc
  <2>. HIDE DEF stack, rmap
  <2>. QED  BY <1>2, <1>10, <2>1 DEF Proc
<1>12. Becomes(p, s, wire[p], wire[q])
  BY <1>1, <1>2, <1>8, <1>9 DEF Becomes, Procs, Process
<1>. HIDE DEF s
<1>13. OpenOf(s) \subseteq OpenOf(proc[p]) /\ ServedOf(s) \subseteq ServedOf(proc[p])
  BY <1>3, <1>11 DEF OpenOf, ServedOf
<1>14. RequestedOf(Range(wire[p]) \cup Range(s.reqs)) \cup ServedOf(s)
           \subseteq RequestedOf(Range(wire[p]) \cup Range(proc[p].reqs)) \cup ServedOf(proc[p])
  BY <1>11, <1>13
<1>15. AnswersOf(Range(wire[p]) \cup s.rmap) \subseteq AnswersOf(Range(wire[p]) \cup proc[p].rmap)
  BY <1>11 DEF AnswersOf
<1>16. Procs' /\ Matched' /\ Typed'
  <2>. HIDE DEF q
  <2>. QED  BY <1>1, <1>2, <1>11, <1>12, <1>13, <1>14, <1>15, ReadsOK DEF q
<1>17. (p = App => proc'[App] = s) /\ (p = Node => proc'[App] = proc[App]) /\ wire' = wire
  BY <1>1, <1>2, <1>8, <1>9 DEF Procs
<1>18. Connected'
  <2>1. CASE p = App
    <3>1. proc[App].conn
      BY <1>2, <2>1 DEF Connected
    <3>. QED  BY <1>2, <1>11, <1>17, <2>1, <3>1 DEF Connected
  <2>2. CASE p # App
    BY <1>1, <1>2, <1>17, <2>2 DEF Connected
  <2>. QED  BY <2>1, <2>2
<1>19. samplers'.given = samplers.given /\ Sampled'
  <2>1. CASE f.method = "SamplerGetName"
    <3>1. samplers' = [samplers EXCEPT !.names[f.id] = r.id]
      BY <1>6, <2>1
    <3>. HIDE DEF f
    <3>. QED  BY <1>2, <3>1 DEF Sampled
  <2>2. CASE f.method # "SamplerGetName"
    BY <1>2, <1>6, <2>2 DEF Sampled
  <2>. QED  BY <2>1, <2>2
<1>20. Known'
  <2>1. CASE p = App
    BY <1>2, <1>3, <1>11, <1>17, <1>19, <2>1 DEF Known
  <2>2. CASE p # App
    BY <1>1, <1>2, <1>17, <1>19, <2>2 DEF Known
  <2>. QED  BY <2>1, <2>2
<1>21. r.type \in Takes(p, f.method) \/ f.method = "GetSamples"
  <2>. SUFFICES ASSUME f.method # "GetSamples"  PROVE r.type \in Takes(p, f.method)
    OBVIOUS
  <2>1. r \in RESs(q)
    BY <1>2, <1>7 DEF Proc
  <2>2. r \in AnswersOf(Range(wire[p]) \cup proc[p].rmap)
    BY <1>7, <2>1 DEF RESs, AnswersOf
  <2>3. r.type = ResultType(q, r.call)
    BY <1>2, <2>2 DEF Typed, TypedOf
  <2>4. <<r.nonce, r.call>> \in CarriedOf(proc[p], proc[q], wire[p], wire[q])
    BY <2>2 DEF CarriedOf, AnsweredOf
  <2>5. <<f.nonce, f.method>> \in OpenOf(proc[p])
    BY <1>2, <1>3 DEF OpenOf
  <2>6. Paired(OpenOf(proc[p]), CarriedOf(proc[p], proc[q], wire[p], wire[q]))
    BY <1>2 DEF Matched, Match
  <2>7. r.call = Sent(f.method)
    BY <1>7, <2>4, <2>5, <2>6 DEF Paired
  <2>. HIDE DEF f
  <2>8. ResultType(q, Sent(f.method)) \in Takes(p, f.method)
    BY <1>5, StubsAgree
  <2>. QED  BY <2>3, <2>7, <2>8
<1>22. OwnResult'
  <2>1. /\ log'.by = p /\ log'.method = f.method /\ log'.nonce = f.nonce /\ log'.res = r
    BY <1>6
  <2>. HIDE DEF f
  <2>. QED  BY <1>7, <1>21, <2>1 DEF OwnResult
<1>23. Confs'
  BY <1>2, <1>8 DEF Confs
<1>. QED  BY <1>16, <1>18, <1>19, <1>20, <1>22, <1>23 DEF IInv, TypeOK

-----------------------------------------------------------------------------

\* Nothing is under way when both start.
LEMMA InitOK ==
    ASSUME CallsAssumption, Init
    PROVE  IInv
<1>1. App \in Process /\ Node \in Process /\ App # Node /\ Process = {App, Node}
      /\ Other(App) = Node /\ Other(Node) = App /\ None # Node
  BY DEF Process, Other, CallsAssumption
<1>2. ASSUME NEW p \in Process
      PROVE  /\ proc[p] \in Proc(p) /\ wire[p] \in Wire(p) /\ wire[p] = <<>>
             /\ proc[p].stack = <<>> /\ proc[p].reqs = <<>> /\ proc[p].rmap = {} /\ proc[p].made = 0
             /\ (p = App => proc[p].to = Node)
  <2>. DEFINE to == IF p = App THEN Node ELSE None
              alive == TRUE
              conn == p = Node
              idle == [stack |-> <<>>, to |-> to, reqs |-> <<>>, rmap |-> {}, made |-> 0, alive |-> alive, conn |-> conn]
  <2>1. proc[p] = idle
    BY Zenon DEF Init, Idle
  <2>2. to \in {Other(p), None} /\ alive \in BOOLEAN /\ conn \in BOOLEAN
    BY <1>1
  <2>3. (p = App => to = Node) /\ wire[p] = <<>>
    BY DEF Init
  <2>. HIDE DEF to, alive, conn
  <2>4. idle \in Proc(p)
    BY <2>2 DEF Proc
  <2>. QED  BY <2>1, <2>3, <2>4 DEF Wire
<1>3. Procs
  BY <1>2 DEF Init, Procs
<1>4. Confs
  BY DEF Init, Confs, CallsAssumption
<1>5. Sampled
  BY DEF Init, Sampled
<1>6. Len(<<>>) = 0 /\ Range(<<>>) = {}
  BY DEF Range
<1>7. Connected
  BY <1>1, <1>2, <1>6 DEF Connected, Apart
<1>8. Known
  BY <1>1, <1>2, <1>6 DEF Known, KnownOf
<1>9. ASSUME NEW p \in Process
      PROVE  /\ OpenOf(proc[p]) = {} /\ ServedOf(proc[p]) = {}
             /\ RequestedOf(Range(wire[p]) \cup Range(proc[p].reqs)) = {}
             /\ AnswersOf(Range(wire[p]) \cup proc[p].rmap) = {}
  BY <1>2, <1>6 DEF OpenOf, ServedOf, RequestedOf, AnswersOf
<1>10. ASSUME NEW p \in Process  PROVE CarriedOf(proc[p], proc[Other(p)], wire[p], wire[Other(p)]) = {}
  <2>1. Other(p) \in Process
    BY <1>1
  <2>. QED  BY <1>9, <2>1 DEF CarriedOf, AnsweredOf
<1>11. Matched
  BY <1>9, <1>10 DEF Matched, Match, Fresh, Paired
<1>12. Typed
  BY <1>9 DEF Typed, TypedOf
<1>13. OwnResult
  BY DEF Init, OwnResult
<1>. QED  BY <1>3, <1>4, <1>5, <1>7, <1>8, <1>11, <1>12, <1>13 DEF IInv, TypeOK

\* The inductive invariant of the calls.
THEOREM CallsInvariant == ASSUME CallsAssumption PROVE Spec => []IInv
<1>1. Init => IInv
  BY InitOK
<1>2. IInv /\ [Next]_vars => IInv'
  <2>. SUFFICES ASSUME IInv, [Next]_vars  PROVE IInv'
    OBVIOUS
  <2>1. CASE AppCalls
    BY <2>1, AppCallsOK
  <2>2. CASE NodeCalls
    BY <2>2, NodeCallsOK
  <2>3. ASSUME NEW p \in Process, Poll(p)  PROVE IInv'
    BY <2>3, PollOK
  <2>4. ASSUME NEW p \in Process, Serve(p)  PROVE IInv'
    BY <2>4, ServeOK
  <2>5. ASSUME NEW p \in Process, Return(p)  PROVE IInv'
    BY <2>5, ReturnOK
  <2>6. CASE Close
    BY <2>6, CloseOK
  <2>7. CASE Restart
    BY <2>7, RestartOK
  <2>8. CASE UNCHANGED vars
    BY <2>8 DEF vars, IInv, TypeOK, Confs, Procs, Sampled, Connected, Known, Matched, Typed, OwnResult
  <2>. QED  BY <2>1, <2>2, <2>3, <2>4, <2>5, <2>6, <2>7, <2>8 DEF Next, Step
<1>. QED  BY <1>1, <1>2, PTL DEF Spec

\* Whatever calls nest or cross, whatever restarts in between: what a call returns is the
\* result of that very call (AsyncResult), of the type its stub asserts but for GetSamples.
THEOREM EveryCallReturnsItsOwn == ASSUME CallsAssumption PROVE Spec => []OwnResult
<1>1. IInv => OwnResult
  BY DEF IInv
<1>. QED  BY <1>1, CallsInvariant, PTL
=============================================================================
