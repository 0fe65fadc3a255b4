--------------------------- MODULE ColyseusProofs ---------------------------
(***************************************************************************)
(* Proofs about Colyseus, in four layers: types, and that every object has *)
(* one owner that every message and goroutine knows; that nothing is ahead *)
(* of its owner, and a shot makes one projectile; who is registered for    *)
(* what; and that Colyseus implements PrimaryCopy.                         *)
(***************************************************************************)
EXTENDS Colyseus, TLAPS

-----------------------------------------------------------------------------
(***************************************************************************)
(* First layer: types, and that every object has one owner that every      *)
(* replica, message and goroutine knows.                                   *)
(***************************************************************************)

(***************************************************************************)
(* What the helpers return.                                                *)
(***************************************************************************)

\* Put keeps the type of a map of objects.
LEMMA PutType ==
    ASSUME NEW S, NEW f \in [Guid -> S], NEW gs, NEW v \in S
    PROVE  Put(f, gs, v) \in [Guid -> S]
BY DEF Put

\* An event leaves a primary a primary.
LEMMA PrimaryType ==
    ASSUME NEW o \in Primary, NEW n \in Nat
    PROVE  ApplyToPrimary(o, n) \in Primary
BY DEF ApplyToPrimary, Primary

\* An event with a number leaves a replica a replica, of the same owner.
LEMMA ReplicaType ==
    ASSUME NEW r \in Replica, NEW n \in Nat
    PROVE  ApplyToReplica(r, n) \in Replica /\ ApplyToReplica(r, n).sid = r.sid
BY DEF ApplyToReplica, Replica

\* A new replica is a replica of the server that owns the object.
LEMMA NewReplicaType ==
    ASSUME NEW s \in Server, NEW type \in Type, NEW n \in Nat
    PROVE  NewReplica(s, type, n) \in Replica /\ NewReplica(s, type, n).sid = s
BY DEF NewReplica, Replica

\* A goroutine with nothing left to ask ends; any other starts over in its loop.
LEMMA LoopingType ==
    ASSUME NEW renewal \in BOOLEAN, NEW need \in [Server -> SUBSET Guid]
    PROVE  Looping(renewal, need) \in TaskState \cup {None}
BY DEF Looping, TaskState, NoReply

\* A loop goes on with the next server, or ends.
LEMMA ContinueType ==
    ASSUME NEW k \in TaskState, NEW p \in Server
    PROVE  Continue(k, p) \in TaskState \cup {None}
BY LoopingType DEF Continue, TaskState

\* A loop over objects of other servers is routed.
LEMMA LoopingRouted ==
    ASSUME NEW s, NEW renewal, NEW need, Looping(renewal, need) # None,
           \A p \in Server : \A g \in need[p] : origin[g] # None /\ origin[g].server = p /\ p # s
    PROVE  TaskRouted(s, Looping(renewal, need))
<1> DEFINE k == [renewal |-> renewal, need |-> need, stage |-> "loop",
                 peer |-> None, reply |-> NoReply]
<1>1. Looping(renewal, need) = k
  BY DEF Looping
<1>2. TaskRouted(s, k)
  BY DEF TaskRouted, NoReply
<1> QED BY <1>1, <1>2

\* Changing one goroutine needs only that one looked at.
LEMMA OneTaskRouted ==
    ASSUME TypeOK, TasksRouted, NEW s \in Server, NEW t \in Task, NEW k,
           tasks' = [tasks EXCEPT ![s][t] = k], origin' = origin,
           k # None => TaskRouted(s, k)
    PROVE  TasksRouted'
<1>1. \A p \in Server, u \in Task :
         tasks'[p][u] = IF p = s /\ u = t THEN k ELSE tasks[p][u]
  BY DEF TypeOK
<1>2. \A p \in Server, u \in Task :
         tasks'[p][u] # None => TaskRouted(p, tasks'[p][u])
  BY <1>1 DEF TasksRouted
<1> QED BY <1>2 DEF TasksRouted, TaskRouted

-----------------------------------------------------------------------------
(***************************************************************************)
(* Routing is inductive.                                                   *)
(***************************************************************************)

\* The empty tables are routed.
LEMMA RoutingInit == Init => Routing
<1> SUFFICES ASSUME Init PROVE Routing
  OBVIOUS
<1>1. TypeOK
  BY DEF Init, TypeOK
<1>2. OneOwner
  BY DEF Init, OneOwner
<1>3. CallsRouted
  BY DEF Init, CallsRouted
<1>4. TasksRouted
  BY DEF Init, TasksRouted
<1> QED BY <1>1, <1>2, <1>3, <1>4 DEF Routing

\* What a client sends never reaches a replica: the owner has none.
LEMMA ClientReachesOwner ==
    ASSUME OneOwner, NEW g \in Guid, NEW input, ClientUpdate(g, input), TypeOK
    PROVE  \/ UpdatePrimary(origin[g].server, g, input, calls)
           \/ UpdateUnknown(ClientCall(origin[g].server, g, input), calls)
<1> DEFINE c == ClientCall(origin[g].server, g, input)
<1>1. origin[g] # None /\ origin[g].server \in Server
  BY DEF ClientUpdate, TypeOK, Origin
<1>2. c.to = origin[g].server /\ c.guid = g /\ c.input = input
  BY DEF ClientCall
<1>3. ~UpdateReplica(c, calls)
  BY <1>1, <1>2 DEF UpdateReplica, OneOwner
<1> QED BY <1>2, <1>3 DEF ClientUpdate, Update

\* Spawning names an owner for an object nobody knew.
LEMMA SpawnRouting ==
    ASSUME Routing, NEW s \in Server, NEW g \in Guid, NEW type \in Type, Spawn(s, g, type)
    PROVE  Routing'
<1>1. /\ primaries' = [primaries EXCEPT ![s][g] = [type |-> type, ver |-> 0]]
      /\ interest' = [interest EXCEPT ![s][g] = <<>>]
      /\ origin' = [origin EXCEPT ![g] = [server |-> s, parent |-> None, event |-> 0]]
      /\ UNCHANGED <<replicas, peers, tasks, calls, serialized>>
      /\ origin[g] = None
  BY DEF Spawn, Fresh
<1>2. TypeOK /\ OneOwner /\ CallsRouted /\ TasksRouted
  BY DEF Routing
<1>3. \A h \in Guid : origin[h] # None => origin'[h] = origin[h]
  BY <1>1, <1>2 DEF TypeOK
<1>4. origin'[g] # None /\ origin'[g].server = s
  BY <1>1, <1>2, ColyseusAssumption DEF TypeOK, Origin
<1>5. TypeOK'
  BY <1>1, <1>2 DEF TypeOK, Primary, Origin
<1>6. OneOwner'
  BY <1>1, <1>2, <1>3, <1>4 DEF OneOwner, TypeOK
<1>7. CallsRouted'
  BY <1>1, <1>2, <1>3 DEF CallsRouted, TypeOK, UpdateCall
<1>8. TasksRouted'
  BY <1>1, <1>2, <1>3 DEF TasksRouted, TaskRouted, TypeOK, TaskState
<1> QED BY <1>5, <1>6, <1>7, <1>8 DEF Routing

\* The pushes of an event that creates new objects on s.
LEMMA PushesRouted ==
    ASSUME TypeOK, NEW s \in Server, NEW g \in Guid, NEW n \in Nat, NEW input \in Input,
           NEW new \in SUBSET Guid, NEW c \in Pushes(s, g, n, input, new)
    PROVE  /\ c \in UpdateCall
           /\ c.from = s /\ c.to # s /\ c.guid = g /\ c.event = n
           /\ c.created \subseteq new
           /\ c.deleted \subseteq {g}
<1>1. PICK i \in LiveMarkers(s, g) :
        c = [from |-> s, to |-> interest[s][g][i].sid, guid |-> g, event |-> n,
             input |-> input, created |-> IF ProactiveReplication THEN new ELSE {},
             deleted |-> Deleted(g, input), marker |-> i]
  BY DEF Pushes
<1>2. interest[s][g] \in Seq(Marker) /\ i \in DOMAIN interest[s][g]
  BY DEF TypeOK, LiveMarkers
<1>3. i \in Nat /\ interest[s][g][i] \in Marker
  BY <1>2
<1>4. interest[s][g][i].sid \in Server /\ interest[s][g][i].sid # s
  BY <1>3 DEF Marker, LiveMarkers
<1>5. Deleted(g, input) \subseteq {g}
  BY DEF Deleted
<1>6. c \in UpdateCall
  BY <1>1, <1>3, <1>4, <1>5 DEF UpdateCall
<1> QED BY <1>1, <1>4, <1>5, <1>6

\* An event at the owner.
LEMMA UpdatePrimaryRouting ==
    ASSUME Routing, NEW s \in Server, NEW g \in Guid, NEW input \in Input,
           NEW rest \in SUBSET calls, UpdatePrimary(s, g, input, rest)
    PROVE  Routing'
<1> DEFINE n == serialized[g] + 1
           dead == Deleted(g, input)
<1>1. TypeOK /\ OneOwner /\ CallsRouted /\ TasksRouted
  BY DEF Routing
<1>2. n \in Nat /\ dead \subseteq {g}
  BY <1>1 DEF TypeOK, Deleted
<1>3. primaries[s][g] # None /\ primaries[s][g] \in Primary
  BY <1>1 DEF UpdatePrimary, TypeOK
<1>4. PICK new \in Created(primaries[s][g], input) :
        /\ primaries' = [primaries EXCEPT ![s] = AfterEvent(s, g, n, input, new)]
        /\ interest' = [interest EXCEPT ![s] = Put(@, new \cup dead, <<>>)]
        /\ replicas' = [replicas EXCEPT ![s] = Put(@, dead, None)]
        /\ origin' = Put(origin, new, [server |-> s, parent |-> g, event |-> n])
        /\ calls' = rest \cup Pushes(s, g, n, input, new)
  BY DEF UpdatePrimary
<1>5. serialized' = [serialized EXCEPT ![g] = n] /\ UNCHANGED <<peers, tasks>>
  BY DEF UpdatePrimary
<1>6. new \subseteq Guid /\ \A h \in new : origin[h] = None
  BY DEF Created, Fresh
<1>7. \A h \in Guid : /\ h \in new => origin'[h] # None /\ origin'[h].server = s
                      /\ h \notin new => origin'[h] = origin[h]
  BY <1>2, <1>4, ColyseusAssumption DEF Put, Origin
<1>8. \A h \in Guid : origin[h] # None => origin'[h] = origin[h]
  BY <1>6, <1>7
<1>9. origin[g] # None /\ origin[g].server = s
  BY <1>1, <1>3 DEF OneOwner
<1>10. AfterEvent(s, g, n, input, new) \in [Guid -> Primary \cup {None}]
  <2>1. [type |-> "Projectile", ver |-> 0] \in Primary
    BY ColyseusAssumption DEF Primary
  <2>2. ApplyToPrimary(primaries[s][g], n) \in Primary
    BY <1>2, <1>3, PrimaryType
  <2>3. [primaries[s] EXCEPT ![g] = ApplyToPrimary(@, n)] \in [Guid -> Primary \cup {None}]
    BY <1>1, <2>2 DEF TypeOK
  <2> QED BY <2>1, <2>3, PutType DEF AfterEvent
<1>11. \A h \in Guid : AfterEvent(s, g, n, input, new)[h] # None
                         => h \in new \/ primaries[s][h] # None
  BY <1>1, <1>3 DEF AfterEvent, Put, TypeOK
<1>12. TypeOK'
  <2>1. primaries' \in [Server -> [Guid -> Primary \cup {None}]]
    BY <1>1, <1>4, <1>10 DEF TypeOK
  <2>2. replicas' \in [Server -> [Guid -> Replica \cup {None}]]
    BY <1>1, <1>4, PutType DEF TypeOK
  <2>3. interest' \in [Server -> [Guid -> Seq(Marker)]]
    <3>1. <<>> \in Seq(Marker)
      OBVIOUS
    <3>2. Put(interest[s], new \cup dead, <<>>) \in [Guid -> Seq(Marker)]
      BY <1>1, <3>1, PutType DEF TypeOK
    <3> QED BY <1>1, <1>4, <3>2 DEF TypeOK
  <2>4. origin' \in [Guid -> Origin \cup {None}]
    <3>1. [server |-> s, parent |-> g, event |-> n] \in Origin
      BY <1>2 DEF Origin
    <3> QED BY <1>1, <1>4, <3>1, PutType DEF TypeOK
  <2>5. calls' \in SUBSET UpdateCall
    <3>1. Pushes(s, g, n, input, new) \subseteq UpdateCall
      BY <1>1, <1>2, <1>6, PushesRouted
    <3> QED BY <1>1, <1>4, <3>1 DEF TypeOK
  <2> QED BY <1>1, <1>2, <1>5, <2>1, <2>2, <2>3, <2>4, <2>5 DEF TypeOK
<1>13. OneOwner'
  <2>1. \A h \in Guid : primaries'[s][h] # None => origin'[h] # None /\ origin'[h].server = s
    BY <1>1, <1>4, <1>7, <1>8, <1>11 DEF OneOwner, TypeOK
  <2>2. \A p \in Server, h \in Guid : p # s => primaries'[p][h] = primaries[p][h]
    BY <1>1, <1>4 DEF TypeOK
  <2>3. \A p \in Server, h \in Guid : replicas'[p][h] # None => replicas'[p][h] = replicas[p][h]
    BY <1>1, <1>4 DEF TypeOK, Put
  <2> QED BY <1>1, <1>8, <2>1, <2>2, <2>3 DEF OneOwner
<1>14. CallsRouted'
  <2> SUFFICES ASSUME NEW c \in calls'
               PROVE  /\ origin'[c.guid] # None
                      /\ c.event = None => /\ c.to = origin'[c.guid].server
                                           /\ c.created = {} /\ c.deleted = {}
                      /\ c.event # None => /\ c.from = origin'[c.guid].server
                                           /\ c.to # c.from
                      /\ \A h \in c.created : origin'[h] # None /\ origin'[h].server = c.from
                      /\ c.deleted \subseteq {c.guid}
    BY DEF CallsRouted
  <2>1. CASE c \in rest
    BY <1>1, <1>8, <2>1 DEF CallsRouted, TypeOK, UpdateCall
  <2>2. CASE c \in Pushes(s, g, n, input, new)
    <3>1. /\ c.from = s /\ c.to # s /\ c.guid = g /\ c.event = n
          /\ c.created \subseteq new /\ c.deleted \subseteq {g}
      BY <1>1, <1>2, <1>6, <2>2, PushesRouted
    <3>2. n # None
      BY <1>2, ColyseusAssumption
    <3> QED BY <1>6, <1>7, <1>8, <1>9, <3>1, <3>2
  <2> QED BY <1>4, <2>1, <2>2
<1>15. TasksRouted'
  BY <1>1, <1>5, <1>8 DEF TasksRouted, TaskRouted, TypeOK, TaskState
<1> QED BY <1>12, <1>13, <1>14, <1>15 DEF Routing

\* An input on its way to the owner.
LEMMA ForwardUpdateRouting ==
    ASSUME Routing, NEW s \in Server, NEW g \in Guid, NEW input \in Input,
           ForwardUpdate(s, g, input)
    PROVE  Routing'
<1> DEFINE c == ForwardedCall(s, g, input)
<1>1. TypeOK /\ OneOwner /\ CallsRouted /\ TasksRouted
  BY DEF Routing
<1>2. /\ replicas[s][g] # None
      /\ calls' = calls \cup {c}
      /\ UNCHANGED <<primaries, replicas, interest, peers, tasks, origin, serialized>>
  BY DEF ForwardUpdate
<1>3. origin[g] # None /\ replicas[s][g].sid = origin[g].server
  BY <1>1, <1>2 DEF OneOwner
<1>4. replicas[s][g].sid \in Server
  BY <1>1, <1>2 DEF TypeOK, Replica
<1>5. c \in UpdateCall
  BY <1>4 DEF ForwardedCall, UpdateCall
<1>6. /\ c.guid = g /\ c.to = origin[g].server /\ c.event = None
      /\ c.created = {} /\ c.deleted = {}
  BY <1>3 DEF ForwardedCall
<1>7. TypeOK'
  BY <1>1, <1>2, <1>5 DEF TypeOK
<1>8. OneOwner'
  BY <1>1, <1>2 DEF OneOwner
<1>9. CallsRouted'
  <2> HIDE DEF c
  <2> QED BY <1>1, <1>2, <1>3, <1>6 DEF CallsRouted
<1>10. TasksRouted'
  BY <1>1, <1>2 DEF TasksRouted, TaskRouted
<1> QED BY <1>7, <1>8, <1>9, <1>10 DEF Routing

\* A push reaches a replica.
LEMMA UpdateReplicaRouting ==
    ASSUME Routing, NEW c \in calls, UpdateReplica(c, calls \ {c})
    PROVE  Routing'
<1> DEFINE s == c.to
           g == c.guid
           r == replicas[s][g]
           new == IF ProactiveReplication THEN c.created ELSE {}
           pushed == [replicas[s] EXCEPT ![g] = ApplyToReplica(r, c.event)]
           installed == Put(pushed, new, NewReplica(r.sid, "Projectile", 0))
<1>1. TypeOK /\ OneOwner /\ CallsRouted /\ TasksRouted
  BY DEF Routing
<1>2. /\ s \in Server /\ g \in Guid /\ new \subseteq Guid /\ c.deleted \subseteq {g}
      /\ c.event \in Nat \cup {None}
  BY <1>1 DEF TypeOK, UpdateCall, CallsRouted
<1>3. /\ r # None
      /\ replicas' = [replicas EXCEPT ![s] = AfterPush(c)]
      /\ primaries' = [primaries EXCEPT ![s] = Put(@, c.deleted, None)]
      /\ interest' = [interest EXCEPT ![s] = Put(@, c.deleted, <<>>)]
      /\ calls' = calls \ {c}
      /\ UNCHANGED <<peers, tasks, origin, serialized>>
  BY DEF UpdateReplica
<1>4. r \in Replica /\ origin[g] # None /\ r.sid = origin[g].server /\ s # origin[g].server
  BY <1>1, <1>2, <1>3 DEF TypeOK, OneOwner
\* The receiver is not the owner, so this is a push: it has an event number.
<1>5. c.event \in Nat /\ c.from = origin[g].server
  BY <1>1, <1>2, <1>4 DEF CallsRouted
<1>6. \A h \in new : origin[h] # None /\ origin[h].server = r.sid
  BY <1>1, <1>4, <1>5 DEF CallsRouted
<1>7. r.sid \in Server
  BY <1>4 DEF Replica
<1>8. NewReplica(r.sid, "Projectile", 0) \in Replica /\ NewReplica(r.sid, "Projectile", 0).sid = r.sid
  BY <1>7, NewReplicaType, ColyseusAssumption
<1>9. ApplyToReplica(r, c.event) \in Replica /\ ApplyToReplica(r, c.event).sid = r.sid
  BY <1>4, <1>5, ReplicaType
<1>10. AfterPush(c) = Put(installed, c.deleted, None)
  BY DEF AfterPush
<1>11. pushed \in [Guid -> Replica \cup {None}]
  BY <1>1, <1>2, <1>9 DEF TypeOK
<1>12. installed \in [Guid -> Replica \cup {None}]
  <2> HIDE DEF pushed
  <2> QED BY <1>8, <1>11, PutType
<1>13. AfterPush(c) \in [Guid -> Replica \cup {None}]
  <2> HIDE DEF installed
  <2>1. Put(installed, c.deleted, None) \in [Guid -> Replica \cup {None}]
    BY <1>12, PutType
  <2> QED BY <1>10, <2>1
<1>14. \A h \in Guid : AfterPush(c)[h] # None =>
          \/ h \in new /\ AfterPush(c)[h].sid = r.sid
          \/ h = g /\ AfterPush(c)[h].sid = r.sid
          \/ AfterPush(c)[h] = replicas[s][h]
  <2> SUFFICES ASSUME NEW h \in Guid, AfterPush(c)[h] # None
               PROVE  \/ h \in new /\ AfterPush(c)[h].sid = r.sid
                      \/ h = g /\ AfterPush(c)[h].sid = r.sid
                      \/ AfterPush(c)[h] = replicas[s][h]
    OBVIOUS
  <2>1. AfterPush(c)[h] = installed[h]
    <3> HIDE DEF installed
    <3> QED BY <1>10 DEF Put
  <2>2. CASE h \in new
    <3> HIDE DEF pushed, new
    <3> QED BY <1>8, <2>1, <2>2 DEF Put
  <2>3. CASE h \notin new
    <3>1. installed[h] = pushed[h]
      <4> HIDE DEF pushed, new
      <4> QED BY <2>3 DEF Put
    <3>2. pushed[h] = IF h = g THEN ApplyToReplica(r, c.event) ELSE replicas[s][h]
      BY <1>1, <1>2 DEF TypeOK
    <3> QED BY <1>9, <2>1, <3>1, <3>2
  <2> QED BY <2>2, <2>3
<1> HIDE DEF new, pushed, installed
<1>15. TypeOK'
  <2>1. Put(primaries[s], c.deleted, None) \in [Guid -> Primary \cup {None}]
    BY <1>1, <1>2, PutType DEF TypeOK
  <2>2. Put(interest[s], c.deleted, <<>>) \in [Guid -> Seq(Marker)]
    <3>1. <<>> \in Seq(Marker)
      OBVIOUS
    <3> QED BY <1>1, <1>2, <3>1, PutType DEF TypeOK
  <2> QED BY <1>1, <1>2, <1>3, <1>13, <2>1, <2>2 DEF TypeOK
<1>16. OneOwner'
  <2>1. \A p \in Server, h \in Guid : primaries'[p][h] # None => primaries'[p][h] = primaries[p][h]
    BY <1>1, <1>2, <1>3 DEF TypeOK, Put
  <2>2. \A h \in Guid : replicas'[s][h] = AfterPush(c)[h]
    BY <1>1, <1>2, <1>3 DEF TypeOK
  <2>3. \A p \in Server, h \in Guid : p # s => replicas'[p][h] = replicas[p][h]
    BY <1>1, <1>2, <1>3 DEF TypeOK
  <2>4. \A h \in Guid : replicas'[s][h] # None =>
           origin[h] # None /\ replicas'[s][h].sid = origin[h].server /\ s # origin[h].server
    BY <1>1, <1>2, <1>4, <1>6, <1>14, <2>2 DEF OneOwner
  <2> QED BY <1>1, <1>3, <2>1, <2>3, <2>4 DEF OneOwner
<1>17. CallsRouted'
  BY <1>1, <1>3 DEF CallsRouted
<1>18. TasksRouted'
  BY <1>1, <1>3 DEF TasksRouted, TaskRouted
<1> QED BY <1>15, <1>16, <1>17, <1>18 DEF Routing

\* A call is dropped, or answered without an effect.
LEMMA DropRouting ==
    ASSUME Routing, calls' \in SUBSET calls,
           UNCHANGED <<primaries, replicas, interest, peers, tasks, origin, serialized>>
    PROVE  Routing'
<1>1. TypeOK'
  BY DEF Routing, TypeOK
<1>2. OneOwner' /\ CallsRouted' /\ TasksRouted'
  BY DEF Routing, OneOwner, CallsRouted, TasksRouted, TaskRouted
<1> QED BY <1>1, <1>2 DEF Routing

\* NotifySubscriber and CleanupLoop start a goroutine.
LEMMA NotifySubscriberRouting ==
    ASSUME Routing, NEW s \in Server, NEW t \in Task, NEW matches \in SUBSET Published,
           NotifySubscriber(s, t, matches)
    PROVE  Routing'
<1> DEFINE need == Needed(s, matches)
<1>1. TypeOK /\ OneOwner /\ CallsRouted /\ TasksRouted
  BY DEF Routing
<1>2. /\ tasks' = [tasks EXCEPT ![s][t] = Looping(FALSE, need)]
      /\ UNCHANGED <<primaries, replicas, interest, peers, calls, origin, serialized>>
  BY DEF NotifySubscriber
<1>3. need \in [Server -> SUBSET Guid]
  BY DEF Published, Needed
<1>4. \A p \in Server : \A g \in need[p] : origin[g] # None /\ origin[g].server = p /\ p # s
  BY DEF Published, Needed
<1> HIDE DEF need
<1>5. Looping(FALSE, need) \in TaskState \cup {None}
  BY <1>3, LoopingType
<1>6. TypeOK'
  BY <1>1, <1>2, <1>5 DEF TypeOK
<1>7. OneOwner' /\ CallsRouted'
  BY <1>1, <1>2 DEF OneOwner, CallsRouted
<1>8. TasksRouted'
  BY <1>1, <1>2, <1>4, LoopingRouted, OneTaskRouted
<1> QED BY <1>6, <1>7, <1>8 DEF Routing

\* Clean-up asks and answers nothing.
LEMMA CleanupLoopRouting ==
    ASSUME Routing, NEW s \in Server, NEW t \in Task, NEW keep \in SUBSET Guid,
           CleanupLoop(s, t, keep)
    PROVE  Routing'
<1> DEFINE need == [p \in Server |-> {g \in keep : replicas[s][g].sid = p}]
<1>1. TypeOK /\ OneOwner /\ CallsRouted /\ TasksRouted
  BY DEF Routing
<1>2. /\ \A g \in keep : replicas[s][g] # None
      /\ replicas' = [replicas EXCEPT ![s] = Put(@, Guid \ keep, None)]
      /\ tasks' = [tasks EXCEPT ![s][t] = Looping(TRUE, need)]
      /\ UNCHANGED <<primaries, interest, peers, calls, origin, serialized>>
  BY DEF CleanupLoop
<1>3. need \in [Server -> SUBSET Guid]
  OBVIOUS
<1>4. \A p \in Server : \A g \in need[p] : origin[g] # None /\ origin[g].server = p /\ p # s
  BY <1>1, <1>2 DEF OneOwner
<1> HIDE DEF need
<1>5. Looping(TRUE, need) \in TaskState \cup {None}
  BY <1>3, LoopingType
<1>6. Put(replicas[s], Guid \ keep, None) \in [Guid -> Replica \cup {None}]
  BY <1>1, PutType DEF TypeOK
<1>7. TypeOK'
  BY <1>1, <1>2, <1>5, <1>6 DEF TypeOK
<1>8. OneOwner'
  <2>1. \A p \in Server, g \in Guid : replicas'[p][g] # None => replicas'[p][g] = replicas[p][g]
    BY <1>1, <1>2 DEF TypeOK, Put
  <2>2. primaries' = primaries /\ origin' = origin
    BY <1>2
  <2> QED BY <1>1, <2>1, <2>2 DEF OneOwner
<1>9. CallsRouted'
  BY <1>1, <1>2 DEF CallsRouted
<1>10. TasksRouted'
  BY <1>1, <1>2, <1>4, LoopingRouted, OneTaskRouted
<1> QED BY <1>7, <1>8, <1>9, <1>10 DEF Routing

\* A goroutine that goes on to the rest of its loop, or ends, is routed.
LEMMA ContinueRouted ==
    ASSUME TypeOK, TasksRouted, NEW s \in Server, NEW t \in Task, NEW p \in Server,
           tasks[s][t] # None
    PROVE  /\ Continue(tasks[s][t], p) \in TaskState \cup {None}
           /\ Continue(tasks[s][t], p) # None => TaskRouted(s, Continue(tasks[s][t], p))
<1> DEFINE k == tasks[s][t]
           need == [k.need EXCEPT ![p] = {}]
<1>1. k \in TaskState /\ TaskRouted(s, k)
  BY DEF TypeOK, TasksRouted
<1>2. \A q \in Server : \A g \in need[q] : origin[g] # None /\ origin[g].server = q /\ q # s
  BY <1>1 DEF TaskState, TaskRouted
<1>3. Continue(k, p) = Looping(k.renewal, need)
  BY DEF Continue
<1> HIDE DEF need
<1> QED BY <1>1, <1>2, <1>3, ContinueType, LoopingRouted

\* A step that only moves one goroutine on.
LEMMA TaskStepRouting ==
    ASSUME Routing, NEW s \in Server, NEW t \in Task, NEW k \in TaskState \cup {None},
           k # None => TaskRouted(s, k),
           tasks' = [tasks EXCEPT ![s][t] = k],
           UNCHANGED <<primaries, replicas, interest, peers, calls, origin, serialized>>
    PROVE  Routing'
<1>1. TypeOK /\ OneOwner /\ CallsRouted /\ TasksRouted
  BY DEF Routing
<1>2. TypeOK'
  BY <1>1 DEF TypeOK
<1>3. OneOwner' /\ CallsRouted'
  BY <1>1 DEF OneOwner, CallsRouted
<1>4. TasksRouted'
  BY <1>1, OneTaskRouted
<1> QED BY <1>2, <1>3, <1>4 DEF Routing

\* A loop calls a server for that server's objects only.
LEMMA CallPeerRouting ==
    ASSUME Routing, NEW s \in Server, NEW t \in Task, NEW p \in Server, CallPeer(s, t, p)
    PROVE  Routing'
<1> DEFINE k == tasks[s][t]
           asked == [k EXCEPT !.stage = "call", !.peer = p]
<1>1. TypeOK /\ TasksRouted
  BY DEF Routing
<1>2. /\ k # None /\ k.stage = "loop" /\ k.need[p] # {}
      /\ tasks' = [tasks EXCEPT ![s][t] = IF p \in peers[s] THEN asked ELSE Continue(k, p)]
      /\ UNCHANGED <<primaries, replicas, interest, peers, calls, origin, serialized>>
  BY DEF CallPeer
<1>3. k \in TaskState /\ TaskRouted(s, k)
  BY <1>1, <1>2 DEF TypeOK, TasksRouted
<1>4. asked \in TaskState
  BY <1>3 DEF TaskState
<1>5. TaskRouted(s, asked)
  BY <1>2, <1>3 DEF TaskRouted, TaskState
<1> HIDE DEF asked
<1>6. CASE p \in peers[s]
  <2>1. tasks' = [tasks EXCEPT ![s][t] = asked]
    BY <1>2, <1>6
  <2> QED BY <1>2, <1>4, <1>5, <2>1, TaskStepRouting
<1>7. CASE p \notin peers[s]
  <2>1. tasks' = [tasks EXCEPT ![s][t] = Continue(k, p)]
    BY <1>2, <1>7
  <2>2. /\ Continue(k, p) \in TaskState \cup {None}
        /\ Continue(k, p) # None => TaskRouted(s, Continue(k, p))
    BY <1>1, <1>2, ContinueRouted
  <2> QED BY <1>2, <2>1, <2>2, TaskStepRouting
<1> QED BY <1>6, <1>7

\* What the markers of a call add to those there are.
LEMMA MarkersAdded ==
    ASSUME NEW s \in Server, NEW n \in Nat \ {0}, NEW old \in Seq(Marker)
    PROVE  /\ old \o Markers(s, n) \in Seq(Marker)
           /\ \A i \in DOMAIN old :
                 i \in DOMAIN (old \o Markers(s, n)) /\ (old \o Markers(s, n))[i] = old[i]
           /\ \E i \in DOMAIN (old \o Markers(s, n)) : (old \o Markers(s, n))[i].sid = s
<1> DEFINE marker == [sid |-> s, left |-> InterestTTL]
           new == Markers(s, n)
<1>1. marker \in Marker /\ marker.sid = s
  BY ColyseusAssumption DEF Marker
<1>2. new = [i \in 1 .. n |-> marker]
  BY DEF Markers
<1> HIDE DEF marker, new
<1>3. new \in Seq(Marker) /\ Len(new) = n /\ new[1] = marker
  BY <1>1, <1>2
<1>4. /\ old \o new \in Seq(Marker)
      /\ \A i \in DOMAIN old : i \in DOMAIN (old \o new) /\ (old \o new)[i] = old[i]
      /\ Len(old) + 1 \in DOMAIN (old \o new) /\ (old \o new)[Len(old) + 1] = new[1]
  BY <1>3
<1> QED BY <1>1, <1>3, <1>4 DEF new

\* How often an object is named.
LEMMA NamedOften ==
    ASSUME NEW k, NEW times \in Named(k), NEW g \in Held(k)
    PROVE  times[g] \in Nat \ {0}
<1>1. MaxMarkers \in Nat
  BY ColyseusAssumption
<1> QED BY <1>1 DEF Named

\* An answer is about the objects asked for, which the answering server owns.
LEMMA RegisterInterestRouting ==
    ASSUME Routing, NEW s \in Server, NEW t \in Task, RegisterInterest(s, t)
    PROVE  Routing'
<1> DEFINE k == tasks[s][t]
           answered == [k EXCEPT !.stage = "reply", !.reply = States(k)]
<1>1. TypeOK /\ OneOwner /\ CallsRouted /\ TasksRouted
  BY DEF Routing
<1>2. /\ k # None /\ k.stage = "call"
      /\ tasks' = [tasks EXCEPT ![s][t] = answered]
      /\ UNCHANGED <<primaries, replicas, peers, calls, origin, serialized>>
  BY DEF RegisterInterest
<1>0. PICK times \in Named(k) : interest' = [interest EXCEPT ![k.peer] = Marked(s, k, times)]
  BY DEF RegisterInterest
<1>3. k \in TaskState /\ TaskRouted(s, k)
  BY <1>1, <1>2 DEF TypeOK, TasksRouted
<1>4. k.peer \in Server /\ k.peer # s
  BY <1>2, <1>3 DEF TaskRouted
<1>5. Held(k) \subseteq k.need[k.peer]
  BY DEF Held
<1>6. States(k) \in [Guid -> Primary \cup {None}]
  BY <1>1, <1>4 DEF States, TypeOK
<1>7. \A g \in Guid : States(k)[g] # None => g \in k.need[k.peer]
  BY <1>5 DEF States
<1>8. Marked(s, k, times) \in [Guid -> Seq(Marker)]
  <2>1. \A g \in Guid : interest[k.peer][g] \in Seq(Marker)
    BY <1>1, <1>4 DEF TypeOK
  <2>2. \A g \in Guid : g \in Held(k) => interest[k.peer][g] \o Markers(s, times[g]) \in Seq(Marker)
    BY <2>1, NamedOften, MarkersAdded
  <2> QED BY <2>1, <2>2 DEF Marked
<1>9. answered \in TaskState
  BY <1>3, <1>6 DEF TaskState
<1>10. TaskRouted(s, answered)
  <2>1. /\ answered.need = k.need /\ answered.peer = k.peer
        /\ answered.stage = "reply" /\ answered.reply = States(k)
    BY <1>3 DEF TaskState
  <2> HIDE DEF answered
  <2> QED BY <1>3, <1>4, <1>7, <2>1 DEF TaskRouted
<1> HIDE DEF answered
<1>11. TypeOK'
  BY <1>0, <1>1, <1>2, <1>8, <1>9 DEF TypeOK
<1>12. OneOwner' /\ CallsRouted'
  BY <1>1, <1>2 DEF OneOwner, CallsRouted
<1>13. TasksRouted'
  BY <1>1, <1>2, <1>10, OneTaskRouted
<1> QED BY <1>11, <1>12, <1>13 DEF Routing

\* What an answer stores are objects of the server that answered.
LEMMA ReceiveStatesRouting ==
    ASSUME Routing, NEW s \in Server, NEW t \in Task, ReceiveStates(s, t)
    PROVE  Routing'
<1> DEFINE k == tasks[s][t]
<1>1. TypeOK /\ OneOwner /\ CallsRouted /\ TasksRouted
  BY DEF Routing
<1>2. /\ k # None /\ k.stage = "reply"
      /\ replicas' = IF k.renewal THEN replicas
                     ELSE [replicas EXCEPT ![s] = Installed(s, k)]
      /\ tasks' = [tasks EXCEPT ![s][t] = Continue(k, k.peer)]
      /\ UNCHANGED <<primaries, interest, peers, calls, origin, serialized>>
  BY DEF ReceiveStates
<1>3. k \in TaskState /\ TaskRouted(s, k)
  BY <1>1, <1>2 DEF TypeOK, TasksRouted
<1>4. k.peer \in Server /\ k.peer # s
  BY <1>2, <1>3 DEF TaskRouted
<1>5. \A g \in Guid : k.reply[g] # None =>
         /\ NewReplica(k.peer, k.reply[g].type, k.reply[g].ver) \in Replica
         /\ NewReplica(k.peer, k.reply[g].type, k.reply[g].ver).sid = k.peer
         /\ origin[g] # None /\ origin[g].server = k.peer
  <2> SUFFICES ASSUME NEW g \in Guid, k.reply[g] # None
               PROVE  /\ NewReplica(k.peer, k.reply[g].type, k.reply[g].ver) \in Replica
                      /\ NewReplica(k.peer, k.reply[g].type, k.reply[g].ver).sid = k.peer
                      /\ origin[g] # None /\ origin[g].server = k.peer
    OBVIOUS
  <2>1. k.reply[g] \in Primary
    BY <1>3 DEF TaskState
  <2>2. k.reply[g].type \in Type /\ k.reply[g].ver \in Nat
    BY <2>1 DEF Primary
  <2>3. g \in k.need[k.peer]
    BY <1>3 DEF TaskRouted
  <2>4. origin[g] # None /\ origin[g].server = k.peer
    BY <1>3, <1>4, <2>3 DEF TaskRouted
  <2> QED BY <1>4, <2>2, <2>4, NewReplicaType
<1>6. Installed(s, k) \in [Guid -> Replica \cup {None}]
  BY <1>1, <1>5 DEF Installed, TypeOK
<1>7. \A g \in Guid : Installed(s, k)[g] = replicas[s][g]
                      \/ /\ Installed(s, k)[g].sid = k.peer
                         /\ origin[g] # None /\ origin[g].server = k.peer
  BY <1>5 DEF Installed
<1>8. replicas' \in [Server -> [Guid -> Replica \cup {None}]]
  BY <1>1, <1>2, <1>6 DEF TypeOK
<1>9. Continue(k, k.peer) \in TaskState \cup {None}
  BY <1>1, <1>2, <1>4, ContinueRouted
<1>10. TypeOK'
  BY <1>1, <1>2, <1>8, <1>9 DEF TypeOK
<1>11. OneOwner'
  <2>1. \A p \in Server, g \in Guid :
           \/ replicas'[p][g] = replicas[p][g]
           \/ p = s /\ replicas'[p][g] = Installed(s, k)[g]
    BY <1>1, <1>2 DEF TypeOK
  <2>2. \A p \in Server, g \in Guid : replicas'[p][g] # None =>
           origin[g] # None /\ replicas'[p][g].sid = origin[g].server /\ p # origin[g].server
    BY <1>1, <1>4, <1>7, <2>1 DEF OneOwner
  <2> QED BY <1>1, <1>2, <2>2 DEF OneOwner
<1>12. CallsRouted'
  BY <1>1, <1>2 DEF CallsRouted
<1>13. TasksRouted'
  BY <1>1, <1>2, <1>4, ContinueRouted, OneTaskRouted
<1> QED BY <1>10, <1>11, <1>12, <1>13 DEF Routing

\* A call that fails stores nothing, and the loop goes on.
LEMMA RegisterFailsRouting ==
    ASSUME Routing, NEW s \in Server, NEW t \in Task, RegisterFails(s, t)
    PROVE  Routing'
<1> DEFINE k == tasks[s][t]
<1>1. TypeOK /\ TasksRouted
  BY DEF Routing
<1>2. /\ k # None /\ k.stage \in {"call", "reply"}
      /\ tasks' = [tasks EXCEPT ![s][t] = Continue(k, k.peer)]
      /\ UNCHANGED <<primaries, replicas, interest, peers, calls, origin, serialized>>
  BY DEF RegisterFails
<1>3. k.peer \in Server
  BY <1>1, <1>2 DEF TasksRouted, TaskRouted
<1> QED BY <1>1, <1>2, <1>3, ContinueRouted, TaskStepRouting

\* Time passing.
LEMMA TickRouting == ASSUME Routing, Tick PROVE Routing'
<1>1. TypeOK /\ OneOwner /\ CallsRouted /\ TasksRouted
  BY DEF Routing
<1>2. UNCHANGED <<primaries, replicas, peers, tasks, calls, origin, serialized>>
  BY DEF Tick
<1>3. interest' \in [Server -> [Guid -> Seq(Marker)]]
  <2> SUFFICES ASSUME NEW s \in Server, NEW g \in Guid
               PROVE  [i \in DOMAIN interest[s][g] |->
                         [interest[s][g][i] EXCEPT !.left = IF @ = 0 THEN 0 ELSE @ - 1]]
                      \in Seq(Marker)
    BY DEF Tick
  <2> DEFINE q == interest[s][g]
  <2>1. q \in Seq(Marker)
    BY <1>1 DEF TypeOK
  <2>2. Len(q) \in Nat /\ DOMAIN q = 1 .. Len(q)
    BY <2>1
  <2>3. \A i \in 1 .. Len(q) : q[i] \in Marker
    BY <2>1
  <2>4. \A i \in 1 .. Len(q) : [q[i] EXCEPT !.left = IF @ = 0 THEN 0 ELSE @ - 1] \in Marker
    BY <2>3 DEF Marker
  <2> QED BY <2>2, <2>4
<1>4. TypeOK'
  BY <1>1, <1>2, <1>3 DEF TypeOK
<1>5. OneOwner' /\ CallsRouted' /\ TasksRouted'
  BY <1>1, <1>2 DEF OneOwner, CallsRouted, TasksRouted, TaskRouted
<1> QED BY <1>4, <1>5 DEF Routing

\* A new endpoint.
LEMMA ConnectRouting ==
    ASSUME Routing, NEW s \in Server, NEW p \in Server, ConnectToPeer(s, p)
    PROVE  Routing'
<1>1. TypeOK'
  BY DEF Routing, ConnectToPeer, TypeOK
<1>2. OneOwner' /\ CallsRouted' /\ TasksRouted'
  BY DEF Routing, ConnectToPeer, OneOwner, CallsRouted, TasksRouted, TaskRouted
<1> QED BY <1>1, <1>2 DEF Routing

\* The Update handler, whoever called it.
LEMMA ObjectStepRouting == ASSUME Routing, ObjectStep PROVE Routing'
<1>1. TypeOK /\ OneOwner
  BY DEF Routing
<1>2. CASE \E s, p \in Server : ConnectToPeer(s, p)
  BY <1>2, ConnectRouting
<1>3. CASE \E s \in Server, g \in Guid, type \in Type : Spawn(s, g, type)
  BY <1>3, SpawnRouting
<1>4. CASE \E s \in Server, g \in Guid, input \in Input : AdvanceGameState(s, g, input)
  BY <1>4, UpdatePrimaryRouting, ForwardUpdateRouting DEF AdvanceGameState
<1>5. CASE \E g \in Guid, input \in Input : ClientUpdate(g, input)
  <2>1. PICK g \in Guid, input \in Input : ClientUpdate(g, input)
    BY <1>5
  <2>2. origin[g].server \in Server
    BY <1>1, <2>1 DEF ClientUpdate, TypeOK, Origin
  <2>3. CASE UpdatePrimary(origin[g].server, g, input, calls)
    BY <2>2, <2>3, UpdatePrimaryRouting
  <2>4. CASE UpdateUnknown(ClientCall(origin[g].server, g, input), calls)
    BY <2>4, DropRouting DEF UpdateUnknown
  <2> QED BY <1>1, <2>1, <2>3, <2>4, ClientReachesOwner
<1>6. CASE \E c \in calls : ReceiveUpdate(c) \/ UpdateFails(c)
  <2>1. PICK c \in calls : ReceiveUpdate(c) \/ UpdateFails(c)
    BY <1>6
  <2>2. c.to \in Server /\ c.guid \in Guid /\ c.input \in Input /\ calls \ {c} \in SUBSET calls
    BY <1>1 DEF TypeOK, UpdateCall
  <2>3. CASE UpdatePrimary(c.to, c.guid, c.input, calls \ {c})
    BY <2>2, <2>3, UpdatePrimaryRouting
  <2>4. CASE UpdateReplica(c, calls \ {c})
    BY <2>4, UpdateReplicaRouting
  <2>5. CASE UpdateUnknown(c, calls \ {c}) \/ UpdateFails(c)
    BY <2>2, <2>5, DropRouting DEF UpdateUnknown, UpdateFails
  <2> QED BY <2>1, <2>3, <2>4, <2>5 DEF ReceiveUpdate, Update
<1> QED BY <1>2, <1>3, <1>4, <1>5, <1>6 DEF ObjectStep

\* All steps of interest keep calls and goroutines routed.
LEMMA InterestStepRouting == ASSUME Routing, InterestStep PROVE Routing'
<1>1. CASE \E s \in Server, t \in Task, matches \in SUBSET Published :
             NotifySubscriber(s, t, matches)
  BY <1>1, NotifySubscriberRouting
<1>2. CASE \E s \in Server, t \in Task, keep \in SUBSET Guid : CleanupLoop(s, t, keep)
  BY <1>2, CleanupLoopRouting
<1>3. CASE \E s \in Server, t \in Task, p \in Server : CallPeer(s, t, p)
  BY <1>3, CallPeerRouting
<1>4. CASE \E s \in Server, t \in Task :
             RegisterInterest(s, t) \/ ReceiveStates(s, t) \/ RegisterFails(s, t)
  BY <1>4, RegisterInterestRouting, ReceiveStatesRouting, RegisterFailsRouting
<1> QED BY <1>1, <1>2, <1>3, <1>4 DEF InterestStep

\* Every step preserves the first layer.
LEMMA RoutingNext == Routing /\ [Next]_vars => Routing'
<1> SUFFICES ASSUME Routing, [Next]_vars PROVE Routing'
  OBVIOUS
<1>1. CASE ObjectStep
  BY <1>1, ObjectStepRouting
<1>2. CASE InterestStep
  BY <1>2, InterestStepRouting
<1>3. CASE Tick
  BY <1>3, TickRouting
<1>4. CASE UNCHANGED vars
  BY <1>4, DropRouting DEF vars
<1> QED BY <1>1, <1>2, <1>3, <1>4 DEF Next

-----------------------------------------------------------------------------
\* Messages and goroutines know the owners of the objects they are about.
THEOREM RoutingHolds == Spec => []Routing
BY RoutingInit, RoutingNext, PTL DEF Spec

\* Every table and message keeps its type: in particular a replica's latest event
\* always has a timestamp.
THEOREM TypeCorrect == Spec => []TypeOK
<1>1. Routing => TypeOK
  BY DEF Routing
<1> QED BY <1>1, RoutingHolds, PTL

\* However calls are delayed, reordered, duplicated by a second marker or lost, an
\* object has one primary, on the server that spawned it, and every replica names it.
THEOREM OwnershipHolds == Spec => []OneOwner
<1>1. Routing => OneOwner
  BY DEF Routing
<1> QED BY <1>1, RoutingHolds, PTL

-----------------------------------------------------------------------------
(***************************************************************************)
(* Second layer: nothing a server stores or sends has an event that its    *)
(* owner has not serialized, and a shot makes one projectile.              *)
(***************************************************************************)

(***************************************************************************)
(* Goroutines only lose answers, except when an owner gives one.           *)
(***************************************************************************)

AnswersKept ==
    \A s \in Server, t \in Task, g \in Guid :
       tasks'[s][t] # None /\ tasks'[s][t].reply[g] # None =>
       tasks[s][t] # None /\ tasks'[s][t].reply[g] = tasks[s][t].reply[g]

\* A goroutine in its loop has no answer.
LEMMA LoopingReply ==
    ASSUME NEW renewal, NEW need, NEW g \in Guid, Looping(renewal, need) # None
    PROVE  Looping(renewal, need).reply[g] = None
BY DEF Looping, NoReply

\* A loop that goes on has no answer at hand.
LEMMA ContinueReply ==
    ASSUME NEW k, NEW p, NEW g \in Guid, Continue(k, p) # None
    PROVE  Continue(k, p).reply[g] = None
BY LoopingReply DEF Continue

\* One goroutine starts over, or ends.
LEMMA AnswerLost ==
    ASSUME TypeOK, NEW s \in Server, NEW t \in Task, NEW k,
           tasks' = [tasks EXCEPT ![s][t] = k],
           \A g \in Guid : k # None => k.reply[g] = None
    PROVE  AnswersKept
<1>1. \A p \in Server, u \in Task :
         tasks'[p][u] = IF p = s /\ u = t THEN k ELSE tasks[p][u]
  BY DEF TypeOK
<1> QED BY <1>1 DEF AnswersKept

\* So it does in every step of a goroutine but its call and the owner's answer.
LEMMA AnswersKeptInLoop ==
    ASSUME TypeOK, NEW s \in Server, NEW t \in Task,
           \/ \E matches \in SUBSET Published : NotifySubscriber(s, t, matches)
           \/ \E keep \in SUBSET Guid : CleanupLoop(s, t, keep)
           \/ ReceiveStates(s, t)
           \/ RegisterFails(s, t)
    PROVE  AnswersKept
<1>1. ASSUME NEW renewal, NEW need, tasks' = [tasks EXCEPT ![s][t] = Looping(renewal, need)]
      PROVE  AnswersKept
  <2> DEFINE k == Looping(renewal, need)
  <2>1. \A g \in Guid : k # None => k.reply[g] = None
    BY LoopingReply
  <2>2. tasks' = [tasks EXCEPT ![s][t] = k]
    BY <1>1
  <2> HIDE DEF k
  <2> QED BY <2>1, <2>2, AnswerLost
<1>2. CASE \E matches \in SUBSET Published : NotifySubscriber(s, t, matches)
  BY <1>1, <1>2 DEF NotifySubscriber
<1>3. CASE \E keep \in SUBSET Guid : CleanupLoop(s, t, keep)
  BY <1>1, <1>3 DEF CleanupLoop
<1>4. CASE ReceiveStates(s, t) \/ RegisterFails(s, t)
  BY <1>1, <1>4 DEF ReceiveStates, RegisterFails, Continue
<1> QED BY <1>2, <1>3, <1>4

\* Calling a peer makes no answer.
LEMMA AnswersKeptByCall ==
    ASSUME TypeOK, NEW s \in Server, NEW t \in Task, NEW p \in Server, CallPeer(s, t, p)
    PROVE  AnswersKept
<1> DEFINE k == tasks[s][t]
           asked == [k EXCEPT !.stage = "call", !.peer = p]
           rest == Continue(k, p)
<1>1. k # None /\ tasks' = [tasks EXCEPT ![s][t] = IF p \in peers[s] THEN asked ELSE rest]
  BY DEF CallPeer
<1>2. asked.reply = k.reply
  BY <1>1 DEF TypeOK, TaskState
<1>3. \A g \in Guid : rest # None => rest.reply[g] = None
  BY ContinueReply
<1> HIDE DEF asked, rest
<1>4. CASE p \in peers[s]
  <2>1. \A q \in Server, u \in Task :
           tasks'[q][u] = IF q = s /\ u = t THEN asked ELSE tasks[q][u]
    BY <1>1, <1>4 DEF TypeOK
  <2> QED BY <1>1, <1>2, <2>1 DEF AnswersKept
<1>5. CASE p \notin peers[s]
  <2>1. tasks' = [tasks EXCEPT ![s][t] = rest]
    BY <1>1, <1>5
  <2> QED BY <1>3, <2>1, AnswerLost
<1> QED BY <1>4, <1>5

-----------------------------------------------------------------------------
(***************************************************************************)
(* Behind is inductive.                                                    *)
(***************************************************************************)

\* The owner only counts up, so what a step leaves alone stays behind.
LEMMA BehindStep ==
    ASSUME Behind, TypeOK, TypeOK',
           \A g \in Guid : serialized[g] <= serialized'[g],
           \A s \in Server, g \in Guid : primaries'[s][g] # None =>
              \/ primaries'[s][g] = primaries[s][g]
              \/ primaries'[s][g].ver <= serialized'[g],
           \A s \in Server, g \in Guid : replicas'[s][g] # None =>
              \/ replicas'[s][g] = replicas[s][g]
              \/ replicas'[s][g].latest <= serialized'[g],
           \A c \in calls' : c \in calls \/ (c.event # None => c.event <= serialized'[c.guid]),
           \A s \in Server, t \in Task, g \in Guid :
              tasks'[s][t] # None /\ tasks'[s][t].reply[g] # None =>
              \/ tasks[s][t] # None /\ tasks'[s][t].reply[g] = tasks[s][t].reply[g]
              \/ tasks'[s][t].reply[g].ver <= serialized'[g]
    PROVE  Behind'
<1>1. \A g \in Guid : serialized[g] \in Nat /\ serialized'[g] \in Nat
  BY DEF TypeOK
<1>2. PrimariesBehind'
  <2> SUFFICES ASSUME NEW s \in Server, NEW g \in Guid, primaries'[s][g] # None
               PROVE  primaries'[s][g].ver <= serialized'[g]
    BY DEF PrimariesBehind
  <2>1. CASE primaries'[s][g] = primaries[s][g]
    <3>1. primaries[s][g] \in Primary /\ primaries[s][g].ver <= serialized[g]
      BY <2>1 DEF TypeOK, Behind, PrimariesBehind
    <3>2. primaries[s][g].ver \in Nat
      BY <3>1 DEF Primary
    <3> QED BY <1>1, <2>1, <3>1, <3>2
  <2> QED BY <2>1
<1>3. NeverAhead'
  <2> SUFFICES ASSUME NEW s \in Server, NEW g \in Guid, replicas'[s][g] # None
               PROVE  replicas'[s][g].latest <= serialized'[g]
    BY DEF NeverAhead
  <2>1. CASE replicas'[s][g] = replicas[s][g]
    <3>1. replicas[s][g] \in Replica /\ replicas[s][g].latest <= serialized[g]
      BY <2>1 DEF TypeOK, Behind, NeverAhead
    <3>2. replicas[s][g].latest \in Nat
      BY <3>1 DEF Replica
    <3> QED BY <1>1, <2>1, <3>1, <3>2
  <2> QED BY <2>1
<1>4. CallsBehind'
  <2> SUFFICES ASSUME NEW c \in calls', c.event # None
               PROVE  c.event <= serialized'[c.guid]
    BY DEF CallsBehind
  <2>1. CASE c \in calls
    <3>1. c.event \in Nat /\ c.guid \in Guid
      BY <2>1 DEF TypeOK, UpdateCall
    <3>2. c.event <= serialized[c.guid]
      BY <2>1 DEF Behind, CallsBehind
    <3> QED BY <1>1, <3>1, <3>2
  <2> QED BY <2>1
<1>5. StatesBehind'
  <2> SUFFICES ASSUME NEW s \in Server, NEW t \in Task, NEW g \in Guid,
                      tasks'[s][t] # None, tasks'[s][t].reply[g] # None
               PROVE  tasks'[s][t].reply[g].ver <= serialized'[g]
    BY DEF StatesBehind
  <2>1. CASE tasks[s][t] # None /\ tasks'[s][t].reply[g] = tasks[s][t].reply[g]
    <3>1. tasks[s][t].reply[g] \in Primary
      BY <2>1 DEF TypeOK, TaskState
    <3>2. tasks[s][t].reply[g].ver \in Nat
      BY <3>1 DEF Primary
    <3>3. tasks[s][t].reply[g].ver <= serialized[g]
      BY <2>1 DEF Behind, StatesBehind
    <3> QED BY <1>1, <2>1, <3>2, <3>3
  <2> QED BY <2>1
<1> QED BY <1>2, <1>3, <1>4, <1>5 DEF Behind

\* Nothing is serialized yet, and nobody is ahead.
LEMMA BehindInit == Init => Behind
<1> SUFFICES ASSUME Init PROVE Behind
  OBVIOUS
<1>1. PrimariesBehind /\ NeverAhead
  BY DEF Init, PrimariesBehind, NeverAhead
<1>2. CallsBehind /\ StatesBehind
  BY DEF Init, CallsBehind, StatesBehind
<1> QED BY <1>1, <1>2 DEF Behind

\* An event at the owner: its number is the newest, created objects start at 0.
LEMMA UpdatePrimaryBehind ==
    ASSUME Routing, Routing', Behind, NEW s \in Server, NEW g \in Guid, NEW input \in Input,
           NEW rest \in SUBSET calls, UpdatePrimary(s, g, input, rest)
    PROVE  Behind'
<1> DEFINE n == serialized[g] + 1
           dead == Deleted(g, input)
<1>1. TypeOK /\ TypeOK'
  BY DEF Routing
<1>2. serialized[g] \in Nat /\ n \in Nat
  BY <1>1 DEF TypeOK
<1>3. primaries[s][g] \in Primary
  BY <1>1 DEF UpdatePrimary, TypeOK
<1>4. PICK new \in Created(primaries[s][g], input) :
        /\ primaries' = [primaries EXCEPT ![s] = AfterEvent(s, g, n, input, new)]
        /\ replicas' = [replicas EXCEPT ![s] = Put(@, dead, None)]
        /\ calls' = rest \cup Pushes(s, g, n, input, new)
  BY DEF UpdatePrimary
<1>5. serialized' = [serialized EXCEPT ![g] = n] /\ tasks' = tasks
  BY DEF UpdatePrimary
<1>6. new \subseteq Guid
  BY DEF Created, Fresh
<1>7. \A h \in Guid : serialized[h] <= serialized'[h] /\ serialized'[h] \in Nat
  BY <1>1, <1>2, <1>5 DEF TypeOK
<1>8. serialized'[g] = n
  BY <1>1, <1>5 DEF TypeOK
<1>9. ASSUME NEW p \in Server, NEW h \in Guid, primaries'[p][h] # None
      PROVE  primaries'[p][h] = primaries[p][h] \/ primaries'[p][h].ver <= serialized'[h]
  <2>1. CASE p # s
    BY <1>1, <1>4, <2>1 DEF TypeOK
  <2>2. CASE p = s
    <3>1. primaries'[s][h] = AfterEvent(s, g, n, input, new)[h]
      BY <1>1, <1>4 DEF TypeOK
    <3>2. AfterEvent(s, g, n, input, new)[h] = IF h \in dead THEN None
             ELSE IF h \in new THEN [type |-> "Projectile", ver |-> 0]
             ELSE IF h = g THEN ApplyToPrimary(primaries[s][g], n)
             ELSE primaries[s][h]
      BY <1>1 DEF AfterEvent, Put, TypeOK
    <3>3. ApplyToPrimary(primaries[s][g], n) = primaries[s][g]
          \/ ApplyToPrimary(primaries[s][g], n).ver = n
      BY <1>3 DEF ApplyToPrimary, Primary
    <3>4. n <= n /\ 0 <= serialized'[h]
      BY <1>2, <1>7
    <3>5. CASE h \in new \ dead
      BY <2>2, <3>1, <3>2, <3>4, <3>5
    <3>6. CASE h \notin new /\ h # g
      BY <1>9, <2>2, <3>1, <3>2, <3>6
    <3>7. CASE h \notin new /\ h = g
      BY <1>2, <1>8, <1>9, <2>2, <3>1, <3>2, <3>3, <3>7
    <3> QED BY <1>9, <2>2, <3>1, <3>2, <3>5, <3>6, <3>7
  <2> QED BY <2>1, <2>2
<1>10. \A p \in Server, h \in Guid : replicas'[p][h] # None => replicas'[p][h] = replicas[p][h]
  BY <1>1, <1>4 DEF TypeOK, Put
<1>11. \A c \in calls' : c \in calls \/ (c.event # None => c.event <= serialized'[c.guid])
  <2> SUFFICES ASSUME NEW c \in Pushes(s, g, n, input, new)
               PROVE  c.event <= serialized'[c.guid]
    BY <1>4
  <2>1. c.guid = g /\ c.event = n
    BY <1>1, <1>2, <1>6, PushesRouted
  <2> QED BY <1>2, <1>8, <2>1
<1> QED BY <1>1, <1>5, <1>7, <1>9, <1>10, <1>11, BehindStep

\* A push moves the replica to the event it names; created replicas start at 0.
LEMMA UpdateReplicaBehind ==
    ASSUME Routing, Routing', Behind, NEW c \in calls, UpdateReplica(c, calls \ {c})
    PROVE  Behind'
<1> DEFINE s == c.to
           g == c.guid
           r == replicas[s][g]
           new == IF ProactiveReplication THEN c.created ELSE {}
<1>1. TypeOK /\ TypeOK' /\ OneOwner /\ CallsRouted
  BY DEF Routing
<1>2. s \in Server /\ g \in Guid /\ c.event \in Nat \cup {None}
  BY <1>1 DEF TypeOK, UpdateCall
<1>3. /\ r # None
      /\ replicas' = [replicas EXCEPT ![s] = AfterPush(c)]
      /\ primaries' = [primaries EXCEPT ![s] = Put(@, c.deleted, None)]
      /\ calls' = calls \ {c}
      /\ UNCHANGED <<tasks, serialized>>
  BY DEF UpdateReplica
\* The receiver is not the owner, so this is a push: it has an event number.
<1>4. c.event # None
  BY <1>1, <1>2, <1>3 DEF OneOwner, CallsRouted
<1>5. c.event <= serialized[g]
  BY <1>4 DEF Behind, CallsBehind
<1>6. r \in Replica
  BY <1>1, <1>2, <1>3 DEF TypeOK
<1>7. \A h \in Guid : serialized[h] \in Nat /\ serialized'[h] = serialized[h]
  BY <1>1, <1>3 DEF TypeOK
<1>8. ApplyToReplica(r, c.event) = r \/ ApplyToReplica(r, c.event).latest = c.event
  BY <1>6 DEF ApplyToReplica, Replica
<1>9. ASSUME NEW p \in Server, NEW h \in Guid, replicas'[p][h] # None
      PROVE  replicas'[p][h] = replicas[p][h] \/ replicas'[p][h].latest <= serialized'[h]
  <2>1. CASE p # s
    BY <1>1, <1>3, <2>1 DEF TypeOK
  <2>2. CASE p = s
    <3>1. replicas'[s][h] = AfterPush(c)[h]
      BY <1>1, <1>2, <1>3 DEF TypeOK
    <3>2. AfterPush(c)[h] = IF h \in c.deleted THEN None
             ELSE IF h \in new THEN NewReplica(r.sid, "Projectile", 0)
             ELSE IF h = g THEN ApplyToReplica(r, c.event)
             ELSE replicas[s][h]
      BY <1>1, <1>2 DEF AfterPush, Put, TypeOK
    <3>3. NewReplica(r.sid, "Projectile", 0).latest = 0 /\ 0 <= serialized'[h]
      BY <1>7 DEF NewReplica
    <3>4. CASE h \in new
      <4> HIDE DEF new
      <4> QED BY <1>9, <2>2, <3>1, <3>2, <3>3, <3>4
    <3>5. CASE h \notin new
      <4> HIDE DEF new
      <4> QED BY <1>5, <1>7, <1>8, <1>9, <2>2, <3>1, <3>2, <3>5
    <3> QED BY <3>4, <3>5
  <2> QED BY <2>1, <2>2
<1>10. \A p \in Server, h \in Guid : primaries'[p][h] # None => primaries'[p][h] = primaries[p][h]
  BY <1>1, <1>2, <1>3 DEF TypeOK, Put
<1>11. \A h \in Guid : serialized[h] <= serialized'[h]
  BY <1>7
<1> QED BY <1>1, <1>3, <1>9, <1>10, <1>11, BehindStep

\* A step that stores no event: it may drop replicas, calls, and answers.
LEMMA ForgetBehind ==
    ASSUME Routing, Routing', Behind, UNCHANGED <<primaries, serialized>>,
           \A s \in Server, g \in Guid : replicas'[s][g] # None => replicas'[s][g] = replicas[s][g],
           \A c \in calls' : c \in calls \/ c.event = None,
           AnswersKept
    PROVE  Behind'
<1>1. TypeOK /\ TypeOK'
  BY DEF Routing
<1>2. \A g \in Guid : serialized[g] <= serialized'[g]
  BY <1>1 DEF TypeOK
<1> QED BY <1>1, <1>2, BehindStep DEF AnswersKept

\* An owner answers with what it has.
LEMMA RegisterInterestBehind ==
    ASSUME Routing, Routing', Behind, NEW s \in Server, NEW t \in Task, RegisterInterest(s, t)
    PROVE  Behind'
<1> DEFINE k == tasks[s][t]
           answered == [k EXCEPT !.stage = "reply", !.reply = States(k)]
<1>1. TypeOK /\ TypeOK' /\ TasksRouted
  BY DEF Routing
<1>2. /\ k # None /\ k.stage = "call"
      /\ tasks' = [tasks EXCEPT ![s][t] = answered]
      /\ UNCHANGED <<primaries, replicas, calls, serialized>>
  BY DEF RegisterInterest
<1>3. k \in TaskState /\ k.peer \in Server
  BY <1>1, <1>2 DEF TypeOK, TasksRouted, TaskRouted
<1>4. answered.reply = States(k)
  BY <1>3 DEF TaskState
<1>5. \A g \in Guid : States(k)[g] # None => States(k)[g].ver <= serialized[g]
  BY <1>3 DEF States, Behind, PrimariesBehind
<1> HIDE DEF answered
<1>6. \A p \in Server, u \in Task :
         tasks'[p][u] = IF p = s /\ u = t THEN answered ELSE tasks[p][u]
  BY <1>1, <1>2 DEF TypeOK
<1>7. \A p \in Server, u \in Task, g \in Guid :
         tasks'[p][u] # None /\ tasks'[p][u].reply[g] # None =>
         \/ tasks[p][u] # None /\ tasks'[p][u].reply[g] = tasks[p][u].reply[g]
         \/ tasks'[p][u].reply[g].ver <= serialized'[g]
  BY <1>2, <1>4, <1>5, <1>6
<1>8. \A g \in Guid : serialized[g] <= serialized'[g]
  BY <1>1, <1>2 DEF TypeOK
<1> QED BY <1>1, <1>2, <1>7, <1>8, BehindStep

\* An answer is stored over whatever is there: older perhaps, but not ahead.
LEMMA ReceiveStatesBehind ==
    ASSUME Routing, Routing', Behind, NEW s \in Server, NEW t \in Task, ReceiveStates(s, t)
    PROVE  Behind'
<1> DEFINE k == tasks[s][t]
<1>1. TypeOK /\ TypeOK'
  BY DEF Routing
<1>2. /\ k # None
      /\ replicas' = IF k.renewal THEN replicas
                     ELSE [replicas EXCEPT ![s] = Installed(s, k)]
      /\ tasks' = [tasks EXCEPT ![s][t] = Continue(k, k.peer)]
      /\ UNCHANGED <<primaries, calls, serialized>>
  BY DEF ReceiveStates
<1>3. \A g \in Guid : Installed(s, k)[g] = replicas[s][g]
                      \/ Installed(s, k)[g].latest <= serialized[g]
  BY <1>2 DEF Installed, NewReplica, Behind, StatesBehind
<1>4. \A p \in Server, g \in Guid : replicas'[p][g] = replicas[p][g]
                                   \/ replicas'[p][g].latest <= serialized'[g]
  BY <1>1, <1>2, <1>3 DEF TypeOK
<1>5. AnswersKept
  BY <1>1, AnswersKeptInLoop
<1>6. \A g \in Guid : serialized[g] <= serialized'[g]
  BY <1>1, <1>2 DEF TypeOK
<1> QED BY <1>1, <1>2, <1>4, <1>5, <1>6, BehindStep DEF AnswersKept

\* Spawning, inputs and pushes: nobody gets ahead of the owner.
LEMMA ObjectStepBehind == ASSUME Routing, Routing', Behind, ObjectStep PROVE Behind'
<1>1. TypeOK /\ OneOwner
  BY DEF Routing
<1>2. CASE \E s, p \in Server : ConnectToPeer(s, p)
  BY <1>2, ForgetBehind DEF ConnectToPeer, AnswersKept
<1>3. CASE \E s \in Server, g \in Guid, type \in Type : Spawn(s, g, type)
  <2>1. PICK s \in Server, g \in Guid, type \in Type : Spawn(s, g, type)
    BY <1>3
  <2>2. /\ primaries' = [primaries EXCEPT ![s][g] = [type |-> type, ver |-> 0]]
        /\ UNCHANGED <<replicas, tasks, calls, serialized>>
    BY <2>1 DEF Spawn
  <2>3. TypeOK' /\ \A h \in Guid : serialized[h] \in Nat
    BY <1>1 DEF Routing, TypeOK
  <2>4. \A p \in Server, h \in Guid : primaries'[p][h] = primaries[p][h]
                                     \/ primaries'[p][h].ver = 0
    BY <1>1, <2>2 DEF TypeOK
  <2>5. \A h \in Guid : 0 <= serialized'[h] /\ serialized[h] <= serialized'[h]
    BY <2>2, <2>3
  <2> QED BY <1>1, <2>2, <2>3, <2>4, <2>5, BehindStep
<1>4. CASE \E s \in Server, g \in Guid, input \in Input : AdvanceGameState(s, g, input)
  <2>1. PICK s \in Server, g \in Guid, input \in Input : AdvanceGameState(s, g, input)
    BY <1>4
  <2>2. CASE UpdatePrimary(s, g, input, calls)
    BY <2>2, UpdatePrimaryBehind
  <2>3. CASE ForwardUpdate(s, g, input)
    <3>1. ForwardedCall(s, g, input).event = None
      BY DEF ForwardedCall
    <3>2. /\ calls' = calls \cup {ForwardedCall(s, g, input)}
          /\ UNCHANGED <<primaries, replicas, tasks, serialized>>
      BY <2>3 DEF ForwardUpdate
    <3> QED BY <3>1, <3>2, ForgetBehind DEF AnswersKept
  <2> QED BY <2>1, <2>2, <2>3 DEF AdvanceGameState
<1>5. CASE \E g \in Guid, input \in Input : ClientUpdate(g, input)
  <2>1. PICK g \in Guid, input \in Input : ClientUpdate(g, input)
    BY <1>5
  <2>2. origin[g].server \in Server
    BY <1>1, <2>1 DEF ClientUpdate, TypeOK, Origin
  <2>3. CASE UpdatePrimary(origin[g].server, g, input, calls)
    BY <2>2, <2>3, UpdatePrimaryBehind
  <2>4. CASE UpdateUnknown(ClientCall(origin[g].server, g, input), calls)
    BY <2>4, ForgetBehind DEF AnswersKept, UpdateUnknown
  <2> QED BY <1>1, <2>1, <2>3, <2>4, ClientReachesOwner
<1>6. CASE \E c \in calls : ReceiveUpdate(c) \/ UpdateFails(c)
  <2>1. PICK c \in calls : ReceiveUpdate(c) \/ UpdateFails(c)
    BY <1>6
  <2>2. c.to \in Server /\ c.guid \in Guid /\ c.input \in Input /\ calls \ {c} \in SUBSET calls
    BY <1>1 DEF TypeOK, UpdateCall
  <2>3. CASE UpdatePrimary(c.to, c.guid, c.input, calls \ {c})
    BY <2>2, <2>3, UpdatePrimaryBehind
  <2>4. CASE UpdateReplica(c, calls \ {c})
    BY <2>4, UpdateReplicaBehind
  <2>5. CASE UpdateUnknown(c, calls \ {c}) \/ UpdateFails(c)
    BY <2>5, ForgetBehind DEF AnswersKept, UpdateUnknown, UpdateFails
  <2> QED BY <2>1, <2>3, <2>4, <2>5 DEF ReceiveUpdate, Update
<1> QED BY <1>2, <1>3, <1>4, <1>5, <1>6 DEF ObjectStep

\* Snapshots: they are of what the owner had serialized.
LEMMA InterestStepBehind == ASSUME Routing, Routing', Behind, InterestStep PROVE Behind'
<1>1. TypeOK
  BY DEF Routing
<1>2. ASSUME NEW s \in Server, NEW t \in Task, NEW matches \in SUBSET Published,
             NotifySubscriber(s, t, matches)
      PROVE  Behind'
  <2>1. AnswersKept
    BY <1>1, <1>2, AnswersKeptInLoop
  <2> QED BY <1>2, <2>1, ForgetBehind DEF NotifySubscriber
<1>3. ASSUME NEW s \in Server, NEW t \in Task, NEW keep \in SUBSET Guid,
             CleanupLoop(s, t, keep)
      PROVE  Behind'
  <2>1. AnswersKept
    BY <1>1, <1>3, AnswersKeptInLoop
  <2>2. /\ replicas' = [replicas EXCEPT ![s] = Put(@, Guid \ keep, None)]
        /\ UNCHANGED <<primaries, calls, serialized>>
    BY <1>3 DEF CleanupLoop
  <2>3. \A p \in Server, g \in Guid : replicas'[p][g] # None => replicas'[p][g] = replicas[p][g]
    BY <1>1, <2>2 DEF Put, TypeOK
  <2> QED BY <2>1, <2>2, <2>3, ForgetBehind
<1>4. ASSUME NEW s \in Server, NEW t \in Task, NEW p \in Server, CallPeer(s, t, p)
      PROVE  Behind'
  <2>1. AnswersKept
    BY <1>1, <1>4, AnswersKeptByCall
  <2>2. UNCHANGED <<primaries, replicas, calls, serialized>>
    BY <1>4 DEF CallPeer
  <2> QED BY <2>1, <2>2, ForgetBehind
<1>5. ASSUME NEW s \in Server, NEW t \in Task, RegisterFails(s, t)
      PROVE  Behind'
  <2>1. AnswersKept
    BY <1>1, <1>5, AnswersKeptInLoop
  <2> QED BY <1>5, <2>1, ForgetBehind DEF RegisterFails
<1> QED BY <1>2, <1>3, <1>4, <1>5, RegisterInterestBehind, ReceiveStatesBehind
        DEF InterestStep

\* Every step preserves the second layer.
LEMMA BehindNext == Routing /\ Routing' /\ Behind /\ [Next]_vars => Behind'
<1> SUFFICES ASSUME Routing, Routing', Behind, [Next]_vars PROVE Behind'
  OBVIOUS
<1>1. CASE ObjectStep
  BY <1>1, ObjectStepBehind
<1>2. CASE InterestStep
  BY <1>2, InterestStepBehind
<1>3. CASE Tick
  BY <1>3, ForgetBehind DEF AnswersKept, Tick
<1>4. CASE UNCHANGED vars
  BY <1>4, ForgetBehind DEF AnswersKept, vars
<1> QED BY <1>1, <1>2, <1>3, <1>4 DEF Next

\* Nothing in flight or stored is ahead of the owner.
LEMMA BehindHolds == Spec => []Behind
BY RoutingHolds, BehindInit, BehindNext, PTL DEF Spec

\* A replica's latest event is one the owner serialized, whatever overtakes what: a
\* server that forwards an input never applies it before the owner did.
THEOREM NeverAheadHolds == Spec => []NeverAhead
<1>1. Behind => NeverAhead
  BY DEF Behind
<1> QED BY <1>1, BehindHolds, PTL

-----------------------------------------------------------------------------
(***************************************************************************)
(* Who made what.                                                          *)
(***************************************************************************)

Shots == OriginsKnown /\ OneProjectilePerShot

\* A spawned object has no parent, and nobody's parent is unknown.
LEMMA SpawnShots ==
    ASSUME Routing, Shots, NEW s \in Server, NEW g \in Guid, NEW type \in Type,
           Spawn(s, g, type)
    PROVE  Shots'
<1> DEFINE o == [server |-> s, parent |-> None, event |-> 0]
<1>1. TypeOK /\ OriginsKnown /\ OneProjectilePerShot
  BY DEF Routing, Shots
<1>2. origin' = [origin EXCEPT ![g] = o] /\ serialized' = serialized /\ origin[g] = None
  BY DEF Spawn, Fresh
<1>3. o \in Origin /\ o # None /\ o.parent = None
  BY ColyseusAssumption DEF Origin
<1> HIDE DEF o
<1>4. \A h \in Guid : origin'[h] = IF h = g THEN o ELSE origin[h]
  BY <1>1, <1>2 DEF TypeOK
<1>5. \A h \in Guid : origin[h] # None /\ origin[h].parent # None =>
         origin[h].parent \in Guid /\ origin[h].parent # g
  BY <1>1, <1>2 DEF TypeOK, Origin, OriginsKnown
<1>6. OriginsKnown'
  BY <1>1, <1>2, <1>3, <1>4, <1>5 DEF OriginsKnown
<1>7. OneProjectilePerShot'
  BY <1>1, <1>2, <1>3, <1>4, <1>5 DEF OneProjectilePerShot
<1> QED BY <1>6, <1>7 DEF Shots

\* The event that creates an object is newer than all that created others.
LEMMA UpdatePrimaryShots ==
    ASSUME Routing, Shots, NEW s \in Server, NEW g \in Guid, NEW input, NEW rest,
           UpdatePrimary(s, g, input, rest)
    PROVE  Shots'
<1> DEFINE n == serialized[g] + 1
           o == [server |-> s, parent |-> g, event |-> n]
<1>1. TypeOK /\ OneOwner /\ OriginsKnown /\ OneProjectilePerShot
  BY DEF Routing, Shots
<1>2. PICK new \in Created(primaries[s][g], input) :
        origin' = Put(origin, new, o)
  BY DEF UpdatePrimary
<1>3. serialized' = [serialized EXCEPT ![g] = n] /\ primaries[s][g] # None
  BY DEF UpdatePrimary
<1>4. /\ new \subseteq Guid
      /\ \A h \in new : origin[h] = None
      /\ \A h, i \in new : h = i
  BY DEF Created, Fresh
<1>5. origin[g] # None /\ origin[g].server = s
  BY <1>1, <1>3 DEF OneOwner
<1>6. serialized[g] \in Nat /\ n \in Nat /\ ~(n <= serialized[g])
  BY <1>1 DEF TypeOK
<1>7. o \in Origin /\ o # None /\ o.server = s /\ o.parent = g /\ o.event = n
  BY <1>6, ColyseusAssumption DEF Origin
<1>8. g # None
  BY ColyseusAssumption
<1> HIDE DEF o, n
<1>9. \A h \in Guid : origin'[h] = IF h \in new THEN o ELSE origin[h]
  BY <1>2 DEF Put
<1>10. \A h \in Guid : serialized'[h] = IF h = g THEN n ELSE serialized[h]
  BY <1>1, <1>3 DEF TypeOK
<1>11. \A h \in Guid : origin[h] # None /\ origin[h].parent # None =>
          /\ origin[h].parent \in Guid \ new
          /\ origin[h].event <= serialized[origin[h].parent]
          /\ origin[h].event \in Nat
  BY <1>1, <1>4 DEF TypeOK, Origin, OriginsKnown
<1>12. g \notin new
  BY <1>4, <1>5
<1>13. OriginsKnown'
  <2> SUFFICES ASSUME NEW h \in Guid
               PROVE  /\ origin'[h] = None => serialized'[h] = 0
                      /\ origin'[h] # None /\ origin'[h].parent # None =>
                           /\ origin'[origin'[h].parent] # None
                           /\ origin'[h].event <= serialized'[origin'[h].parent]
    BY DEF OriginsKnown
  <2>1. origin'[h] = None => serialized'[h] = 0
    BY <1>1, <1>5, <1>7, <1>9, <1>10 DEF OriginsKnown
  <2>2. CASE h \in new
    <3>1. origin'[h] = o /\ origin'[g] = origin[g] /\ serialized'[g] = n
      BY <1>9, <1>10, <1>12, <2>2
    <3>2. n <= n
      BY <1>6
    <3> QED BY <1>5, <1>7, <2>1, <3>1, <3>2
  <2>3. CASE h \notin new
    <3>1. origin'[h] = origin[h]
      BY <1>9, <2>3
    <3> SUFFICES ASSUME origin[h] # None, origin[h].parent # None
                 PROVE  /\ origin'[origin[h].parent] # None
                        /\ origin[h].event <= serialized'[origin[h].parent]
      BY <2>1, <3>1
    <3>2. origin[origin[h].parent] # None
      BY <1>1 DEF OriginsKnown
    <3>3. origin'[origin[h].parent] # None
      BY <1>9, <1>11, <3>2
    <3>4. n = serialized[g] + 1
      BY DEF n
    <3>5. origin[h].event <= serialized'[origin[h].parent]
      BY <1>6, <1>10, <1>11, <3>4
    <3> QED BY <3>3, <3>5
  <2> QED BY <2>2, <2>3
<1>14. OneProjectilePerShot'
  <2> SUFFICES ASSUME NEW h \in Guid, origin'[h] # None, origin'[h].parent # None
               PROVE  /\ origin'[h].server = origin'[origin'[h].parent].server
                      /\ \A i \in Guid : origin'[i] = origin'[h] => i = h
    BY DEF OneProjectilePerShot
  <2>1. \A i \in Guid \ new : origin[i] # o
    BY <1>6, <1>7, <1>8, <1>11
  <2>2. CASE h \in new
    <3>1. origin'[h] = o /\ origin'[g] = origin[g]
      BY <1>9, <1>12, <2>2
    <3>2. \A i \in Guid : origin'[i] = o => i = h
      BY <1>4, <1>9, <2>1, <2>2
    <3> QED BY <1>5, <1>7, <3>1, <3>2
  <2>3. CASE h \notin new
    <3>1. origin'[h] = origin[h] /\ origin[h] # o
      BY <1>9, <2>1, <2>3
    <3>2. origin'[origin[h].parent] = origin[origin[h].parent]
      BY <1>9, <1>11, <3>1
    <3>3. \A i \in Guid : origin'[i] = origin[h] => i = h
      BY <1>1, <1>9, <3>1 DEF OneProjectilePerShot
    <3> QED BY <1>1, <3>1, <3>2, <3>3 DEF OneProjectilePerShot
  <2> QED BY <2>2, <2>3
<1> QED BY <1>13, <1>14 DEF Shots

\* No other step spawns anything or counts up.
LEMMA ShotsNext == Routing /\ Shots /\ [Next]_vars => Shots'
<1> SUFFICES ASSUME Routing, Shots, [Next]_vars PROVE Shots'
  OBVIOUS
<1>1. CASE UNCHANGED <<origin, serialized>>
  BY <1>1 DEF Shots, OriginsKnown, OneProjectilePerShot
<1>2. CASE ObjectStep
  <2>1. CASE \E g \in Guid, input \in Input : ClientUpdate(g, input)
    <3>1. PICK g \in Guid, input \in Input : ClientUpdate(g, input)
      BY <2>1
    <3>2. origin[g].server \in Server
      BY <3>1 DEF ClientUpdate, Routing, TypeOK, Origin
    <3>3. UpdatePrimary(origin[g].server, g, input, calls) \/ UNCHANGED <<origin, serialized>>
      BY <3>1, ClientReachesOwner DEF Routing, UpdateUnknown
    <3> QED BY <1>1, <3>2, <3>3, UpdatePrimaryShots
  <2>2. CASE \E c \in calls : ReceiveUpdate(c) \/ UpdateFails(c)
    <3>1. PICK c \in calls : ReceiveUpdate(c) \/ UpdateFails(c)
      BY <2>2
    <3>2. c.to \in Server /\ c.guid \in Guid
      BY <3>1 DEF Routing, TypeOK, UpdateCall
    <3>3. \/ UpdatePrimary(c.to, c.guid, c.input, calls \ {c})
          \/ UNCHANGED <<origin, serialized>>
      BY <3>1 DEF ReceiveUpdate, Update, UpdateReplica, UpdateUnknown, UpdateFails
    <3> QED BY <1>1, <3>2, <3>3, UpdatePrimaryShots
  <2>3. CASE \E s \in Server, g \in Guid, input \in Input : AdvanceGameState(s, g, input)
    BY <1>1, <2>3, UpdatePrimaryShots DEF AdvanceGameState, ForwardUpdate
  <2>4. CASE \E s, p \in Server : ConnectToPeer(s, p)
    BY <1>1, <2>4 DEF ConnectToPeer
  <2> QED BY <1>2, <2>1, <2>2, <2>3, <2>4, SpawnShots DEF ObjectStep
<1>3. CASE InterestStep
  BY <1>1, <1>3 DEF InterestStep, NotifySubscriber, CleanupLoop, CallPeer,
                    RegisterInterest, ReceiveStates, RegisterFails
<1>4. CASE Tick
  BY <1>1, <1>4 DEF Tick
<1> QED BY <1>1, <1>2, <1>3, <1>4 DEF Next, vars

\* Every object has the origin it was made with, and one projectile per shot.
LEMMA OriginsHold == Spec => []Shots
<1>1. Init => Shots
  BY DEF Init, Shots, OriginsKnown, OneProjectilePerShot
<1> QED BY <1>1, RoutingHolds, ShotsNext, PTL DEF Spec

\* A shot creates one projectile, on the shooter's server, although every replica of
\* the shooter applies the shot too and a second marker pushes it there twice.
THEOREM ShotsHold == Spec => []OneProjectilePerShot
<1>1. Shots => OneProjectilePerShot
  BY DEF Shots
<1> QED BY <1>1, OriginsHold, PTL

-----------------------------------------------------------------------------
(***************************************************************************)
(* Third layer: the owner has a marker for every replica of a              *)
(* living object, the proactively stored newborn excepted, and a replica   *)
(* disappears only in its own server's cleanup or once the object is dead. *)
(***************************************************************************)

Registration == CallsCurrent /\ StatesCurrent /\ UnregisteredIsNewborn

\* What a step must leave as it was for every spawned object: who made it, that
\* the dead stay dead, and that the living keep their markers.
Lasting ==
    \A g \in Guid : origin[g] # None =>
       /\ origin'[g] = origin[g]
       /\ Live(g)' => Live(g)
       /\ \A s \in Server : Live(g)' /\ Registered(s, g) => Registered(s, g)'

\* A step that adds at most inputs to the calls, and no replicas.
NoPushAdded ==
    \A c \in calls' : c \in calls \/ (c.event = None /\ c.created = {} /\ c.deleted = {})

NoReplicaAdded ==
    \A s \in Server, g \in Guid : replicas'[s][g] # None => replicas'[s][g] = replicas[s][g]

-----------------------------------------------------------------------------
(***************************************************************************)
(* Registration is inductive.                                              *)
(***************************************************************************)

\* Beyond Lasting, a step answers for the calls, answers and replicas it adds.
LEMMA RegistrationStep ==
    ASSUME Routing, OriginsKnown, Registration, Lasting,
           \A c \in calls' : c \in calls \/
              /\ c.event # None /\ Live(c.guid)' => Registered(c.to, c.guid)'
              /\ c.created # {} => ProactiveReplication
              /\ \A h \in c.created : origin'[h].parent = c.guid
              /\ c.deleted # {} => ~Live(c.guid)',
           \A s \in Server, t \in Task, g \in Guid :
              tasks'[s][t] # None /\ tasks'[s][t].reply[g] # None =>
              \/ tasks[s][t] # None /\ tasks[s][t].reply[g] # None
              \/ Registered(s, g)',
           \A s \in Server, g \in Guid : replicas'[s][g] # None =>
              \/ replicas'[s][g] = replicas[s][g]
              \/ Live(g)' => Registered(s, g)'
              \/ /\ ProactiveReplication
                 /\ replicas'[s][g].latest = 0
                 /\ origin'[g].parent # None
                 /\ (Live(origin[g].parent) => Registered(s, origin[g].parent))'
    PROVE  Registration'
<1>1. TypeOK /\ OneOwner /\ CallsRouted /\ TasksRouted
  BY DEF Routing
<1>2. CallsCurrent /\ StatesCurrent /\ UnregisteredIsNewborn
  BY DEF Registration
<1>3. CallsCurrent'
  <2> SUFFICES ASSUME NEW c \in calls'
               PROVE  /\ c.event # None /\ Live(c.guid)' => Registered(c.to, c.guid)'
                      /\ c.created # {} => ProactiveReplication
                      /\ \A h \in c.created : origin'[h].parent = c.guid
                      /\ c.deleted # {} => ~Live(c.guid)'
    BY DEF CallsCurrent
  <2>1. CASE c \in calls
    <3>1. /\ c.guid \in Guid /\ c.to \in Server /\ c.created \subseteq Guid
          /\ origin[c.guid] # None
          /\ \A h \in c.created : origin[h] # None
      BY <1>1, <2>1 DEF TypeOK, UpdateCall, CallsRouted
    <3>2. /\ c.event # None /\ Live(c.guid) => Registered(c.to, c.guid)
          /\ c.created # {} => ProactiveReplication
          /\ \A h \in c.created : origin[h].parent = c.guid
          /\ c.deleted # {} => ~Live(c.guid)
      BY <1>2, <2>1 DEF CallsCurrent
    <3> QED BY <3>1, <3>2 DEF Lasting
  <2> QED BY <2>1
<1>4. StatesCurrent'
  <2> SUFFICES ASSUME NEW s \in Server, NEW t \in Task, NEW g \in Guid,
                      tasks'[s][t] # None, tasks'[s][t].reply[g] # None, Live(g)'
               PROVE  Registered(s, g)'
    BY DEF StatesCurrent
  <2>1. CASE tasks[s][t] # None /\ tasks[s][t].reply[g] # None
    <3>1. TaskRouted(s, tasks[s][t]) /\ tasks[s][t] \in TaskState
      BY <1>1, <2>1 DEF TasksRouted, TypeOK
    <3>2. g \in tasks[s][t].need[tasks[s][t].peer] /\ tasks[s][t].peer \in Server
      BY <2>1, <3>1 DEF TaskRouted
    <3>3. origin[g] # None
      BY <3>1, <3>2 DEF TaskRouted
    <3> QED BY <1>2, <2>1, <3>3 DEF Lasting, StatesCurrent
  <2> QED BY <2>1
<1>5. UnregisteredIsNewborn'
  <2> SUFFICES ASSUME NEW s \in Server, NEW g \in Guid,
                      replicas'[s][g] # None, Live(g)', ~Registered(s, g)'
               PROVE  /\ ProactiveReplication
                      /\ replicas'[s][g].latest = 0
                      /\ origin'[g].parent # None
                      /\ (Live(origin[g].parent) => Registered(s, origin[g].parent))'
    BY DEF UnregisteredIsNewborn
  <2>1. CASE replicas'[s][g] = replicas[s][g]
    <3>1. origin[g] # None
      BY <1>1, <2>1 DEF OneOwner
    <3>2. origin'[g] = origin[g] /\ Live(g) /\ ~Registered(s, g)
      BY <3>1 DEF Lasting
    <3>3. /\ ProactiveReplication
          /\ replicas[s][g].latest = 0
          /\ origin[g].parent # None
          /\ Live(origin[g].parent) => Registered(s, origin[g].parent)
      BY <1>2, <2>1, <3>2 DEF UnregisteredIsNewborn
    <3>4. PICK q \in Guid : q = origin[g].parent /\ origin[q] # None
      BY <1>1, <3>1, <3>3 DEF TypeOK, Origin, OriginsKnown
    <3>5. Live(q)' => Registered(s, q)'
      BY <3>3, <3>4 DEF Lasting
    <3>6. (Live(origin[g].parent) => Registered(s, origin[g].parent))'
      BY <3>2, <3>4, <3>5 DEF Live, Registered
    <3> QED BY <2>1, <3>2, <3>3, <3>6
  <2> QED BY <2>1
<1> QED BY <1>3, <1>4, <1>5 DEF Registration

\* Nothing is pushed yet, and nobody registered.
LEMMA RegistrationInit == Init => Registration
<1> SUFFICES ASSUME Init PROVE Registration
  OBVIOUS
<1>1. CallsCurrent /\ StatesCurrent
  BY DEF Init, CallsCurrent, StatesCurrent
<1>2. UnregisteredIsNewborn
  BY DEF Init, UnregisteredIsNewborn
<1> QED BY <1>1, <1>2 DEF Registration

\* A step that touches neither owners' tables nor markers.
LEMMA LastingWhenUnchanged ==
    ASSUME UNCHANGED <<primaries, interest, origin>>
    PROVE  Lasting
BY DEF Lasting, Live, Registered

\* An event at the owner drops the markers of what dies, and of nothing else.
LEMMA UpdatePrimaryLasting ==
    ASSUME Routing, NEW s \in Server, NEW g \in Guid, NEW input, NEW rest,
           UpdatePrimary(s, g, input, rest)
    PROVE  Lasting
<1> DEFINE n == serialized[g] + 1
           dead == Deleted(g, input)
<1>1. TypeOK /\ OneOwner
  BY DEF Routing
<1>2. PICK new \in Created(primaries[s][g], input) :
        /\ primaries' = [primaries EXCEPT ![s] = AfterEvent(s, g, n, input, new)]
        /\ interest' = [interest EXCEPT ![s] = Put(@, new \cup dead, <<>>)]
        /\ origin' = Put(origin, new, [server |-> s, parent |-> g, event |-> n])
  BY DEF UpdatePrimary
<1>3. primaries[s][g] # None /\ dead \subseteq {g}
  BY DEF UpdatePrimary, Deleted
<1>4. \A h \in new : origin[h] = None
  BY DEF Created, Fresh
<1> SUFFICES ASSUME NEW h \in Guid, origin[h] # None
             PROVE  /\ origin'[h] = origin[h]
                    /\ Live(h)' => Live(h)
                    /\ \A p \in Server : Live(h)' /\ Registered(p, h) => Registered(p, h)'
  BY DEF Lasting
<1>5. h \notin new /\ origin'[h] = origin[h]
  BY <1>2, <1>4 DEF Put
<1>6. AfterEvent(s, g, n, input, new)[h] =
         IF h \in dead THEN None
         ELSE IF h = g THEN ApplyToPrimary(primaries[s][g], n) ELSE primaries[s][h]
  BY <1>1, <1>5 DEF AfterEvent, Put, TypeOK
<1>7. origin[h].server \in Server
  BY <1>1 DEF TypeOK, Origin
<1>8. Live(h)' => Live(h)
  <2>1. CASE origin[h].server = s
    <3>1. primaries'[s][h] = AfterEvent(s, g, n, input, new)[h]
      BY <1>1, <1>2 DEF TypeOK
    <3> QED BY <1>3, <1>5, <1>6, <2>1, <3>1 DEF Live
  <2>2. CASE origin[h].server # s
    <3>1. primaries'[origin[h].server] = primaries[origin[h].server]
      BY <1>1, <1>2, <1>7, <2>2 DEF TypeOK
    <3> QED BY <1>5, <3>1 DEF Live
  <2> QED BY <2>1, <2>2
<1>9. Live(h)' => interest'[origin[h].server][h] = interest[origin[h].server][h]
  <2>1. CASE origin[h].server = s
    <3>1. primaries'[s][h] = AfterEvent(s, g, n, input, new)[h]
      BY <1>1, <1>2 DEF TypeOK
    <3>2. Live(h)' => h \notin dead
      BY <1>5, <1>6, <2>1, <3>1 DEF Live
    <3> QED BY <1>1, <1>2, <1>5, <2>1, <3>2 DEF TypeOK, Put
  <2>2. CASE origin[h].server # s
    BY <1>1, <1>2, <1>7, <2>2 DEF TypeOK
  <2> QED BY <2>1, <2>2
<1>10. \A p \in Server : Live(h)' /\ Registered(p, h) => Registered(p, h)'
  BY <1>5, <1>9 DEF Registered
<1> QED BY <1>5, <1>8, <1>10

\* Pushes go to registered servers, with what was made and whether it died.
LEMMA PushesRegistered ==
    ASSUME TypeOK, NEW s \in Server, NEW g \in Guid, NEW n, NEW input,
           NEW new, NEW c \in Pushes(s, g, n, input, new),
           origin[g].server = s
    PROVE  /\ Registered(c.to, g)
           /\ c.guid = g
           /\ c.created = IF ProactiveReplication THEN new ELSE {}
           /\ c.deleted = Deleted(g, input)
<1>1. PICK i \in LiveMarkers(s, g) :
        c = [from |-> s, to |-> interest[s][g][i].sid, guid |-> g, event |-> n,
             input |-> input, created |-> IF ProactiveReplication THEN new ELSE {},
             deleted |-> Deleted(g, input), marker |-> i]
  BY DEF Pushes
<1>2. i \in DOMAIN interest[s][g] /\ c.to = interest[s][g][i].sid
  BY <1>1 DEF LiveMarkers
<1> QED BY <1>1, <1>2 DEF Registered

\* The owner pushes to those registered at that time, and forgets them only with the object.
LEMMA UpdatePrimaryRegistration ==
    ASSUME Routing, OriginsKnown, Registration, NEW s \in Server, NEW g \in Guid, NEW input,
           NEW rest \in SUBSET calls, UpdatePrimary(s, g, input, rest)
    PROVE  Registration'
<1> DEFINE n == serialized[g] + 1
           dead == Deleted(g, input)
<1>1. TypeOK /\ OneOwner
  BY DEF Routing
<1>2. PICK new \in Created(primaries[s][g], input) :
        /\ primaries' = [primaries EXCEPT ![s] = AfterEvent(s, g, n, input, new)]
        /\ replicas' = [replicas EXCEPT ![s] = Put(@, dead, None)]
        /\ origin' = Put(origin, new, [server |-> s, parent |-> g, event |-> n])
        /\ calls' = rest \cup Pushes(s, g, n, input, new)
        /\ tasks' = tasks
  BY DEF UpdatePrimary
<1>3. Lasting
  BY UpdatePrimaryLasting
<1>4. origin[g] # None /\ origin[g].server = s
  BY <1>1 DEF UpdatePrimary, OneOwner
<1>5. new \subseteq Guid
  BY DEF Created, Fresh
<1>6. \A c \in calls' : c \in calls \/
         /\ c.event # None /\ Live(c.guid)' => Registered(c.to, c.guid)'
         /\ c.created # {} => ProactiveReplication
         /\ \A h \in c.created : origin'[h].parent = c.guid
         /\ c.deleted # {} => ~Live(c.guid)'
  <2> SUFFICES ASSUME NEW c \in Pushes(s, g, n, input, new)
               PROVE  /\ Live(c.guid)' => Registered(c.to, c.guid)'
                      /\ c.created # {} => ProactiveReplication
                      /\ \A h \in c.created : origin'[h].parent = c.guid
                      /\ c.deleted # {} => ~Live(c.guid)'
    BY <1>2
  <2>1. /\ Registered(c.to, g) /\ c.guid = g
        /\ c.created = IF ProactiveReplication THEN new ELSE {}
        /\ c.deleted = dead
    BY <1>1, <1>4, PushesRegistered
  <2>2. c.to \in Server
    <3>1. PICK i \in LiveMarkers(s, g) : c.to = interest[s][g][i].sid
      BY DEF Pushes
    <3>2. interest[s][g] \in Seq(Marker) /\ i \in DOMAIN interest[s][g]
      BY <1>1 DEF TypeOK, LiveMarkers
    <3>3. interest[s][g][i] \in Marker
      BY <3>2
    <3> QED BY <3>1, <3>3 DEF Marker
  <2>3. Live(g)' => Registered(c.to, g)'
    BY <1>3, <1>4, <2>1, <2>2 DEF Lasting
  <2>4. \A h \in c.created : origin'[h].parent = g
    BY <1>2, <1>5, <2>1 DEF Put
  <2>5. dead # {} => ~Live(g)'
    <3>1. dead # {} => AfterEvent(s, g, n, input, new)[g] = None
      BY DEF Deleted, AfterEvent, Put
    <3>2. primaries'[s][g] = AfterEvent(s, g, n, input, new)[g]
      BY <1>1, <1>2 DEF TypeOK
    <3>3. origin'[g] = origin[g]
      BY <1>3, <1>4 DEF Lasting
    <3> QED BY <1>4, <3>1, <3>2, <3>3 DEF Live
  <2> QED BY <2>1, <2>3, <2>4, <2>5
<1>7. \A p \in Server, h \in Guid : replicas'[p][h] # None => replicas'[p][h] = replicas[p][h]
  BY <1>1, <1>2 DEF TypeOK, Put
<1> QED BY <1>2, <1>3, <1>6, <1>7, RegistrationStep

\* A push deletes at its receiver, which is not the owner.
LEMMA UpdateReplicaLasting ==
    ASSUME Routing, NEW c \in calls, UpdateReplica(c, calls \ {c})
    PROVE  Lasting
<1> DEFINE s == c.to
           g == c.guid
<1>1. TypeOK /\ OneOwner /\ CallsRouted
  BY DEF Routing
<1>2. s \in Server /\ g \in Guid /\ c.deleted \subseteq {g}
  BY <1>1 DEF TypeOK, UpdateCall, CallsRouted
<1>3. /\ replicas[s][g] # None
      /\ primaries' = [primaries EXCEPT ![s] = Put(@, c.deleted, None)]
      /\ interest' = [interest EXCEPT ![s] = Put(@, c.deleted, <<>>)]
      /\ origin' = origin
  BY DEF UpdateReplica
<1>4. origin[g].server # s
  BY <1>1, <1>2, <1>3 DEF OneOwner
<1>5. ASSUME NEW h \in Guid, origin[h] # None
      PROVE  /\ primaries'[origin[h].server][h] = primaries[origin[h].server][h]
             /\ interest'[origin[h].server][h] = interest[origin[h].server][h]
  <2>1. origin[h].server \in Server
    BY <1>1, <1>5 DEF TypeOK, Origin
  <2>2. CASE origin[h].server # s
    BY <1>1, <1>3, <2>1, <2>2 DEF TypeOK
  <2>3. CASE origin[h].server = s
    <3>1. h \notin c.deleted
      BY <1>2, <1>4, <2>3
    <3>2. primaries'[s] = Put(primaries[s], c.deleted, None)
      BY <1>1, <1>2, <1>3 DEF TypeOK
    <3>3. interest'[s] = Put(interest[s], c.deleted, <<>>)
      BY <1>1, <1>2, <1>3 DEF TypeOK
    <3> QED BY <2>3, <3>1, <3>2, <3>3 DEF Put
  <2> QED BY <2>2, <2>3
<1> QED BY <1>3, <1>5 DEF Lasting, Live, Registered

\* A push reaches a registered server, or the object is dead.
LEMMA UpdateReplicaRegistration ==
    ASSUME Routing, OriginsKnown, Registration, NEW c \in calls, UpdateReplica(c, calls \ {c})
    PROVE  Registration'
<1> DEFINE s == c.to
           g == c.guid
           r == replicas[s][g]
           new == IF ProactiveReplication THEN c.created ELSE {}
<1>1. TypeOK /\ OneOwner /\ CallsRouted /\ CallsCurrent
  BY DEF Routing, Registration
<1>2. s \in Server /\ g \in Guid
  BY <1>1 DEF TypeOK, UpdateCall
<1>3. /\ r # None
      /\ replicas' = [replicas EXCEPT ![s] = AfterPush(c)]
      /\ calls' = calls \ {c}
      /\ tasks' = tasks /\ origin' = origin
  BY DEF UpdateReplica
<1>4. Lasting
  BY UpdateReplicaLasting
<1>5. c.event # None /\ origin[g] # None
  BY <1>1, <1>2, <1>3 DEF OneOwner, CallsRouted
<1>6. Live(g) => Registered(s, g)
  BY <1>1, <1>5 DEF CallsCurrent
<1>7. Live(g)' => Registered(s, g)'
  BY <1>2, <1>4, <1>5, <1>6 DEF Lasting
<1>8. ASSUME NEW p \in Server, NEW h \in Guid, replicas'[p][h] # None
      PROVE  \/ replicas'[p][h] = replicas[p][h]
             \/ Live(h)' => Registered(p, h)'
             \/ /\ ProactiveReplication
                /\ replicas'[p][h].latest = 0
                /\ origin'[h].parent # None
                /\ (Live(origin[h].parent) => Registered(p, origin[h].parent))'
  <2>1. CASE p # s
    BY <1>1, <1>3, <2>1 DEF TypeOK
  <2>2. CASE p = s
    <3>1. replicas'[s][h] = AfterPush(c)[h]
      BY <1>1, <1>2, <1>3 DEF TypeOK
    <3>2. AfterPush(c)[h] = IF h \in c.deleted THEN None
             ELSE IF h \in new THEN NewReplica(r.sid, "Projectile", 0)
             ELSE IF h = g THEN ApplyToReplica(r, c.event)
             ELSE replicas[s][h]
      BY <1>1, <1>2 DEF AfterPush, Put, TypeOK
    <3>3. NewReplica(r.sid, "Projectile", 0).latest = 0
      BY DEF NewReplica
    <3>4. CASE h \in new
      <4>1. ProactiveReplication /\ h \in c.created
        BY <3>4
      <4>2. origin[h].parent = g
        BY <1>1, <4>1 DEF CallsCurrent
      <4>3. origin'[h].parent = g /\ g # None
        BY <1>2, <1>3, <4>2, ColyseusAssumption
      <4>4. (Live(origin[h].parent) => Registered(s, origin[h].parent))'
        BY <1>7, <4>3 DEF Live, Registered
      <4>5. replicas'[s][h].latest = 0
        <5> HIDE DEF new
        <5> QED BY <1>8, <2>2, <3>1, <3>2, <3>3, <3>4
      <4> QED BY <2>2, <4>1, <4>3, <4>4, <4>5
    <3>5. CASE h \notin new /\ h # g
      <4> HIDE DEF new
      <4> QED BY <1>8, <2>2, <3>1, <3>2, <3>5
    <3>6. CASE h = g
      BY <1>7, <2>2, <3>6
    <3> QED BY <3>4, <3>5, <3>6
  <2> QED BY <2>1, <2>2
<1> QED BY <1>3, <1>4, <1>8, RegistrationStep

\* A step that adds no answers or replicas and at most inputs to the calls.
LEMMA QuietRegistration ==
    ASSUME Routing, OriginsKnown, Registration, Lasting, AnswersKept,
           NoPushAdded, NoReplicaAdded
    PROVE  Registration'
<1>1. \A s \in Server, t \in Task, g \in Guid :
         tasks'[s][t] # None /\ tasks'[s][t].reply[g] # None =>
         tasks[s][t] # None /\ tasks[s][t].reply[g] # None
  BY DEF AnswersKept
<1> QED BY <1>1, RegistrationStep DEF NoPushAdded, NoReplicaAdded

\* Spawning makes a table entry and an empty marker list for a new guid.
LEMMA SpawnRegistration ==
    ASSUME Routing, OriginsKnown, Registration,
           NEW s \in Server, NEW g \in Guid, NEW type \in Type, Spawn(s, g, type)
    PROVE  Registration'
<1>1. TypeOK
  BY DEF Routing
<1>2. /\ origin[g] = None
      /\ primaries' = [primaries EXCEPT ![s][g] = [type |-> type, ver |-> 0]]
      /\ interest' = [interest EXCEPT ![s][g] = <<>>]
      /\ origin' = [origin EXCEPT ![g] = [server |-> s, parent |-> None, event |-> 0]]
      /\ UNCHANGED <<replicas, tasks, calls>>
  BY DEF Spawn, Fresh
<1>3. \A h \in Guid : origin[h] # None =>
         /\ origin'[h] = origin[h]
         /\ \A p \in Server : primaries'[p][h] = primaries[p][h] /\ interest'[p][h] = interest[p][h]
  BY <1>1, <1>2 DEF TypeOK
<1>4. \A h \in Guid : origin[h] # None => origin[h].server \in Server
  BY <1>1 DEF TypeOK, Origin
<1>5. Lasting
  BY <1>3, <1>4 DEF Lasting, Live, Registered
<1>6. AnswersKept /\ NoPushAdded /\ NoReplicaAdded
  BY <1>2 DEF AnswersKept, NoPushAdded, NoReplicaAdded
<1> QED BY <1>5, <1>6, QuietRegistration

\* An owner that answers has just appended a marker.
LEMMA RegisterInterestRegistration ==
    ASSUME Routing, OriginsKnown, Registration, NEW s \in Server, NEW t \in Task,
           RegisterInterest(s, t)
    PROVE  Registration'
<1> DEFINE k == tasks[s][t]
           answered == [k EXCEPT !.stage = "reply", !.reply = States(k)]
<1>1. TypeOK /\ TasksRouted
  BY DEF Routing
<1>2. /\ k # None /\ k.stage = "call"
      /\ tasks' = [tasks EXCEPT ![s][t] = answered]
      /\ UNCHANGED <<primaries, replicas, calls, origin>>
  BY DEF RegisterInterest
<1>0. PICK times \in Named(k) : interest' = [interest EXCEPT ![k.peer] = Marked(s, k, times)]
  BY DEF RegisterInterest
<1>3. k \in TaskState /\ TaskRouted(s, k)
  BY <1>1, <1>2 DEF TypeOK, TasksRouted
<1>4. k.peer \in Server
  BY <1>2, <1>3 DEF TaskRouted
<1>5. answered.reply = States(k)
  BY <1>3 DEF TaskState
<1> HIDE DEF answered
<1>6. \A q \in Server, h \in Guid :
         \/ interest'[q][h] = interest[q][h]
         \/ q = k.peer /\ h \in Held(k)
  BY <1>0, <1>1, <1>4 DEF TypeOK, Marked
<1>7. ASSUME NEW h \in Guid, h \in Held(k)
      PROVE  /\ \A i \in DOMAIN interest[k.peer][h] :
                   /\ i \in DOMAIN interest'[k.peer][h]
                   /\ interest'[k.peer][h][i] = interest[k.peer][h][i]
             /\ \E i \in DOMAIN interest'[k.peer][h] : interest'[k.peer][h][i].sid = s
  <2>1. interest[k.peer][h] \in Seq(Marker) /\ times[h] \in Nat \ {0}
    BY <1>1, <1>4, <1>7, NamedOften DEF TypeOK
  <2>2. interest'[k.peer][h] = interest[k.peer][h] \o Markers(s, times[h])
    BY <1>0, <1>1, <1>4, <1>7 DEF TypeOK, Marked
  <2> DEFINE old == interest[k.peer][h]
             n == times[h]
  <2>3. old \in Seq(Marker) /\ n \in Nat \ {0} /\ interest'[k.peer][h] = old \o Markers(s, n)
    BY <2>1, <2>2
  <2> HIDE DEF old, n
  <2>4. /\ \A i \in DOMAIN old :
              i \in DOMAIN (old \o Markers(s, n)) /\ (old \o Markers(s, n))[i] = old[i]
        /\ \E i \in DOMAIN (old \o Markers(s, n)) : (old \o Markers(s, n))[i].sid = s
    BY <2>3, MarkersAdded
  <2> QED BY <2>3, <2>4 DEF old
<1>9. Lasting
  <2> SUFFICES ASSUME NEW h \in Guid, origin[h] # None, NEW p \in Server, Registered(p, h)
               PROVE  Registered(p, h)'
    BY <1>2 DEF Lasting, Live
  <2>1. origin[h].server \in Server
    BY <1>1 DEF TypeOK, Origin
  <2>2. PICK i \in DOMAIN interest[origin[h].server][h] :
           interest[origin[h].server][h][i].sid = p
    BY DEF Registered
  <2>3. /\ i \in DOMAIN interest'[origin[h].server][h]
        /\ interest'[origin[h].server][h][i] = interest[origin[h].server][h][i]
    BY <1>6, <1>7, <2>1, <2>2
  <2> QED BY <1>2, <2>2, <2>3 DEF Registered
<1>10. \A g \in Guid : States(k)[g] # None => Registered(s, g)'
  <2> SUFFICES ASSUME NEW g \in Guid, g \in Held(k) PROVE Registered(s, g)'
    BY DEF States
  <2>1. origin[g].server = k.peer
    BY <1>3, <1>4 DEF Held, TaskRouted
  <2>2. \E i \in DOMAIN interest'[k.peer][g] : interest'[k.peer][g][i].sid = s
    BY <1>7
  <2> QED BY <1>2, <2>1, <2>2 DEF Registered
<1>11. \A p \in Server, u \in Task :
          tasks'[p][u] = IF p = s /\ u = t THEN answered ELSE tasks[p][u]
  BY <1>1, <1>2 DEF TypeOK
<1>12. \A p \in Server, u \in Task, g \in Guid :
          tasks'[p][u] # None /\ tasks'[p][u].reply[g] # None =>
          \/ tasks[p][u] # None /\ tasks[p][u].reply[g] # None
          \/ Registered(p, g)'
  BY <1>5, <1>10, <1>11
<1> QED BY <1>2, <1>9, <1>12, RegistrationStep

\* What is stored comes from an owner that has a marker.
LEMMA ReceiveStatesRegistration ==
    ASSUME Routing, OriginsKnown, Registration, NEW s \in Server, NEW t \in Task,
           ReceiveStates(s, t)
    PROVE  Registration'
<1> DEFINE k == tasks[s][t]
<1>1. TypeOK /\ TasksRouted /\ StatesCurrent
  BY DEF Routing, Registration
<1>2. /\ k # None /\ k.stage = "reply"
      /\ replicas' = IF k.renewal THEN replicas
                     ELSE [replicas EXCEPT ![s] = Installed(s, k)]
      /\ UNCHANGED <<primaries, interest, calls, origin>>
  BY DEF ReceiveStates
<1>3. Lasting
  BY <1>2, LastingWhenUnchanged
<1>4. AnswersKept
  BY <1>1, AnswersKeptInLoop
<1>5. \A g \in Guid : k.reply[g] # None => (Live(g)' => Registered(s, g)')
  BY <1>1, <1>2 DEF StatesCurrent, Live, Registered
<1>6. \A g \in Guid : Installed(s, k)[g] = replicas[s][g] \/ (Live(g)' => Registered(s, g)')
  BY <1>5 DEF Installed
<1>7. \A p \in Server, g \in Guid :
         replicas'[p][g] = replicas[p][g] \/ (Live(g)' => Registered(p, g)')
  BY <1>1, <1>2, <1>6 DEF TypeOK
<1>8. \A p \in Server, u \in Task, g \in Guid :
         tasks'[p][u] # None /\ tasks'[p][u].reply[g] # None =>
         tasks[p][u] # None /\ tasks[p][u].reply[g] # None
  BY <1>4 DEF AnswersKept
<1> QED BY <1>2, <1>3, <1>7, <1>8, RegistrationStep

\* Markers age but stay.
LEMMA TickRegistration ==
    ASSUME Routing, OriginsKnown, Registration, Tick
    PROVE  Registration'
<1>1. TypeOK
  BY DEF Routing
<1>2. UNCHANGED <<primaries, replicas, tasks, calls, origin>>
  BY DEF Tick
<1>3. ASSUME NEW q \in Server, NEW h \in Guid
      PROVE  /\ DOMAIN interest'[q][h] = DOMAIN interest[q][h]
             /\ \A i \in DOMAIN interest[q][h] :
                  interest'[q][h][i].sid = interest[q][h][i].sid
  <2> DEFINE old == interest[q][h]
  <2>1. old \in Seq(Marker)
    BY <1>1 DEF TypeOK
  <2>2. interest'[q][h] = [i \in DOMAIN old |-> [old[i] EXCEPT !.left = IF @ = 0 THEN 0 ELSE @ - 1]]
    BY DEF Tick
  <2>3. \A i \in DOMAIN old : old[i] \in Marker
    BY <2>1
  <2>4. \A i \in DOMAIN old :
           [old[i] EXCEPT !.left = IF @ = 0 THEN 0 ELSE @ - 1].sid = old[i].sid
    BY <2>3 DEF Marker
  <2> HIDE DEF old
  <2>5. DOMAIN interest'[q][h] = DOMAIN old
    BY <2>2
  <2>6. \A i \in DOMAIN old : interest'[q][h][i].sid = old[i].sid
    BY <2>2, <2>4
  <2> QED BY <2>5, <2>6 DEF old
<1>4. \A h \in Guid : origin[h] # None => origin[h].server \in Server
  BY <1>1 DEF TypeOK, Origin
<1>5. Lasting
  BY <1>2, <1>3, <1>4 DEF Lasting, Live, Registered
<1>6. AnswersKept /\ NoPushAdded /\ NoReplicaAdded
  BY <1>2 DEF AnswersKept, NoPushAdded, NoReplicaAdded
<1> QED BY <1>5, <1>6, QuietRegistration

\* All steps that make, change and delete objects keep the markers of the living.
LEMMA ObjectStepRegistration ==
    ASSUME Routing, OriginsKnown, Registration, ObjectStep
    PROVE  Registration'
<1>1. TypeOK
  BY DEF Routing
<1>2. ASSUME UNCHANGED <<primaries, replicas, interest, tasks, origin>>, NoPushAdded
      PROVE  Registration'
  <2>1. Lasting
    BY <1>2, LastingWhenUnchanged
  <2>2. AnswersKept /\ NoReplicaAdded
    BY <1>2 DEF AnswersKept, NoReplicaAdded
  <2> QED BY <1>2, <2>1, <2>2, QuietRegistration
<1>3. CASE \E s, p \in Server : ConnectToPeer(s, p)
  <2>1. UNCHANGED <<primaries, replicas, interest, tasks, origin, calls>>
    BY <1>3 DEF ConnectToPeer
  <2>2. NoPushAdded
    BY <2>1 DEF NoPushAdded
  <2> QED BY <1>2, <2>1, <2>2
<1>4. CASE \E s \in Server, g \in Guid, type \in Type : Spawn(s, g, type)
  BY <1>4, SpawnRegistration
<1>5. CASE \E s \in Server, g \in Guid, input \in Input : AdvanceGameState(s, g, input)
  <2>1. PICK s \in Server, g \in Guid, input \in Input : AdvanceGameState(s, g, input)
    BY <1>5
  <2>2. CASE UpdatePrimary(s, g, input, calls)
    BY <2>2, UpdatePrimaryRegistration
  <2>3. CASE ForwardUpdate(s, g, input)
    <3>1. LET c == ForwardedCall(s, g, input)
          IN  c.event = None /\ c.created = {} /\ c.deleted = {}
      BY DEF ForwardedCall
    <3>2. /\ calls' = calls \cup {ForwardedCall(s, g, input)}
          /\ UNCHANGED <<primaries, replicas, interest, tasks, origin>>
      BY <2>3 DEF ForwardUpdate
    <3>3. NoPushAdded
      BY <3>1, <3>2 DEF NoPushAdded
    <3> QED BY <1>2, <3>2, <3>3
  <2> QED BY <2>1, <2>2, <2>3 DEF AdvanceGameState
<1>6. CASE \E g \in Guid, input \in Input : ClientUpdate(g, input)
  <2>1. PICK g \in Guid, input \in Input : ClientUpdate(g, input)
    BY <1>6
  <2>2. origin[g].server \in Server
    BY <1>1, <2>1 DEF ClientUpdate, TypeOK, Origin
  <2>3. CASE UpdatePrimary(origin[g].server, g, input, calls)
    BY <2>2, <2>3, UpdatePrimaryRegistration
  <2>4. CASE UpdateUnknown(ClientCall(origin[g].server, g, input), calls)
    <3>1. UNCHANGED <<primaries, replicas, interest, tasks, origin, calls>>
      BY <2>4 DEF UpdateUnknown
    <3>2. NoPushAdded
      BY <3>1 DEF NoPushAdded
    <3> QED BY <1>2, <3>1, <3>2
  <2> QED BY <1>1, <2>1, <2>3, <2>4, ClientReachesOwner DEF Routing
<1>7. CASE \E c \in calls : ReceiveUpdate(c) \/ UpdateFails(c)
  <2>1. PICK c \in calls : ReceiveUpdate(c) \/ UpdateFails(c)
    BY <1>7
  <2>2. c.to \in Server /\ c.guid \in Guid /\ calls \ {c} \in SUBSET calls
    BY <1>1 DEF TypeOK, UpdateCall
  <2>3. CASE UpdatePrimary(c.to, c.guid, c.input, calls \ {c})
    BY <2>2, <2>3, UpdatePrimaryRegistration
  <2>4. CASE UpdateReplica(c, calls \ {c})
    BY <2>4, UpdateReplicaRegistration
  <2>5. CASE UpdateUnknown(c, calls \ {c}) \/ UpdateFails(c)
    <3>1. /\ UNCHANGED <<primaries, replicas, interest, tasks, origin>>
          /\ calls' = calls \ {c}
      BY <2>5 DEF UpdateUnknown, UpdateFails
    <3>2. NoPushAdded
      BY <3>1 DEF NoPushAdded
    <3> QED BY <1>2, <3>1, <3>2
  <2> QED BY <2>1, <2>3, <2>4, <2>5 DEF ReceiveUpdate, Update
<1> QED BY <1>3, <1>4, <1>5, <1>6, <1>7 DEF ObjectStep

\* All steps of interest keep them too: they only add markers.
LEMMA InterestStepRegistration ==
    ASSUME Routing, OriginsKnown, Registration, InterestStep
    PROVE  Registration'
<1>1. TypeOK
  BY DEF Routing
<1>2. ASSUME UNCHANGED <<primaries, interest, calls, origin>>, AnswersKept, NoReplicaAdded
      PROVE  Registration'
  <2>1. Lasting
    BY <1>2, LastingWhenUnchanged
  <2>2. NoPushAdded
    BY <1>2 DEF NoPushAdded
  <2> QED BY <1>2, <2>1, <2>2, QuietRegistration
<1>3. ASSUME NEW s \in Server, NEW t \in Task, NEW matches \in SUBSET Published,
             NotifySubscriber(s, t, matches)
      PROVE  Registration'
  <2>1. AnswersKept
    BY <1>1, <1>3, AnswersKeptInLoop
  <2>2. UNCHANGED <<primaries, replicas, interest, calls, origin>>
    BY <1>3 DEF NotifySubscriber
  <2>3. NoReplicaAdded
    BY <2>2 DEF NoReplicaAdded
  <2> QED BY <1>2, <2>1, <2>2, <2>3
<1>4. ASSUME NEW s \in Server, NEW t \in Task, NEW keep \in SUBSET Guid,
             CleanupLoop(s, t, keep)
      PROVE  Registration'
  <2>1. AnswersKept
    BY <1>1, <1>4, AnswersKeptInLoop
  <2>2. /\ replicas' = [replicas EXCEPT ![s] = Put(@, Guid \ keep, None)]
        /\ UNCHANGED <<primaries, interest, calls, origin>>
    BY <1>4 DEF CleanupLoop
  <2>3. NoReplicaAdded
    BY <1>1, <2>2 DEF Put, TypeOK, NoReplicaAdded
  <2> QED BY <1>2, <2>1, <2>2, <2>3
<1>5. ASSUME NEW s \in Server, NEW t \in Task, NEW p \in Server, CallPeer(s, t, p)
      PROVE  Registration'
  <2>1. AnswersKept
    BY <1>1, <1>5, AnswersKeptByCall
  <2>2. UNCHANGED <<primaries, replicas, interest, calls, origin>>
    BY <1>5 DEF CallPeer
  <2>3. NoReplicaAdded
    BY <2>2 DEF NoReplicaAdded
  <2> QED BY <1>2, <2>1, <2>2, <2>3
<1>6. ASSUME NEW s \in Server, NEW t \in Task, RegisterFails(s, t)
      PROVE  Registration'
  <2>1. AnswersKept
    BY <1>1, <1>6, AnswersKeptInLoop
  <2>2. UNCHANGED <<primaries, replicas, interest, calls, origin>>
    BY <1>6 DEF RegisterFails
  <2>3. NoReplicaAdded
    BY <2>2 DEF NoReplicaAdded
  <2> QED BY <1>2, <2>1, <2>2, <2>3
<1> QED BY <1>3, <1>4, <1>5, <1>6, RegisterInterestRegistration, ReceiveStatesRegistration
        DEF InterestStep

\* Every step preserves the fourth layer.
LEMMA RegistrationNext ==
    Routing /\ OriginsKnown /\ Registration /\ [Next]_vars => Registration'
<1> SUFFICES ASSUME Routing, OriginsKnown, Registration, [Next]_vars PROVE Registration'
  OBVIOUS
<1>1. CASE UNCHANGED vars
  <2>1. Lasting
    BY <1>1, LastingWhenUnchanged DEF vars
  <2>2. AnswersKept /\ NoPushAdded /\ NoReplicaAdded
    BY <1>1 DEF AnswersKept, NoPushAdded, NoReplicaAdded, vars
  <2> QED BY <2>1, <2>2, QuietRegistration
<1> QED BY <1>1, ObjectStepRegistration, InterestStepRegistration, TickRegistration DEF Next

\* Messages, goroutines and tables agree about who is registered for what.
LEMMA RegistrationHolds == Spec => []Registration
<1>1. Shots => OriginsKnown
  BY DEF Shots
<1> QED BY <1>1, RoutingHolds, OriginsHold, RegistrationInit, RegistrationNext, PTL DEF Spec

-----------------------------------------------------------------------------
\* The owner of a living object has a marker, expired or not, for every server with
\* a replica of it, unless the replica is newborn: stored proactively with its
\* creator's event, and without an event of its own.
THEOREM UnregisteredHolds == Spec => []UnregisteredIsNewborn
<1>1. Registration => UnregisteredIsNewborn
  BY DEF Registration
<1> QED BY <1>1, RegistrationHolds, PTL

\* The whole inductive invariant.
THEOREM InvariantHolds == Spec => []IInv
<1>1. Routing /\ Behind /\ Shots /\ Registration => IInv
  BY DEF IInv, Shots, Registration
<1> QED BY <1>1, RoutingHolds, BehindHolds, OriginsHold, RegistrationHolds, PTL

\* A replica disappears in its own server's cleanup, or because its object is dead at
\* the owner: a push that deletes is sent only after the death, and touches only the
\* object that died.
THEOREM VanishingHolds == Spec => CopiesVanishWithObject
<1> DEFINE Cleaned(s) == \E t \in Task, keep \in SUBSET Guid : CleanupLoop(s, t, keep)
<1>1. ASSUME Routing, OriginsKnown, Registration, Next,
             NEW s \in Server, NEW g \in Guid,
             replicas[s][g] # None, replicas'[s][g] = None, ~Cleaned(s)
      PROVE  ~Live(g)'
  <2>1. TypeOK /\ OneOwner /\ CallsRouted /\ CallsCurrent
    BY <1>1 DEF Routing, Registration
  <2>2. origin[g] # None /\ origin[g].server # s
    BY <1>1, <2>1 DEF OneOwner
  <2>3. ASSUME NEW p \in Server, NEW h \in Guid, NEW input, NEW rest,
               UpdatePrimary(p, h, input, rest)
        PROVE  FALSE
    <3>1. replicas' = [replicas EXCEPT ![p] = Put(@, Deleted(h, input), None)]
      BY <2>3 DEF UpdatePrimary
    <3>2. primaries[p][h] # None
      BY <2>3 DEF UpdatePrimary
    <3>3. origin[h].server = p
      BY <2>1, <3>2 DEF OneOwner
    <3>4. g # h \/ s # p
      BY <2>2, <3>3
    <3>5. replicas'[s][g] = replicas[s][g]
      BY <2>1, <3>1, <3>4 DEF TypeOK, Put, Deleted
    <3> QED BY <1>1, <3>5
  <2>4. ASSUME NEW c \in calls, UpdateReplica(c, calls \ {c})
        PROVE  ~Live(g)'
    <3>1. c.to \in Server /\ c.guid \in Guid /\ c.deleted \subseteq {c.guid}
      BY <2>1, <2>4 DEF TypeOK, UpdateCall, CallsRouted
    <3>2. replicas' = [replicas EXCEPT ![c.to] = AfterPush(c)] /\ replicas[c.to][c.guid] # None
      BY <2>4 DEF UpdateReplica
    <3>3. s = c.to /\ AfterPush(c)[g] = None
      BY <1>1, <2>1, <3>1, <3>2 DEF TypeOK
    <3>4. replicas[c.to][c.guid] \in Replica /\ replicas[c.to][c.guid].sid \in Server
      BY <2>1, <3>1, <3>2 DEF TypeOK, Replica
    <3>5. c.event \in Nat
      <4>1. c.to # origin[c.guid].server
        BY <2>1, <3>1, <3>2 DEF OneOwner
      <4>2. c.event # None
        BY <2>1, <2>4, <4>1 DEF CallsRouted
      <4>3. c.event \in Nat \cup {None}
        BY <2>1, <2>4 DEF TypeOK, UpdateCall
      <4> QED BY <4>2, <4>3
    <3>6. /\ NewReplica(replicas[c.to][c.guid].sid, "Projectile", 0) # None
          /\ ApplyToReplica(replicas[c.to][c.guid], c.event) # None
      BY <3>4, <3>5, ReplicaType, NewReplicaType, ColyseusAssumption
    <3>7. g \in c.deleted
      BY <1>1, <2>1, <3>1, <3>3, <3>6 DEF AfterPush, Put, TypeOK
    <3>8. ~Live(g)
      BY <2>1, <2>4, <3>1, <3>7 DEF CallsCurrent
    <3>9. Lasting
      BY <1>1, <2>4, UpdateReplicaLasting
    <3> QED BY <2>2, <3>8, <3>9 DEF Lasting
  <2>5. ASSUME NEW p \in Server, NEW t \in Task, ReceiveStates(p, t)
        PROVE  FALSE
    <3> DEFINE k == tasks[p][t]
    <3>1. k \in TaskState /\ TaskRouted(p, k) /\ k.stage = "reply"
      BY <2>1, <2>5, <1>1 DEF ReceiveStates, TypeOK, Routing, TasksRouted
    <3>2. k.peer \in Server
      BY <3>1 DEF TaskRouted
    <3>3. k.reply[g] # None => NewReplica(k.peer, k.reply[g].type, k.reply[g].ver) # None
      <4> SUFFICES ASSUME k.reply[g] # None
                   PROVE  NewReplica(k.peer, k.reply[g].type, k.reply[g].ver) # None
        OBVIOUS
      <4>1. k.reply[g] \in Primary
        BY <3>1 DEF TaskState
      <4>2. k.reply[g].type \in Type /\ k.reply[g].ver \in Nat
        BY <4>1 DEF Primary
      <4>3. NewReplica(k.peer, k.reply[g].type, k.reply[g].ver) \in Replica
        <5> HIDE DEF k
        <5> QED BY <3>2, <4>2, NewReplicaType
      <4> QED BY <4>3, ColyseusAssumption
    <3>4. replicas' = replicas \/ replicas' = [replicas EXCEPT ![p] = Installed(p, k)]
      BY <2>5 DEF ReceiveStates
    <3>5. Installed(p, k)[g] # None \/ Installed(p, k)[g] = replicas[p][g]
      BY <3>3 DEF Installed
    <3> QED BY <1>1, <2>1, <3>4, <3>5 DEF TypeOK
  <2>6. CASE ObjectStep
    <3>1. origin[g].server \in Server
      BY <2>1, <2>2 DEF TypeOK, Origin
    <3>2. CASE \E h \in Guid, input \in Input : ClientUpdate(h, input)
      <4>1. PICK h \in Guid, input \in Input : ClientUpdate(h, input)
        BY <3>2
      <4>2. origin[h].server \in Server
        BY <2>1, <4>1 DEF ClientUpdate, TypeOK, Origin
      <4>3. UpdatePrimary(origin[h].server, h, input, calls) \/ replicas' = replicas
        BY <2>1, <4>1, ClientReachesOwner DEF UpdateUnknown
      <4> QED BY <1>1, <2>3, <4>2, <4>3
    <3>3. CASE \E c \in calls : ReceiveUpdate(c) \/ UpdateFails(c)
      <4>1. PICK c \in calls : ReceiveUpdate(c) \/ UpdateFails(c)
        BY <3>3
      <4>2. c.to \in Server /\ c.guid \in Guid
        BY <2>1 DEF TypeOK, UpdateCall
      <4>3. \/ UpdatePrimary(c.to, c.guid, c.input, calls \ {c})
            \/ UpdateReplica(c, calls \ {c})
            \/ replicas' = replicas
        BY <4>1 DEF ReceiveUpdate, Update, UpdateUnknown, UpdateFails
      <4> QED BY <1>1, <2>3, <2>4, <4>2, <4>3
    <3>4. CASE \E p \in Server, h \in Guid, input \in Input : AdvanceGameState(p, h, input)
      BY <1>1, <2>3, <3>4 DEF AdvanceGameState, ForwardUpdate
    <3>5. CASE \/ \E p, q \in Server : ConnectToPeer(p, q)
               \/ \E p \in Server, h \in Guid, type \in Type : Spawn(p, h, type)
      BY <1>1, <3>5 DEF ConnectToPeer, Spawn
    <3> QED BY <2>6, <3>2, <3>3, <3>4, <3>5 DEF ObjectStep
  <2>7. CASE InterestStep
    <3>1. CASE \E p \in Server, t \in Task, keep \in SUBSET Guid : CleanupLoop(p, t, keep)
      <4>1. PICK p \in Server, t \in Task, keep \in SUBSET Guid : CleanupLoop(p, t, keep)
        BY <3>1
      <4>2. p # s
        BY <1>1, <4>1
      <4>3. replicas' = [replicas EXCEPT ![p] = Put(@, Guid \ keep, None)]
        BY <4>1 DEF CleanupLoop
      <4> QED BY <1>1, <2>1, <4>2, <4>3 DEF TypeOK
    <3>2. CASE \E p \in Server, t \in Task :
                  RegisterInterest(p, t) \/ ReceiveStates(p, t) \/ RegisterFails(p, t)
      BY <1>1, <2>5, <3>2 DEF RegisterInterest, RegisterFails
    <3>3. CASE \/ \E p \in Server, t \in Task, matches \in SUBSET Published :
                     NotifySubscriber(p, t, matches)
               \/ \E p \in Server, t \in Task, q \in Server : CallPeer(p, t, q)
      BY <1>1, <3>3 DEF NotifySubscriber, CallPeer
    <3> QED BY <2>7, <3>1, <3>2, <3>3 DEF InterestStep
  <2>8. CASE Tick
    BY <1>1, <2>8 DEF Tick
  <2> QED BY <1>1, <2>6, <2>7, <2>8 DEF Next
<1>2. Routing /\ OriginsKnown /\ Registration /\ [Next]_vars =>
         [\A s \in Server, g \in Guid :
            replicas[s][g] # None /\ replicas'[s][g] = None
            => \/ ~Live(g)'
               \/ \E t \in Task, keep \in SUBSET Guid : CleanupLoop(s, t, keep)]_vars
  BY <1>1
<1>3. Shots => OriginsKnown
  BY DEF Shots
<1> QED
  BY <1>2, <1>3, RoutingHolds, OriginsHold, RegistrationHolds, PTL
     DEF Spec, CopiesVanishWithObject

-----------------------------------------------------------------------------
(***************************************************************************)
(* Last, Colyseus implements PrimaryCopy: spawning creates an object,      *)
(* an event at the owner modifies it, and what replication does is copy    *)
(* versions that the owner has had.                                        *)
(***************************************************************************)

Knowledge == Routing /\ Behind /\ OriginsKnown

\* An abstract object is a record, and None is not.
LEMMA ObjectIsNotNone ==
    ASSUME NEW s \in Server, NEW n \in Nat, NEW alive \in BOOLEAN
    PROVE  [owner |-> s, version |-> n, alive |-> alive] # None
<1>1. [owner |-> s, version |-> n, alive |-> alive]
        \in [owner : Server, version : Nat, alive : BOOLEAN]
  OBVIOUS
<1> QED BY <1>1, ColyseusAssumption

\* An object exists from when it has an origin.
LEMMA ObjectsValue ==
    ASSUME TypeOK, NEW g \in Guid
    PROVE  /\ Objects[g] = IF origin[g] = None THEN None
                           ELSE [owner |-> origin[g].server, version |-> serialized[g],
                                 alive |-> Live(g)]
           /\ Objects[g] = None <=> origin[g] = None
<1>1. Objects[g] = IF origin[g] = None THEN None
                   ELSE [owner |-> origin[g].server, version |-> serialized[g],
                         alive |-> Live(g)]
  BY DEF Objects
<1>2. ASSUME origin[g] # None PROVE Objects[g] # None
  <2>1. origin[g].server \in Server /\ serialized[g] \in Nat /\ Live(g) \in BOOLEAN
    BY <1>2 DEF TypeOK, Origin, Live
  <2> QED BY <1>1, <1>2, <2>1, ObjectIsNotNone
<1> QED BY <1>1, <1>2

\* The objects change only with who made them, their events and their deaths.
LEMMA ObjectsUnchanged ==
    ASSUME UNCHANGED <<origin, serialized>>,
           \A g \in Guid : origin[g] # None => Live(g)' = Live(g)
    PROVE  UNCHANGED Objects
BY DEF Objects

\* Replicas of one server that change become copies of versions the owner has had.
LEMMA CopyRefined ==
    ASSUME TypeOK', OneOwner', NeverAhead', UNCHANGED Objects, NEW s \in Server,
           \A p \in Server : p # s => replicas'[p] = replicas[p]
    PROVE  PC!Copy(s)
<1> DEFINE f == Copies'[s]
<1>1. \A g \in Guid : f[g] = IF replicas'[s][g] = None THEN None ELSE replicas'[s][g].latest
  BY DEF Copies
<1>2. f = [g \in Guid |-> f[g]]
  BY DEF Copies
<1> HIDE DEF f
<1>3. ASSUME NEW g \in Guid PROVE f[g] \in {None} \cup PC!Versions(s, g)
  <2>1. CASE replicas'[s][g] = None
    BY <1>1, <2>1
  <2>2. CASE replicas'[s][g] # None
    <3>1. /\ origin'[g] # None /\ origin'[g].server # s
          /\ replicas'[s][g].latest <= serialized'[g]
      BY <2>2 DEF OneOwner, NeverAhead
    <3>2. serialized'[g] \in Nat /\ replicas'[s][g].latest \in Nat
      BY <2>2 DEF TypeOK, Replica
    <3>3. origin'[g].server \in Server /\ Live(g)' \in BOOLEAN
      BY <3>1 DEF TypeOK, Origin, Live
    <3>4. Objects'[g] = [owner |-> origin'[g].server, version |-> serialized'[g],
                         alive |-> Live(g)']
      BY <3>1 DEF Objects
    <3>5. Objects'[g] # None
      BY <3>2, <3>3, <3>4, ObjectIsNotNone
    <3>6. /\ Objects[g] # None /\ Objects[g].owner # s
          /\ Objects[g].version = serialized'[g]
      BY <3>1, <3>4, <3>5
    <3>7. PC!Versions(s, g) = 0 .. serialized'[g]
      BY <3>6 DEF PC!Versions
    <3> QED BY <1>1, <2>2, <3>1, <3>2, <3>7
  <2> QED BY <2>1, <2>2
<1>4. f \in [Guid -> {None} \cup UNION {PC!Versions(s, g) : g \in Guid}]
  BY <1>2, <1>3
<1>5. Copies' = [Copies EXCEPT ![s] = f]
  <2>1. \A p \in Server : p # s => Copies'[p] = Copies[p]
    BY DEF Copies
  <2>2. Copies' = [p \in Server |-> Copies'[p]] /\ Copies = [p \in Server |-> Copies[p]]
    BY DEF Copies
  <2> QED BY <2>1, <2>2 DEF f
<1> QED BY <1>3, <1>4, <1>5 DEF PC!Copy

\* Who changes neither primaries nor origins nor what is serialized changes no abstract object.
LEMMA QuietRefined ==
    ASSUME UNCHANGED <<primaries, origin, serialized>>
    PROVE  UNCHANGED Objects
<1>1. \A g \in Guid : Live(g)' = Live(g)
  BY DEF Live
<1> QED BY <1>1, ObjectsUnchanged

\* Who changes no replica changes no abstract copy.
LEMMA CopiesUnchanged ==
    ASSUME UNCHANGED replicas
    PROVE  UNCHANGED Copies
BY DEF Copies

\* Spawning is Create.
LEMMA SpawnRefined ==
    ASSUME TypeOK, OriginsKnown, NEW s \in Server, NEW g \in Guid, NEW type \in Type,
           Spawn(s, g, type)
    PROVE  PC!Create(s, g)
<1> DEFINE o == [server |-> s, parent |-> None, event |-> 0]
           p == [type |-> type, ver |-> 0]
<1>1. /\ origin[g] = None
      /\ primaries' = [primaries EXCEPT ![s][g] = p]
      /\ origin' = [origin EXCEPT ![g] = o]
      /\ UNCHANGED <<replicas, serialized>>
  BY DEF Spawn, Fresh
<1>2. o # None /\ o.server = s /\ p # None
  <2>1. o \in Origin /\ p \in Primary
    BY DEF Origin, Primary
  <2> QED BY <2>1, ColyseusAssumption
<1> HIDE DEF o, p
<1>3. origin'[g] = o /\ primaries'[s][g] = p /\ serialized'[g] = 0
  BY <1>1 DEF TypeOK, OriginsKnown
<1>4. Objects'[g] = [owner |-> s, version |-> 0, alive |-> TRUE]
  <2>1. Live(g)'
    BY <1>2, <1>3 DEF Live
  <2> QED BY <1>2, <1>3, <2>1 DEF Objects
<1>5. ASSUME NEW h \in Guid, h # g PROVE Objects'[h] = Objects[h]
  <2>1. origin'[h] = origin[h] /\ serialized'[h] = serialized[h]
    BY <1>1, <1>5 DEF TypeOK
  <2>2. \A q \in Server : primaries'[q][h] = primaries[q][h]
    BY <1>1, <1>5 DEF TypeOK
  <2>3. origin[h] # None => origin[h].server \in Server
    BY DEF TypeOK, Origin
  <2>4. Live(h)' = Live(h)
    BY <2>1, <2>2, <2>3 DEF Live
  <2> QED BY <2>1, <2>4 DEF Objects
<1>6. Objects' = [Objects EXCEPT ![g] = PC!New(s)]
  BY <1>4, <1>5 DEF Objects, PC!New
<1>7. Objects[g] = None
  BY <1>1 DEF Objects
<1> QED BY <1>1, <1>6, <1>7, CopiesUnchanged DEF PC!Create

\* An event at the owner is Modify: one version more, whether the type moves or not.
LEMMA UpdatePrimaryRefined ==
    ASSUME Routing, OriginsKnown, NEW s \in Server, NEW g \in Guid, NEW input, NEW rest,
           UpdatePrimary(s, g, input, rest)
    PROVE  PC!Modify(g)
<1> DEFINE n == serialized[g] + 1
           dead == Deleted(g, input)
           after(new) == AfterEvent(s, g, n, input, new)
           o == [server |-> s, parent |-> g, event |-> n]
           shot == [type |-> "Projectile", ver |-> 0]
<1>1. TypeOK /\ OneOwner
  BY DEF Routing
<1>2. PICK new \in Created(primaries[s][g], input) :
        /\ primaries' = [primaries EXCEPT ![s] = after(new)]
        /\ replicas' = [replicas EXCEPT ![s] = Put(@, dead, None)]
        /\ origin' = Put(origin, new, o)
        /\ serialized' = [serialized EXCEPT ![g] = n]
  BY DEF UpdatePrimary
<1>3. primaries[s][g] # None /\ origin[g] # None /\ origin[g].server = s
  BY <1>1 DEF UpdatePrimary, OneOwner
<1>4. new \subseteq {h \in Guid : origin[h] = None} /\ dead \subseteq {g}
  BY DEF Created, Fresh, Deleted
<1>5. serialized[g] \in Nat /\ n \in Nat
  BY <1>1 DEF TypeOK
<1>6. o # None /\ o.server = s /\ shot # None
  <2>1. o \in Origin /\ shot \in Primary
    BY <1>5, ColyseusAssumption DEF Origin, Primary
  <2> QED BY <2>1, ColyseusAssumption
<1>7. ApplyToPrimary(primaries[s][g], n) # None
  <2>1. primaries[s][g] \in Primary
    BY <1>1, <1>3 DEF TypeOK
  <2>2. ApplyToPrimary(primaries[s][g], n) \in Primary
    BY <1>5, <2>1 DEF ApplyToPrimary, Primary
  <2> QED BY <2>2, ColyseusAssumption
<1>8. primaries'[s] = after(new)
  BY <1>1, <1>2 DEF TypeOK
<1>9. \A h \in Guid : after(new)[h] =
         IF h \in dead THEN None
         ELSE IF h \in new THEN shot
         ELSE IF h = g THEN ApplyToPrimary(primaries[s][g], n) ELSE primaries[s][h]
  BY <1>1 DEF AfterEvent, Put, TypeOK
<1>10. \A h \in Guid : origin'[h] = IF h \in new THEN o ELSE origin[h]
  BY <1>2 DEF Put
<1>11. \A h \in Guid : serialized'[h] = IF h = g THEN n ELSE serialized[h]
  BY <1>1, <1>2 DEF TypeOK
<1>12. g \notin new
  BY <1>3, <1>4
<1> HIDE DEF n, dead, after, o, shot
<1>13. Objects'[g] = [owner |-> s, version |-> n, alive |-> dead = {}]
  <2>1. Live(g)' = (dead = {})
    BY <1>3, <1>4, <1>7, <1>8, <1>9, <1>10, <1>12 DEF Live
  <2>2. origin'[g] = origin[g] /\ serialized'[g] = n
    BY <1>10, <1>11, <1>12
  <2> QED BY <1>3, <2>1, <2>2 DEF Objects
<1>14. ASSUME NEW h \in new PROVE Objects'[h] = [owner |-> s, version |-> 0, alive |-> TRUE]
  <2>1. h \in Guid /\ h # g /\ h \notin dead
    BY <1>4, <1>12, <1>14
  <2>2. origin'[h] = o /\ serialized'[h] = 0
    BY <1>4, <1>10, <1>11, <1>14, <2>1 DEF OriginsKnown
  <2>3. primaries'[s][h] = shot
    BY <1>8, <1>9, <1>14, <2>1
  <2>4. Live(h)'
    BY <1>6, <2>2, <2>3 DEF Live
  <2> QED BY <1>6, <2>1, <2>2, <2>4 DEF Objects
<1>15. ASSUME NEW h \in Guid, h # g, h \notin new PROVE Objects'[h] = Objects[h]
  <2>1. origin'[h] = origin[h] /\ serialized'[h] = serialized[h]
    BY <1>10, <1>11, <1>15
  <2>2. \A q \in Server : primaries'[q][h] = primaries[q][h]
    <3>1. primaries'[s][h] = primaries[s][h]
      BY <1>4, <1>8, <1>9, <1>15
    <3>2. \A q \in Server : q # s => primaries'[q] = primaries[q]
      BY <1>1, <1>2 DEF TypeOK
    <3> QED BY <3>1, <3>2
  <2>3. origin[h] # None => origin[h].server \in Server
    BY <1>1 DEF TypeOK, Origin
  <2>4. Live(h)' = Live(h)
    BY <2>1, <2>2, <2>3 DEF Live
  <2> QED BY <2>1, <2>4 DEF Objects
<1>16. /\ Objects[g] # None
       /\ Objects[g] = [owner |-> s, version |-> serialized[g], alive |-> TRUE]
  <2>1. Live(g)
    BY <1>3 DEF Live
  <2> QED BY <1>1, <1>3, <2>1, ObjectsValue
<1>17. new \in SUBSET {h \in Guid : Objects[h] = None}
  BY <1>4 DEF Objects
<1>18. UNCHANGED Copies
  <2>1. replicas[s][g] = None
    BY <1>1, <1>3 DEF OneOwner
  <2>2. \A p \in Server, h \in Guid : replicas'[p][h] = replicas[p][h]
    BY <1>1, <1>2, <1>4, <2>1 DEF TypeOK, Put
  <2> QED BY <2>2 DEF Copies
<1>19. Objects' = [h \in Guid |->
          IF h = g THEN [owner |-> Objects[g].owner, version |-> Objects[g].version + 1,
                         alive |-> dead = {}]
          ELSE IF h \in new THEN PC!New(Objects[g].owner)
          ELSE Objects[h]]
  <2>1. Objects' = [h \in Guid |-> Objects'[h]]
    BY DEF Objects
  <2>2. Objects[g].owner = s /\ Objects[g].version + 1 = n
    BY <1>16 DEF n
  <2> QED BY <1>13, <1>14, <1>15, <2>1, <2>2 DEF PC!New
<1> DEFINE Result(made, survives) ==
       [h \in Guid |->
          IF h = g THEN [owner |-> Objects[g].owner, version |-> Objects[g].version + 1,
                         alive |-> survives]
          ELSE IF h \in made THEN PC!New(Objects[g].owner)
          ELSE Objects[h]]
<1>20. Objects' = Result(new, dead = {}) /\ (dead = {}) \in BOOLEAN
  BY <1>19
<1>21. \E made \in SUBSET {h \in Guid : Objects[h] = None}, survives \in BOOLEAN :
          Objects' = Result(made, survives)
  <2> HIDE DEF Result
  <2> QED BY <1>17, <1>20
<1>22. Objects[g] # None /\ Objects[g].alive
  BY <1>16
<1> QED BY <1>18, <1>21, <1>22, Zenon DEF PC!Modify

\* The Update handler at a replica is a Copy: what a push brings and takes.
LEMMA UpdateReplicaRefined ==
    ASSUME Routing, Routing', Behind', NEW c \in calls, UpdateReplica(c, calls \ {c})
    PROVE  PC!Copy(c.to)
<1>1. TypeOK /\ CallsRouted /\ TypeOK' /\ OneOwner' /\ NeverAhead'
  BY DEF Routing, Behind
<1>2. c.to \in Server /\ c.guid \in Guid /\ c.deleted \subseteq {c.guid}
  BY <1>1 DEF TypeOK, UpdateCall, CallsRouted
<1>3. /\ primaries[c.to][c.guid] = None
      /\ primaries' = [primaries EXCEPT ![c.to] = Put(@, c.deleted, None)]
      /\ replicas' = [replicas EXCEPT ![c.to] = AfterPush(c)]
      /\ UNCHANGED <<origin, serialized>>
  BY DEF UpdateReplica
<1>4. \A s \in Server, g \in Guid : primaries'[s][g] = primaries[s][g]
  BY <1>1, <1>2, <1>3 DEF TypeOK, Put
<1>5. \A g \in Guid : origin[g] # None => Live(g)' = Live(g)
  <2> SUFFICES ASSUME NEW g \in Guid, origin[g] # None PROVE Live(g)' = Live(g)
    OBVIOUS
  <2>1. origin[g].server \in Server
    BY <1>1 DEF TypeOK, Origin
  <2> QED BY <1>3, <1>4, <2>1 DEF Live
<1>6. \A p \in Server : p # c.to => replicas'[p] = replicas[p]
  BY <1>1, <1>3 DEF TypeOK
<1>7. UNCHANGED Objects
  BY <1>3, <1>5, ObjectsUnchanged
<1> QED BY <1>1, <1>2, <1>6, <1>7, CopyRefined

\* Steps that make, change and delete objects are steps of the abstract specification, or stutter.
LEMMA ObjectStepRefined ==
    ASSUME Routing, Routing', Behind', OriginsKnown, ObjectStep
    PROVE  [PC!Next]_<<Objects, Copies>>
<1>1. TypeOK
  BY DEF Routing
<1>2. ASSUME NEW s \in Server, NEW g \in Guid, NEW input, NEW rest,
             UpdatePrimary(s, g, input, rest)
      PROVE  PC!Next
  BY <1>2, UpdatePrimaryRefined DEF PC!Next
<1>3. ASSUME UNCHANGED <<primaries, replicas, origin, serialized>>
      PROVE  UNCHANGED <<Objects, Copies>>
  BY <1>3, QuietRefined, CopiesUnchanged
<1>4. CASE \E s, p \in Server : ConnectToPeer(s, p)
  BY <1>3, <1>4 DEF ConnectToPeer
<1>5. CASE \E s \in Server, g \in Guid, type \in Type : Spawn(s, g, type)
  BY <1>1, <1>5, SpawnRefined DEF PC!Next
<1>6. CASE \E s \in Server, g \in Guid, input \in Input : AdvanceGameState(s, g, input)
  <2>1. PICK s \in Server, g \in Guid, input \in Input :
           UpdatePrimary(s, g, input, calls) \/ ForwardUpdate(s, g, input)
    BY <1>6 DEF AdvanceGameState
  <2>2. CASE ForwardUpdate(s, g, input)
    BY <1>3, <2>2 DEF ForwardUpdate
  <2> QED BY <1>2, <2>1, <2>2
<1>7. CASE \E g \in Guid, input \in Input : ClientUpdate(g, input)
  <2>1. PICK g \in Guid, input \in Input : ClientUpdate(g, input)
    BY <1>7
  <2>2. origin[g].server \in Server
    BY <1>1, <2>1 DEF ClientUpdate, TypeOK, Origin
  <2>3. CASE UpdatePrimary(origin[g].server, g, input, calls)
    BY <1>2, <2>2, <2>3
  <2>4. CASE UpdateUnknown(ClientCall(origin[g].server, g, input), calls)
    BY <1>3, <2>4 DEF UpdateUnknown
  <2> QED BY <1>1, <2>1, <2>3, <2>4, ClientReachesOwner DEF Routing
<1>8. CASE \E c \in calls : ReceiveUpdate(c) \/ UpdateFails(c)
  <2>1. PICK c \in calls : ReceiveUpdate(c) \/ UpdateFails(c)
    BY <1>8
  <2>2. c.to \in Server /\ c.guid \in Guid
    BY <1>1 DEF TypeOK, UpdateCall
  <2>3. CASE UpdatePrimary(c.to, c.guid, c.input, calls \ {c})
    BY <1>2, <2>2, <2>3
  <2>4. CASE UpdateReplica(c, calls \ {c})
    BY <2>2, <2>4, UpdateReplicaRefined DEF PC!Next
  <2>5. CASE UpdateUnknown(c, calls \ {c}) \/ UpdateFails(c)
    BY <1>3, <2>5 DEF UpdateUnknown, UpdateFails
  <2> QED BY <2>1, <2>3, <2>4, <2>5 DEF ReceiveUpdate, Update
<1> QED BY <1>4, <1>5, <1>6, <1>7, <1>8 DEF ObjectStep

\* Steps of interest change copies only.
LEMMA InterestStepRefined ==
    ASSUME Routing, Routing', Behind', InterestStep
    PROVE  [PC!Next]_<<Objects, Copies>>
<1>1. TypeOK /\ TypeOK' /\ OneOwner' /\ NeverAhead'
  BY DEF Routing, Behind
<1>2. ASSUME NEW s \in Server, UNCHANGED <<primaries, origin, serialized>>,
             \A p \in Server : p # s => replicas'[p] = replicas[p]
      PROVE  PC!Next
  BY <1>1, <1>2, QuietRefined, CopyRefined DEF PC!Next
<1>3. ASSUME UNCHANGED <<primaries, replicas, origin, serialized>>
      PROVE  UNCHANGED <<Objects, Copies>>
  BY <1>3, QuietRefined, CopiesUnchanged
<1>4. ASSUME NEW s \in Server, NEW t \in Task, NEW keep \in SUBSET Guid,
             CleanupLoop(s, t, keep)
      PROVE  PC!Next
  <2>1. /\ replicas' = [replicas EXCEPT ![s] = Put(@, Guid \ keep, None)]
        /\ UNCHANGED <<primaries, origin, serialized>>
    BY <1>4 DEF CleanupLoop
  <2>2. \A p \in Server : p # s => replicas'[p] = replicas[p]
    BY <1>1, <2>1 DEF TypeOK
  <2> QED BY <1>2, <2>1, <2>2
<1>5. ASSUME NEW s \in Server, NEW t \in Task, ReceiveStates(s, t)
      PROVE  PC!Next
  <2>1. /\ \/ replicas' = replicas
           \/ replicas' = [replicas EXCEPT ![s] = Installed(s, tasks[s][t])]
        /\ UNCHANGED <<primaries, origin, serialized>>
    BY <1>5 DEF ReceiveStates
  <2>2. \A p \in Server : p # s => replicas'[p] = replicas[p]
    BY <1>1, <2>1 DEF TypeOK
  <2> QED BY <1>2, <2>1, <2>2
<1>6. CASE \/ \E s \in Server, t \in Task, matches \in SUBSET Published :
                 NotifySubscriber(s, t, matches)
           \/ \E s \in Server, t \in Task, p \in Server : CallPeer(s, t, p)
           \/ \E s \in Server, t \in Task : RegisterInterest(s, t) \/ RegisterFails(s, t)
  BY <1>3, <1>6 DEF NotifySubscriber, CallPeer, RegisterInterest, RegisterFails
<1> QED BY <1>4, <1>5, <1>6 DEF InterestStep

\* Every step is a step of the abstract specification, or a stutter.
LEMMA NextRefined ==
    Routing /\ Routing' /\ Behind' /\ OriginsKnown /\ [Next]_vars
    => [PC!Next]_<<Objects, Copies>>
<1> SUFFICES ASSUME Routing, Routing', Behind', OriginsKnown, [Next]_vars
             PROVE  [PC!Next]_<<Objects, Copies>>
  OBVIOUS
<1>1. CASE Tick \/ UNCHANGED vars
  <2>1. UNCHANGED <<primaries, replicas, origin, serialized>>
    BY <1>1 DEF Tick, vars
  <2> QED BY <2>1, QuietRefined, CopiesUnchanged
<1> QED BY <1>1, ObjectStepRefined, InterestStepRefined DEF Next

-----------------------------------------------------------------------------
\* The replication manager implements primary copies: whatever calls are delayed,
\* reordered or lost, an object is made, modified and ended by its owner alone, and every
\* replica is of a version that its owner has had.
THEOREM Refinement == Spec => ImplementsPrimaryCopy
<1>1. Init => PC!Init
  BY DEF Init, PC!Init, Objects, Copies
<1>2. Shots => OriginsKnown
  BY DEF Shots
<1> QED
  BY <1>1, <1>2, NextRefined, RoutingHolds, BehindHolds, OriginsHold, PTL
     DEF Spec, ImplementsPrimaryCopy, PC!Spec
=============================================================================
