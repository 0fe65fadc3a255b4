------------------------------ MODULE Colyseus ------------------------------
(***************************************************************************)
(* The replication manager of lib/server/server.go.                        *)
(*                                                                         *)
(* Every game object has one primary copy, on the server that spawned it,  *)
(* and any number of replicas.  A server that wants a replica registers    *)
(* its interest with the owner, gets a snapshot back, and from then on is  *)
(* pushed every event the owner applies, for as long as its interest       *)
(* marker is unexpired.  Inputs for an object a server does not own are    *)
(* forwarded to the owner.  Every remote call runs in a goroutine of its   *)
(* own, so calls are delivered in any order, and a failed call is only     *)
(* logged.                                                                 *)
(*                                                                         *)
(* What is abstracted.                                                     *)
(*   - The position of an object is a function of the events applied to    *)
(*     it.  The owner numbers its events 1, 2, ... (the code gives them    *)
(*     timestamps); a copy is the number of its latest event and, for a    *)
(*     replica, whether its position is the one the owner had right after  *)
(*     that event ("exact").                                               *)
(*   - Movement bits are dropped from inputs: only Shoot and Die change    *)
(*     more than the position.                                             *)
(*   - Whether a replica lies in an area of interest is any truth value,   *)
(*     except that a server without primaries is interested in nothing.    *)
(*   - An interest marker counts the clock ticks it has left.              *)
(* Bounds (the code has none): MaxEvents events per object, MaxMarkers     *)
(* markers per object, MaxCalls Update calls in flight, one goroutine of a *)
(* server per member of Task, and one forwarded call with given contents   *)
(* in flight at a time.                                                    *)
(***************************************************************************)
EXTENDS Naturals, Sequences, FiniteSets

CONSTANTS
    Server,                \* server ids (Colyseus.sid)
    Guid,                  \* object ids
    Task,                  \* goroutines of a server that run RegisterInterest calls
    None,                  \* "no such entry", "no timestamp"
    ProactiveReplication,  \* Colyseus.proactiveReplication
    InterestTTL,           \* ticks an interest marker lives (interestTTLMs)
    Failures,              \* TRUE when remote calls may fail
    Connected,             \* TRUE when every server has connected to its peers
                           \* before it serves (demo/server/server.go main)
    Type,                  \* the types of object that are spawned
    Input,                 \* the inputs that are given to objects
    MaxEvents,
    MaxMarkers,
    MaxCalls

Primary == [type : Type, ver : Nat]
Replica == [sid : Server, type : Type, latest : Nat, exact : BOOLEAN]
Marker == [sid : Server, left : Nat]
Origin == [server : Server, parent : Guid \cup {None}, event : Nat]

\* The Update RPC.  A push carries the owner's event number; a forwarded input
\* carries none, "the primary decides when to serialize".
UpdateCall == [from : Server, to : Server, guid : Guid,
               event : Nat \cup {None}, input : Input,
               created : SUBSET Guid, deleted : SUBSET Guid, marker : Nat]

\* A goroutine that calls RegisterInterest on one peer after another: the tail
\* of NotifySubscriber, or the renewals CleanupLoop starts.
TaskState == [renewal : BOOLEAN, need : [Server -> SUBSET Guid],
              stage : {"loop", "call", "reply"},
              peer : Server \cup {None}, reply : [Guid -> Primary \cup {None}]]

ASSUME ColyseusAssumption ==
    /\ None \notin Server \cup Guid \cup Nat
    /\ None \notin Primary /\ None \notin Replica
    /\ None \notin Origin /\ None \notin TaskState
    /\ None \notin [owner : Server, version : Nat, alive : BOOLEAN]
    /\ ProactiveReplication \in BOOLEAN /\ Failures \in BOOLEAN
    /\ Connected \in BOOLEAN
    /\ InterestTTL \in Nat \ {0}
    /\ Type \subseteq {"Player", "Projectile", "Shield"} /\ "Projectile" \in Type
    /\ Input \subseteq SUBSET {"Shoot", "Die"}
    /\ MaxEvents \in Nat /\ MaxMarkers \in Nat /\ MaxCalls \in Nat

VARIABLES
    primaries,   \* Colyseus.Primaries of every server
    replicas,    \* Colyseus.Replicas
    interest,    \* Colyseus.primaryInterest
    peers,       \* the keys of Colyseus.peerEndpoints
    tasks,       \* the goroutines in the middle of RegisterInterest calls
    calls,       \* Update calls in flight
    origin,      \* history: where and by which event an object was created
    serialized   \* history: how many events the owner has applied to it

vars == <<primaries, replicas, interest, peers, tasks, calls, origin, serialized>>

NoReply == [g \in Guid |-> None]

Init ==
    /\ primaries = [s \in Server |-> [g \in Guid |-> None]]
    /\ replicas = [s \in Server |-> [g \in Guid |-> None]]
    /\ interest = [s \in Server |-> [g \in Guid |-> <<>>]]
    /\ peers = [s \in Server |-> IF Connected THEN Server \ {s} ELSE {}]
    /\ tasks = [s \in Server |-> [t \in Task |-> None]]
    /\ calls = {}
    /\ origin = [g \in Guid |-> None]
    /\ serialized = [g \in Guid |-> 0]

-----------------------------------------------------------------------------
(***************************************************************************)
(* Helpers.                                                                *)
(***************************************************************************)

\* Guids nobody has drawn yet: GenerateGUID draws 32 random bits, taken as unique.
\* (In this module a definition with the word Faulty over it is no part of the
\* model: it is the next definition with a mistake in it, to test properties with.)
\* Faulty: the guid of a dead object is drawn again.
FreshReused == {g \in Guid : \A s \in Server : primaries[s][g] = None}

Fresh == {g \in Guid : origin[g] = None}

\* The map f with the entries gs set to v (or deleted, when v is None).
Put(f, gs, v) == [g \in Guid |-> IF g \in gs THEN v ELSE f[g]]

\* ApplyEvent at the primary.  A shield's state is left alone.
ApplyToPrimary(o, n) == IF o.type = "Shield" THEN o ELSE [o EXCEPT !.ver = n]

\* ApplyEvent at a replica.  It moves the copy by the time since its latest event
\* under that event's input: nothing when the event is the same one again, the
\* owner's own movement when the event is the next one, some other movement
\* otherwise.
ApplyToReplica(r, n) ==
    IF r.type = "Shield" \/ n = r.latest
      THEN r
      ELSE [r EXCEPT !.latest = n, !.exact = @ /\ n = r.latest + 1]

NewReplica(owner, type, n) ==
    [sid |-> owner, type |-> type, latest |-> n, exact |-> TRUE]

\* The indices of the interest markers that HandleUpdate pushes to.
LiveMarkers(s, g) ==
    {i \in DOMAIN interest[s][g] : /\ interest[s][g][i].sid # s
                                   /\ interest[s][g][i].left > 0
                                   /\ interest[s][g][i].sid \in peers[s]}

-----------------------------------------------------------------------------
(***************************************************************************)
(* Objects: spawning, updating, deleting.                                  *)
(***************************************************************************)

ConnectToPeer(s, p) ==
    /\ p \notin peers[s] \cup {s}
    /\ peers' = [peers EXCEPT ![s] = @ \cup {p}]
    /\ UNCHANGED <<primaries, replicas, interest, tasks, calls, origin, serialized>>

Spawn(s, g, type) ==
    /\ g \in Fresh
    /\ primaries' = [primaries EXCEPT ![s][g] = [type |-> type, ver |-> 0]]
    /\ interest' = [interest EXCEPT ![s][g] = <<>>]
    /\ origin' = [origin EXCEPT ![g] = [server |-> s, parent |-> None, event |-> 0]]
    /\ UNCHANGED <<replicas, peers, tasks, calls, serialized>>

\* What the event deletes, and the sets of objects it may create.
Deleted(g, input) == IF "Die" \in input THEN {g} ELSE {}
Created(o, input) ==
    IF o.type = "Player" /\ "Shoot" \in input THEN {{h} : h \in Fresh} ELSE {{}}

\* The owner's objects after event n of g.
\* Faulty: what the pushes announce as deleted is kept.
AfterEventUndeleted(s, g, n, input, new) ==
    Put([primaries[s] EXCEPT ![g] = ApplyToPrimary(@, n)],
        new, [type |-> "Projectile", ver |-> 0])

AfterEvent(s, g, n, input, new) ==
    Put(Put([primaries[s] EXCEPT ![g] = ApplyToPrimary(@, n)],
            new, [type |-> "Projectile", ver |-> 0]),
        Deleted(g, input), None)

\* One push for every live marker.
Pushes(s, g, n, input, new) ==
    {[from |-> s, to |-> interest[s][g][i].sid, guid |-> g, event |-> n,
      input |-> input, created |-> IF ProactiveReplication THEN new ELSE {},
      deleted |-> Deleted(g, input), marker |-> i] : i \in LiveMarkers(s, g)}

\* HandleUpdate at the owner: apply the event, spawn what it created, push it to
\* every live marker, delete what died.  The other calls in flight are rest.
UpdatePrimary(s, g, input, rest) ==
    LET o == primaries[s][g]
        n == serialized[g] + 1
        dead == Deleted(g, input)
    IN  /\ o # None
        /\ n <= MaxEvents
        /\ serialized' = [serialized EXCEPT ![g] = n]
        /\ \E new \in Created(o, input) :
             /\ primaries' = [primaries EXCEPT ![s] = AfterEvent(s, g, n, input, new)]
             /\ interest' = [interest EXCEPT ![s] = Put(@, new \cup dead, <<>>)]
             /\ replicas' = [replicas EXCEPT ![s] = Put(@, dead, None)]
             /\ origin' = Put(origin, new, [server |-> s, parent |-> g, event |-> n])
             /\ calls' = rest \cup Pushes(s, g, n, input, new)
             /\ Cardinality(calls') <= MaxCalls
        /\ UNCHANGED <<peers, tasks>>

\* HandleUpdate at a replica: ask the owner.
ForwardedCall(s, g, input) ==
    [from |-> s, to |-> replicas[s][g].sid, guid |-> g, event |-> None,
     input |-> input, created |-> {}, deleted |-> {}, marker |-> 0]

\* Faulty: the input is applied to the replica at once.
ForwardUpdatePredicted(s, g, input) ==
    /\ primaries[s][g] = None
    /\ replicas[s][g] # None
    /\ replicas[s][g].latest < MaxEvents
    /\ replicas' = [replicas EXCEPT ![s][g] = ApplyToReplica(@, @.latest + 1)]
    /\ UNCHANGED <<primaries, interest, peers, tasks, calls, origin, serialized>>

ForwardUpdate(s, g, input) ==
    /\ primaries[s][g] = None
    /\ replicas[s][g] # None
    /\ replicas[s][g].sid \in peers[s]
    /\ ForwardedCall(s, g, input) \notin calls
    /\ Cardinality(calls) < MaxCalls
    /\ calls' = calls \cup {ForwardedCall(s, g, input)}
    /\ UNCHANGED <<primaries, replicas, interest, peers, tasks, origin, serialized>>

\* One goroutine of AdvanceGameState.
AdvanceGameState(s, g, input) ==
    \/ UpdatePrimary(s, g, input, calls)
    \/ ForwardUpdate(s, g, input)

\* The replicas of c.to after the push c.
\* Faulty: a created object is stored as if the receiver owned it.
AfterPushOwned(c) ==
    LET r == replicas[c.to][c.guid]
        new == IF ProactiveReplication THEN c.created ELSE {}
    IN  Put(Put([replicas[c.to] EXCEPT ![c.guid] = ApplyToReplica(r, c.event)],
                new, NewReplica(c.to, "Projectile", 0)),
            c.deleted, None)

AfterPush(c) ==
    LET r == replicas[c.to][c.guid]
        new == IF ProactiveReplication THEN c.created ELSE {}
    IN  Put(Put([replicas[c.to] EXCEPT ![c.guid] = ApplyToReplica(r, c.event)],
                new, NewReplica(r.sid, "Projectile", 0)),
            c.deleted, None)

\* The Update handler when the target is a replica: a push from the owner.
\* Faulty: a replica spawns what its event creates.
UpdateReplicaSpawning(c, rest) ==
    /\ primaries[c.to][c.guid] = None
    /\ replicas[c.to][c.guid] # None
    /\ \E new \in Created(replicas[c.to][c.guid], c.input) :
         /\ primaries' = [primaries EXCEPT ![c.to] =
                             Put(@, new, [type |-> "Projectile", ver |-> 0])]
         /\ origin' = Put(origin, new,
                          [server |-> c.to, parent |-> c.guid, event |-> c.event])
    /\ replicas' = [replicas EXCEPT ![c.to] = AfterPush(c)]
    /\ calls' = rest
    /\ UNCHANGED <<interest, peers, tasks, serialized>>

UpdateReplica(c, rest) ==
    /\ primaries[c.to][c.guid] = None
    /\ replicas[c.to][c.guid] # None
    /\ replicas' = [replicas EXCEPT ![c.to] = AfterPush(c)]
    /\ primaries' = [primaries EXCEPT ![c.to] = Put(@, c.deleted, None)]
    /\ interest' = [interest EXCEPT ![c.to] = Put(@, c.deleted, <<>>)]
    /\ calls' = rest
    /\ UNCHANGED <<peers, tasks, origin, serialized>>

\* The Update handler when the server knows nothing of the target.
UpdateUnknown(c, rest) ==
    /\ primaries[c.to][c.guid] = None
    /\ replicas[c.to][c.guid] = None
    /\ calls' = rest
    /\ UNCHANGED <<primaries, replicas, interest, peers, tasks, origin, serialized>>

Update(c, rest) ==
    \/ UpdatePrimary(c.to, c.guid, c.input, rest)
    \/ UpdateReplica(c, rest)
    \/ UpdateUnknown(c, rest)

ReceiveUpdate(c) == c \in calls /\ Update(c, calls \ {c})

\* A client calls Update on the server that spawned its avatar.
ClientCall(s, g, input) ==
    [from |-> s, to |-> s, guid |-> g, event |-> None, input |-> input,
     created |-> {}, deleted |-> {}, marker |-> 0]

\* Faulty: a client may talk to any server.
ClientUpdateAnywhere(g, input) == \E s \in Server : Update(ClientCall(s, g, input), calls)

ClientUpdate(g, input) ==
    /\ origin[g] # None
    /\ Update(ClientCall(origin[g].server, g, input), calls)

\* A push or a forwarded input whose call fails: the error is logged.
UpdateFails(c) ==
    /\ Failures
    /\ c \in calls
    /\ calls' = calls \ {c}
    /\ UNCHANGED <<primaries, replicas, interest, peers, tasks, origin, serialized>>

-----------------------------------------------------------------------------
(***************************************************************************)
(* Interest: discovering objects, registering, renewing, cleaning up.      *)
(***************************************************************************)

\* A goroutine that still has to call the peers p with need[p] # {}, if any.
Looping(renewal, need) ==
    IF \A p \in Server : need[p] = {}
      THEN None
      ELSE [renewal |-> renewal, need |-> need, stage |-> "loop",
            peer |-> None, reply |-> NoReply]

\* The rest of the loop of task k, done with peer p.
Continue(k, p) == Looping(k.renewal, [k.need EXCEPT ![p] = {}])

\* What s asks each server for: the objects of other servers it has no replica of.
Needed(s, matches) ==
    [p \in Server |-> {g \in matches : /\ origin[g].server = p
                                       /\ p # s
                                       /\ replicas[s][g] = None}]

\* The locator reports publications.  The lock is released before the first call.
NotifySubscriber(s, t, matches) ==
    /\ tasks[s][t] = None
    /\ tasks' = [tasks EXCEPT ![s][t] = Looping(FALSE, Needed(s, matches))]
    /\ UNCHANGED <<primaries, replicas, interest, peers, calls, origin, serialized>>

\* The replicas that may have been published: any object spawned so far.
Published == {g \in Guid : origin[g] # None}

\* CleanupLoop drops the replicas that are not in keep and starts a goroutine
\* that renews the server's interest in the others.
CleanupLoop(s, t, keep) ==
    /\ \A g \in keep : replicas[s][g] # None
    /\ (\A g \in Guid : primaries[s][g] = None) => keep = {}
    /\ tasks[s][t] = None
    /\ replicas' = [replicas EXCEPT ![s] = Put(@, Guid \ keep, None)]
    /\ tasks' = [tasks EXCEPT ![s][t] =
           Looping(TRUE, [p \in Server |-> {g \in keep : replicas[s][g].sid = p}])]
    /\ UNCHANGED <<primaries, interest, peers, calls, origin, serialized>>

\* The loop takes any peer that is left; one without an endpoint is skipped.
CallPeer(s, t, p) ==
    LET k == tasks[s][t]
    IN  /\ k # None
        /\ k.stage = "loop"
        /\ k.need[p] # {}
        /\ tasks' = [tasks EXCEPT ![s][t] =
               IF p \in peers[s] THEN [k EXCEPT !.stage = "call", !.peer = p]
                                 ELSE Continue(k, p)]
        /\ UNCHANGED <<primaries, replicas, interest, peers, calls, origin, serialized>>

\* The requested objects the called peer still has, its interest markers after the call of
\* s, and its answer.  NotifySubscriber asks for an object as often as the locator named
\* it, once for every subscription it matched.
Held(k) == {g \in k.need[k.peer] : primaries[k.peer][g] # None}
Named(k) == IF k.renewal THEN [Held(k) -> {1}] ELSE [Held(k) -> 1 .. MaxMarkers]

Markers(s, n) == [i \in 1 .. n |-> [sid |-> s, left |-> InterestTTL]]

\* Faulty: only a renewal leaves markers.
MarkedOnRenewal(s, k, times) ==
    [g \in Guid |-> IF g \in Held(k) /\ k.renewal
                      THEN interest[k.peer][g] \o Markers(s, times[g])
                      ELSE interest[k.peer][g]]

Marked(s, k, times) ==
    [g \in Guid |-> IF g \in Held(k)
                      THEN interest[k.peer][g] \o Markers(s, times[g])
                      ELSE interest[k.peer][g]]

States(k) == [g \in Guid |-> IF g \in Held(k) THEN primaries[k.peer][g] ELSE None]

\* The owner answers with the state of the objects it still has and appends an
\* interest marker to each one named, whether the call is a renewal or not.
RegisterInterest(s, t) ==
    LET k == tasks[s][t]
    IN  /\ k # None
        /\ k.stage = "call"
        /\ \E times \in Named(k) :
              /\ \A g \in Held(k) : Len(interest[k.peer][g]) + times[g] <= MaxMarkers
              /\ interest' = [interest EXCEPT ![k.peer] = Marked(s, k, times)]
        /\ tasks' = [tasks EXCEPT ![s][t] =
               [k EXCEPT !.stage = "reply", !.reply = States(k)]]
        /\ UNCHANGED <<primaries, replicas, peers, calls, origin, serialized>>

\* The replicas of s with the snapshots task k got stored over whatever is there.
Installed(s, k) ==
    [g \in Guid |-> IF k.reply[g] = None THEN replicas[s][g]
                    ELSE NewReplica(k.peer, k.reply[g].type, k.reply[g].ver)]

\* NotifySubscriber installs the states it asked for; a renewal ignores them.
ReceiveStates(s, t) ==
    LET k == tasks[s][t]
    IN  /\ k # None
        /\ k.stage = "reply"
        /\ replicas' = IF k.renewal THEN replicas
                       ELSE [replicas EXCEPT ![s] = Installed(s, k)]
        /\ tasks' = [tasks EXCEPT ![s][t] = Continue(k, k.peer)]
        /\ UNCHANGED <<primaries, interest, peers, calls, origin, serialized>>

\* The call fails before or after the owner handled it: the loop goes on.
RegisterFails(s, t) ==
    LET k == tasks[s][t]
    IN  /\ Failures
        /\ k # None
        /\ k.stage \in {"call", "reply"}
        /\ tasks' = [tasks EXCEPT ![s][t] = Continue(k, k.peer)]
        /\ UNCHANGED <<primaries, replicas, interest, peers, calls, origin, serialized>>

\* Time passes for every marker.
Tick ==
    /\ interest' = [s \in Server |-> [g \in Guid |->
           [i \in DOMAIN interest[s][g] |->
              [interest[s][g][i] EXCEPT !.left = IF @ = 0 THEN 0 ELSE @ - 1]]]]
    /\ UNCHANGED <<primaries, replicas, peers, tasks, calls, origin, serialized>>

-----------------------------------------------------------------------------
ObjectStep ==
    \/ \E s, p \in Server : ConnectToPeer(s, p)
    \/ \E s \in Server, g \in Guid, type \in Type : Spawn(s, g, type)
    \/ \E s \in Server, g \in Guid, input \in Input : AdvanceGameState(s, g, input)
    \/ \E g \in Guid, input \in Input : ClientUpdate(g, input)
    \/ \E c \in calls : ReceiveUpdate(c) \/ UpdateFails(c)

InterestStep ==
    \/ \E s \in Server, t \in Task, matches \in SUBSET Published :
         NotifySubscriber(s, t, matches)
    \/ \E s \in Server, t \in Task, keep \in SUBSET Guid : CleanupLoop(s, t, keep)
    \/ \E s \in Server, t \in Task, p \in Server : CallPeer(s, t, p)
    \/ \E s \in Server, t \in Task :
         RegisterInterest(s, t) \/ ReceiveStates(s, t) \/ RegisterFails(s, t)

Next == ObjectStep \/ InterestStep \/ Tick

Spec == Init /\ [][Next]_vars

-----------------------------------------------------------------------------
(***************************************************************************)
(* Properties.                                                             *)
(***************************************************************************)

\* The owner still has the primary copy.
Live(g) == origin[g] # None /\ primaries[origin[g].server][g] # None

\* The owner of g holds an interest marker of s, expired or not.
Registered(s, g) ==
    LET markers == interest[origin[g].server][g]
    IN  \E i \in DOMAIN markers : markers[i].sid = s

\* Every table and message keeps its shape.  In particular no input without a
\* timestamp is ever applied to a replica: the Update RPC tells a push from a
\* forwarded or a client's input only by the tables of the server it reaches.
TypeOK ==
    /\ primaries \in [Server -> [Guid -> Primary \cup {None}]]
    /\ replicas \in [Server -> [Guid -> Replica \cup {None}]]
    /\ interest \in [Server -> [Guid -> Seq(Marker)]]
    /\ peers \in [Server -> SUBSET Server]
    /\ tasks \in [Server -> [Task -> TaskState \cup {None}]]
    /\ calls \in SUBSET UpdateCall
    /\ origin \in [Guid -> Origin \cup {None}]
    /\ serialized \in [Guid -> Nat]

\* An object has its primary on the server that spawned it and nowhere else, and
\* a replica, never on that server, says who the owner is: HandleUpdate forwards
\* inputs to, and CleanupLoop renews interest with, the sid in the replica.
OneOwner ==
    \A s \in Server, g \in Guid :
       /\ primaries[s][g] # None => origin[g] # None /\ origin[g].server = s
       /\ replicas[s][g] # None => /\ origin[g] # None
                                   /\ replicas[s][g].sid = origin[g].server
                                   /\ s # origin[g].server

\* A replica's latest event is one the owner serialized: a server that forwards
\* an input waits for the owner instead of applying it to its replica.
NeverAhead ==
    \A s \in Server, g \in Guid :
       replicas[s][g] # None => replicas[s][g].latest <= serialized[g]

\* A replica of a living object that the owner has no marker for is one that came
\* with its creator's event and has seen no event of its own; the holder is known
\* to the owner as a subscriber of the creator.
UnregisteredIsNewborn ==
    \A s \in Server, g \in Guid :
       replicas[s][g] # None /\ Live(g) /\ ~Registered(s, g)
       => /\ ProactiveReplication
          /\ replicas[s][g].latest = 0
          /\ origin[g].parent # None
          /\ Live(origin[g].parent) => Registered(s, origin[g].parent)

\* A shot brings one projectile into being, on the shooter's server, although every
\* replica of the shooter applies the shot as well.
OneProjectilePerShot ==
    \A g \in Guid :
       origin[g] # None /\ origin[g].parent # None
       => /\ origin[g].server = origin[origin[g].parent].server
          /\ \A h \in Guid : origin[h] = origin[g] => h = g

\* A replica disappears only in CleanupLoop or because the object is dead at its
\* owner: a deletion is announced by no one else and for nothing else.
CopiesVanishWithObject ==
    [][\A s \in Server, g \in Guid :
          replicas[s][g] # None /\ replicas'[s][g] = None
          => \/ ~Live(g)'
             \/ \E t \in Task, keep \in SUBSET Guid : CleanupLoop(s, t, keep)]_vars

\* The objects and copies of PrimaryCopy that the tables stand for.
Objects ==
    [g \in Guid |->
        IF origin[g] = None THEN None
        ELSE [owner |-> origin[g].server, version |-> serialized[g], alive |-> Live(g)]]

Copies ==
    [s \in Server |-> [g \in Guid |->
        IF replicas[s][g] = None THEN None ELSE replicas[s][g].latest]]

\* The replication manager implements primary copies: see PrimaryCopy.
PC == INSTANCE PrimaryCopy WITH objects <- Objects, copies <- Copies

ImplementsPrimaryCopy == PC!Spec

-----------------------------------------------------------------------------
(***************************************************************************)
(* The inductive invariant: what messages and goroutines in flight know.   *)
(***************************************************************************)

\* An input without an event number is on its way to the owner; a push is on its
\* way from the owner to someone else, brings objects of the same owner and
\* deletes nothing but its target.
CallsRouted ==
    \A c \in calls :
       /\ origin[c.guid] # None
       /\ c.event = None => /\ c.to = origin[c.guid].server
                            /\ c.created = {} /\ c.deleted = {}
       /\ c.event # None => /\ c.from = origin[c.guid].server
                            /\ c.to # c.from
       /\ \A h \in c.created : origin[h] # None /\ origin[h].server = c.from
       /\ c.deleted \subseteq {c.guid}

\* A goroutine asks a server other than its own for objects of that server, and
\* gets an answer only about what it asked for.
TaskRouted(s, k) ==
    /\ \A p \in Server : \A g \in k.need[p] :
          origin[g] # None /\ origin[g].server = p /\ p # s
    /\ k.stage # "loop" => k.peer \in Server /\ k.peer # s
    /\ \A g \in Guid : k.reply[g] # None => k.stage = "reply" /\ g \in k.need[k.peer]

TasksRouted ==
    \A s \in Server, t \in Task : tasks[s][t] # None => TaskRouted(s, tasks[s][t])

Routing == TypeOK /\ OneOwner /\ CallsRouted /\ TasksRouted

\* No primary, push or state in an answer has an event that the owner has not
\* serialized, and so no replica has.
PrimariesBehind ==
    \A s \in Server, g \in Guid :
       primaries[s][g] # None => primaries[s][g].ver <= serialized[g]

CallsBehind ==
    \A c \in calls : c.event # None => c.event <= serialized[c.guid]

StatesBehind ==
    \A s \in Server, t \in Task, g \in Guid :
       tasks[s][t] # None /\ tasks[s][t].reply[g] # None
       => tasks[s][t].reply[g].ver <= serialized[g]

Behind == PrimariesBehind /\ CallsBehind /\ StatesBehind /\ NeverAhead

\* Nothing has happened to an object nobody spawned; a created object's parent had
\* the event that created it.
OriginsKnown ==
    \A g \in Guid :
       /\ origin[g] = None => serialized[g] = 0
       /\ origin[g] # None /\ origin[g].parent # None =>
            /\ origin[origin[g].parent] # None
            /\ origin[g].event <= serialized[origin[g].parent]

\* A push creates objects made by its target, and deletes its target only once it
\* is dead; the receiver is registered for as long as the target lives.
CallsCurrent ==
    \A c \in calls :
       /\ c.event # None /\ Live(c.guid) => Registered(c.to, c.guid)
       /\ c.created # {} => ProactiveReplication
       /\ \A h \in c.created : origin[h].parent = c.guid
       /\ c.deleted # {} => ~Live(c.guid)

\* The owner marked what it answered with.
StatesCurrent ==
    \A s \in Server, t \in Task, g \in Guid :
       tasks[s][t] # None /\ tasks[s][t].reply[g] # None /\ Live(g) => Registered(s, g)

IInv ==
    /\ Routing
    /\ Behind
    /\ OriginsKnown
    /\ OneProjectilePerShot
    /\ CallsCurrent
    /\ StatesCurrent
    /\ UnregisteredIsNewborn

-----------------------------------------------------------------------------
\* What server.go:299 says of a renewal: the owner need only "update TTL".  The code
\* appends one more marker instead.
RenewalUpdatesTTL ==
    [][\A s \in Server, t \in Task :
          tasks[s][t] # None /\ tasks[s][t].renewal /\ RegisterInterest(s, t)
          => \A o \in Server, g \in Guid : Len(interest'[o][g]) = Len(interest[o][g])]_vars

\* What server.go:411-412 says of an update: it "will eventually be replicated" to a
\* server with a replica.  So when nothing is in flight, a replica with an unexpired
\* marker at a connected owner is what the owner has.
ReplicatedAtRest ==
    calls = {} /\ (\A s \in Server, t \in Task : tasks[s][t] = None)
    => \A s, o \in Server, g \in Guid :
          (\E i \in LiveMarkers(o, g) : interest[o][g][i].sid = s)
          /\ replicas[s][g] # None /\ primaries[o][g] # None
          => replicas[s][g].latest = primaries[o][g].ver /\ replicas[s][g].exact
=============================================================================
