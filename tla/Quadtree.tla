------------------------------ MODULE Quadtree ------------------------------
(***************************************************************************)
(* The locator's store (demo/locator/quadtree.go): publications of object  *)
(* locations and subscriptions to areas of interest, kept in a quadtree    *)
(* until they expire or a later entry of the same object supersedes them.  *)
(*                                                                         *)
(* Insert, Query and Cleanup hold the root's mutex from start to end, so   *)
(* each is one step.  Their recursion over the tree is written out: a node *)
(* is the path of quadrants that leads to it, "store" and "divided" are    *)
(* indexed by nodes, and a step changes every node the recursion visits.   *)
(*   - Insert goes from a full node to the first child its rectangle       *)
(*     touches, so it walks the chain of first touched quadrants.          *)
(*   - Query visits the nodes that touch its rectangle.                    *)
(*   - Cleanup visits all nodes, children first.                           *)
(*                                                                         *)
(* Coordinates are whole numbers and the clock counts ticks.  Bounds (the  *)
(* code has none): MaxDepth levels below the root, MaxStored entries, and  *)
(* MaxTime ticks.                                                          *)
(***************************************************************************)
EXTENDS Integers, Sequences, FiniteSets

CONSTANTS
    Size,       \* side of the world, a multiple of 2^MaxDepth
    Capacity,   \* entries a node holds before it divides
    Rect,       \* the rectangles that are published and subscribed to
    Sid, Guid,
    Owner,      \* the server an object belongs to
    Life,       \* for how long an entry is asked to be kept (ttl of a request)
    MaxDepth, MaxStored, MaxTime

Rectangle == [x : Int, y : Int, w : Nat, h : Nat]

ASSUME QuadtreeAssumption ==
    /\ MaxDepth \in Nat /\ MaxStored \in Nat /\ MaxTime \in Nat
    /\ Size \in Nat \ {0} /\ Size % (2 ^ MaxDepth) = 0
    /\ Capacity \in Nat \ {0}
    /\ Rect \subseteq Rectangle
    /\ Owner \in [Guid -> Sid]
    /\ Life \subseteq Nat \ {0}

Node == UNION {[1 .. d -> 1 .. 4] : d \in 0 .. MaxDepth}

\* ttl is the time at which the entry expires.
Storable == [rect : Rect, sid : Sid, guid : Guid, ttl : Nat, isSubscription : BOOLEAN]

VARIABLES
    store,         \* what every node holds, in order
    divided,       \* the nodes that have children
    lastUpdates,   \* the expiry of the last entry inserted for an object, 0 if none
    now

vars == <<store, divided, lastUpdates, now>>

Init ==
    /\ store = [p \in Node |-> <<>>]
    /\ divided = {}
    /\ lastUpdates = [g \in Guid |-> 0]
    /\ now = 0

-----------------------------------------------------------------------------
(***************************************************************************)
(* Geometry.                                                               *)
(***************************************************************************)

\* Rectangles that share an edge or a corner intersect.
Intersects(r, o) ==
    /\ o.x <= r.x + r.w /\ r.x <= o.x + o.w
    /\ o.y <= r.y + r.h /\ r.y <= o.y + o.h

Contains(r, o) ==
    /\ r.x <= o.x /\ o.x + o.w <= r.x + r.w
    /\ r.y <= o.y /\ o.y + o.h <= r.y + r.h

\* The north-west, north-east, south-west and south-east quarters of b.
Quadrant(b, i) ==
    LET w == b.w \div 2
        h == b.h \div 2
    IN  [x |-> IF i \in {2, 4} THEN b.x + w ELSE b.x,
         y |-> IF i \in {3, 4} THEN b.y + h ELSE b.y,
         w |-> w, h |-> h]

Parent(p) == SubSeq(p, 1, Len(p) - 1)

Boundary[p \in Node] ==
    IF p = <<>> THEN [x |-> 0, y |-> 0, w |-> Size, h |-> Size]
                ELSE Quadrant(Boundary[Parent(p)], p[Len(p)])

Ancestors(p) == {SubSeq(p, 1, d) : d \in 0 .. Len(p) - 1}

\* The nodes Insert tries for rectangle r: the root and, after a full node, the
\* first of its children that r touches.
OnChain(p, r) ==
    \A q \in Ancestors(p) \cup {p} :
       /\ Intersects(Boundary[q], r)
       /\ q # <<>> => \A i \in 1 .. q[Len(q)] - 1 :
                         ~Intersects(Boundary[[q EXCEPT ![Len(q)] = i]], r)

-----------------------------------------------------------------------------
(***************************************************************************)
(* Operations.                                                             *)
(***************************************************************************)

\* The nodes there are.
Exists == {p \in Node : Ancestors(p) \subseteq divided}

Stale(st) == st.ttl < now \/ lastUpdates[st.guid] > st.ttl

\* What is left at a node once stale entries are expired: the others are copied one by one.
Kept(p) ==
    LET copied[i \in 0 .. Len(store[p])] ==
            IF i = 0 THEN <<>>
            ELSE IF Stale(store[p][i]) THEN copied[i - 1]
            ELSE Append(copied[i - 1], store[p][i])
    IN  copied[Len(store[p])]

Entries(p) == {store[p][i] : i \in DOMAIN store[p]}
Visible == {st \in UNION {Entries(p) : p \in Exists} : ~Stale(st)}
Stored == UNION {{<<p, i>> : i \in DOMAIN store[p]} : p \in Node}

\* Faulty: the last update is not recorded.
InsertUnrecorded(r, g, life, sub) ==
    \E p \in Node :
       /\ OnChain(p, r) /\ Len(Kept(p)) < Capacity
       /\ Cardinality(Stored) < MaxStored
       /\ \A q \in Ancestors(p) : Len(Kept(q)) >= Capacity
       /\ store' = [q \in Node |->
              IF q = p THEN Append(Kept(q), [rect |-> r, sid |-> Owner[g], guid |-> g,
                                             ttl |-> now + life, isSubscription |-> sub])
              ELSE IF q \in Ancestors(p) THEN Kept(q) ELSE store[q]]
       /\ divided' = divided \cup Ancestors(p)
       /\ UNCHANGED <<lastUpdates, now>>

\* Expire along the chain; store in its first node with room, dividing those above.
Insert(r, g, life, sub) ==
    \E p \in Node :
       /\ OnChain(p, r)
       /\ Len(Kept(p)) < Capacity
       /\ \A q \in Ancestors(p) : Len(Kept(q)) >= Capacity
       /\ Cardinality(Stored) < MaxStored
       /\ store' = [q \in Node |->
              IF q = p THEN Append(Kept(q), [rect |-> r, sid |-> Owner[g], guid |-> g,
                                             ttl |-> now + life, isSubscription |-> sub])
              ELSE IF q \in Ancestors(p) THEN Kept(q) ELSE store[q]]
       /\ divided' = divided \cup Ancestors(p)
       /\ lastUpdates' = [lastUpdates EXCEPT ![g] = now + life]
       /\ UNCHANGED now

Visited(r) == {p \in Exists : Intersects(Boundary[p], r)}

\* Faulty: a node with room has no children worth visiting.
FoundAboveRoom(r, sid, sub) ==
    {st \in UNION {Entries(p) : p \in {q \in Visited(r) :
                       \A a \in Ancestors(q) : Len(store[a]) >= Capacity}} :
        /\ ~Stale(st)
        /\ Intersects(r, st.rect)
        /\ st.isSubscription # sub
        /\ st.sid # sid}

\* What a query of server sid for rectangle r answers: entries of the other kind
\* from other servers.
Found(r, sid, sub) ==
    {st \in UNION {Entries(p) : p \in Visited(r)} :
        /\ ~Stale(st)
        /\ Intersects(r, st.rect)
        /\ st.isSubscription # sub
        /\ st.sid # sid}

\* A query expires what it passes.
Query(r) ==
    /\ store' = [p \in Node |-> IF p \in Visited(r) THEN Kept(p) ELSE store[p]]
    /\ UNCHANGED <<divided, lastUpdates, now>>

Descendants(p) == {q \in Exists : p \in Ancestors(q)}

\* The nodes that keep their children: a child still holds or has something.
\* Faulty: only what the children hold counts.
DividedByChildren ==
    {p \in divided : \E q \in Descendants(p) : Parent(q) = p /\ Kept(q) # <<>>}

StillDivided == {p \in divided : \E q \in Descendants(p) : Kept(q) # <<>>}

\* Expire everywhere; nodes with four empty and undivided children lose them.
Cleanup ==
    /\ divided' = StillDivided
    /\ store' = [p \in Node |-> IF p \in Exists THEN Kept(p) ELSE store[p]]
    /\ UNCHANGED <<lastUpdates, now>>

Tick == now < MaxTime /\ now' = now + 1 /\ UNCHANGED <<store, divided, lastUpdates>>

Next ==
    \/ \E r \in Rect, g \in Guid, life \in Life, sub \in BOOLEAN :
         Insert(r, g, life, sub)
    \/ \E r \in Rect : Query(r)
    \/ Cleanup
    \/ Tick

Spec == Init /\ [][Next]_vars

-----------------------------------------------------------------------------
(***************************************************************************)
(* Properties.                                                             *)
(***************************************************************************)

\* The tree keeps its shape: no node holds more than Capacity entries, and a node
\* that has children is reached from the root.
TypeOK ==
    /\ store \in [Node -> Seq(Storable)]
    /\ \A p \in Node : Len(store[p]) <= Capacity
    /\ divided \in SUBSET Exists
    /\ lastUpdates \in [Guid -> Nat]
    /\ now \in 0 .. MaxTime

\* A query finds whatever lies within its rectangle, however often nodes above the
\* entry were emptied and filled again, divided and coalesced.
ContainedIsFound ==
    \A st \in Visible, r \in Rect, sid \in Sid :
       Contains(r, st.rect) /\ sid # st.sid => st \in Found(r, sid, ~st.isSubscription)

\* Inserting, querying and cleaning up lose no entry that is neither expired nor
\* superseded: coalescing takes away empty nodes only.
LiveEntriesStay ==
    [][\A st \in Visible : st \in Visible' \/ Stale(st)']_vars

\* When every entry is kept for the same time, an object is seen as it was last
\* inserted: older entries of it, at other nodes, are never answered again.
LatestEntryOnly ==
    \A a, b \in Visible : a.guid = b.guid => a.ttl = b.ttl

\* What quadtree.go:125 says of Query: it "finds all rectangles that intersect with
\* the given rectangle".
IntersectingIsFound ==
    \A st \in Visible, r \in Rect, sid \in Sid :
       Intersects(r, st.rect) /\ sid # st.sid => st \in Found(r, sid, ~st.isSubscription)

\* What locator.go:87 says of publications: they "are stored in the quadtree for a
\* TTL", so one disappears when it expires or for a later publication of the object.
PublicationKeptForTTL ==
    [][\A st \in Visible : ~st.isSubscription =>
          \/ st \in Visible'
          \/ st.ttl < now'
          \/ \E later \in Visible' : /\ later.guid = st.guid
                                     /\ ~later.isSubscription
                                     /\ later.ttl > st.ttl]_vars
=============================================================================
