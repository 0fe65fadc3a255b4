---------------------------- MODULE PrimaryCopy ----------------------------
(***************************************************************************)
(* What the replication manager promises, without calls, markers, tasks or *)
(* clocks: every object has one owner for life, only the owner moves it    *)
(* on, death is final, an object made by another's event belongs to the    *)
(* same owner, and any other server may hold, change or drop a copy of any *)
(* version the object has had.  A copy may be old; it is never invented.   *)
(***************************************************************************)
EXTENDS Naturals

CONSTANTS Server, Guid, None

VARIABLES
    objects,   \* None until created, then the owner, the number of events the
               \* object has had, and whether it still exists
    copies     \* the version a server has a copy of, or None

Object == [owner : Server, version : Nat, alive : BOOLEAN]

New(s) == [owner |-> s, version |-> 0, alive |-> TRUE]

Init ==
    /\ objects = [g \in Guid |-> None]
    /\ copies = [s \in Server |-> [g \in Guid |-> None]]

Create(s, g) ==
    /\ objects[g] = None
    /\ objects' = [objects EXCEPT ![g] = New(s)]
    /\ UNCHANGED copies

\* The owner applies an event: the object moves on, may die, and may bring
\* objects into being.
Modify(g) ==
    /\ objects[g] # None
    /\ objects[g].alive
    /\ \E new \in SUBSET {h \in Guid : objects[h] = None}, survives \in BOOLEAN :
         objects' = [h \in Guid |->
             IF h = g THEN [owner |-> objects[g].owner,
                            version |-> objects[g].version + 1, alive |-> survives]
             ELSE IF h \in new THEN New(objects[g].owner)
             ELSE objects[h]]
    /\ UNCHANGED copies

\* The versions of g that a copy at s may be.
Versions(s, g) ==
    IF objects[g] = None \/ objects[g].owner = s THEN {} ELSE 0 .. objects[g].version

Copy(s) ==
    /\ \E f \in [Guid -> {None} \cup UNION {Versions(s, g) : g \in Guid}] :
         /\ \A g \in Guid : f[g] \in {None} \cup Versions(s, g)
         /\ copies' = [copies EXCEPT ![s] = f]
    /\ UNCHANGED objects

Next ==
    \/ \E s \in Server, g \in Guid : Create(s, g)
    \/ \E g \in Guid : Modify(g)
    \/ \E s \in Server : Copy(s)

Spec == Init /\ [][Next]_<<objects, copies>>
=============================================================================
