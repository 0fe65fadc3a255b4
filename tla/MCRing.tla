------------------------------- MODULE MCRing -------------------------------
(***************************************************************************)
(* Three nodes: a ring that grows from one node, and a ring laid out       *)
(* beforehand that one node crashes in, that one leaves to rejoin, or that *)
(* probes its peers.  Four nodes: a ring that grows.                       *)
(***************************************************************************)
EXTENDS Ring

Quiet == [static |-> TRUE, apart |-> TRUE, crash |-> 0, leave |-> 0, loss |-> 0, ping |-> 0]
GrowingApart == [Quiet EXCEPT !.static = FALSE]
Growing == [GrowingApart EXCEPT !.apart = FALSE]

MCBudgets ==
    {Growing, GrowingApart,
     [Quiet EXCEPT !.crash = 1],
     [Quiet EXCEPT !.apart = FALSE, !.leave = 1],
     [Quiet EXCEPT !.ping = 1, !.loss = 1]}

MCBudgetsOfJoins == {Growing}

\* The first node's range wraps around.
MCStaticRange ==
    <<[min |-> 7, max |-> 2], [min |-> 2, max |-> 5], [min |-> 5, max |-> 7]>>
MCStaticRangeOfFour ==
    <<[min |-> 14, max |-> 4], [min |-> 4, max |-> 8],
      [min |-> 8, max |-> 11], [min |-> 11, max |-> 14]>>
=============================================================================
