-------------------------------- MODULE Routing --------------------------------
(***************************************************************************)
(* The next hop in a hub, from the peers a node knows (mercury/Hub.cpp,    *)
(* mercury/PubsubRouter.cpp).  h.view gives a peer's range as h knows it,  *)
(* or None; h.succ is the list of successors, h.pred the predecessor.      *)
(* The cache of ranges is off by default and is left out.                  *)
(***************************************************************************)
EXTENDS Circle, Sequences, FiniteSets, SequencesExt, FiniteSetsExt

CONSTANTS Node, None

Peers(h) == {m \in Node : h.view[m] # None}

\* The peers in the order of their ranges.
SortedPeers(h) ==
    FoldSet(LAMBDA m, s : InsertAt(s, 1 + Len(SelectSeq(s, LAMBDA o : h.view[o].min < h.view[m].min)), m),
            <<>>, Peers(h))

Less(val, other) == IF val = AbsMax THEN val <= other ELSE val < other

\* Of the peers in that order, the one that answers for val, or the one before the gap
\* val lies in; None where an assertion of the code fails.
Nearest(h, peers, val) ==
    LET R(i) == h.view[peers[i]]
        End(i) == IF Wraps(R(i)) THEN AbsMax ELSE R(i).max
        hits == {i \in 1 .. Len(peers) - 1 : val >= R(i).max /\ Less(val, End(i + 1))}
        hit == Min(hits)
    IN  IF hits # {} THEN IF val < R(hit + 1).min THEN peers[hit] ELSE peers[hit + 1]
        ELSE IF peers = <<>> THEN None
        ELSE IF val >= R(Len(peers)).max THEN Last(peers)
        ELSE IF val >= R(1).max THEN None
        ELSE IF val >= R(1).min THEN Head(peers) ELSE Last(peers)

GetNearestPeer(h, val) == Nearest(h, SortedPeers(h), val)

\* Faulty: the nearest peer behind the value is taken to be the last one that begins
\* before it, the node itself left out of account.
ComputeNextHopStraight(h, val) ==
    LET before == {m \in Peers(h) : h.view[m].min <= val}
    IN  IF before = {} THEN None
        ELSE CHOOSE m \in before : \A o \in before : h.view[o].min <= h.view[m].min

\* A message that would go back to the predecessor is dropped, unless the predecessor
\* answers for the value.
NotBack(h, peer, val) ==
    IF peer # None /\ ~Covers(h.view[peer], val) /\ peer = h.pred /\ ~Contains(h.succ, peer)
    THEN None ELSE peer

ComputeNextHop(h, val) == NotBack(h, GetNearestPeer(h, val), val)

\* The peers a range concerns; a range of one value concerns none.
GetCoveringPeers(h, c) ==
    IF c.min = c.max THEN <<>>
    ELSE SelectSeq(SortedPeers(h),
                   LAMBDA m : \/ IsBetweenInclusive(h.view[m].min, c.min, c.max)
                              \/ IsBetweenLeftInclusive(c.min, h.view[m].min, h.view[m].max))
================================================================================
