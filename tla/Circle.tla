-------------------------------- MODULE Circle --------------------------------
(***************************************************************************)
(* The values of one attribute (mercury/MercuryID.cpp) and constraints on  *)
(* it (mercury/Constraint.cpp): a node's range may wrap around the end of  *)
(* the circle, the range of an interest or of an event does not.           *)
(***************************************************************************)
EXTENDS Integers

CONSTANT AbsMax     \* the attribute takes values 0 .. AbsMax

NodeRange == [min : 0 .. AbsMax, max : 0 .. AbsMax]
Whole == [min |-> 0, max |-> AbsMax]
Wraps(r) == r.min > r.max

IsBetween(test, left, right) ==
    \/ left = right
    \/ left < right /\ left < test /\ test < right
    \/ left > right /\ (test > left \/ test < right)

IsBetweenRightInclusive(test, left, right) ==
    \/ left = right
    \/ left < right /\ left < test /\ test <= right
    \/ left > right /\ (test > left \/ test <= right)

IsBetweenLeftInclusive(test, left, right) ==
    \/ left = right
    \/ left < right /\ left <= test /\ test < right
    \/ left > right /\ (test >= left \/ test < right)

IsBetweenInclusive(test, left, right) ==
    \/ left = right
    \/ left < right /\ left <= test /\ test <= right
    \/ left > right /\ (test >= left \/ test <= right)

\* The span of r on a circle that ends at absmax.
GetSpan(r, absmax) ==
    IF r.min <= r.max THEN r.max - r.min ELSE absmax - r.min + r.max

\* GetRangeSpan takes the span on a circle that ends one value early.
RangeSpan(r) == GetSpan(r, AbsMax - 1)

\* Where a range is split.
Middle(r) ==
    LET mid == r.min + RangeSpan(r) \div 2
    IN  IF mid > AbsMax THEN mid - AbsMax ELSE mid

\* The values a node with range r answers for.
Cells(r) ==
    {v \in 0 .. AbsMax - 1 : IF Wraps(r) THEN r.min <= v \/ v < r.max
                                         ELSE r.min <= v /\ v < r.max}

\* A range that wraps covers nothing.
Covers(r, val) ==
    IF Wraps(r) THEN val >= r.min /\ val < r.max ELSE r.min <= val /\ val < r.max

Overlaps(c, d) ==
    \/ c.min >= d.min /\ c.min <= d.max
    \/ d.min >= c.min /\ d.min <= c.max

OverlapsNodeRange(c, r) ==
    IF r.min < r.max THEN Overlaps(c, r) ELSE ~(c.min >= r.max /\ c.max < r.min)

AmRightMost(r) == r.max = AbsMax

\* Faulty: a range that ends where the node's does goes no further.
RouteDirectionsShort(c, r) ==
    IF Wraps(r)
    THEN [left |-> FALSE, right |-> TRUE, center |-> ~(c.min >= r.max /\ c.max < r.min)]
    ELSE [left   |-> c.min < r.min,
          right  |-> ~AmRightMost(r) /\ c.max > r.max,
          center |-> c.max >= r.min /\ IF AmRightMost(r) THEN c.min <= r.max ELSE c.min < r.max]

\* Where a constraint lies as seen from a node with range r.
RouteDirections(c, r) ==
    IF Wraps(r)
    THEN [left |-> FALSE, right |-> TRUE, center |-> ~(c.min >= r.max /\ c.max < r.min)]
    ELSE [left   |-> c.min < r.min,
          right  |-> ~AmRightMost(r) /\ c.max >= r.max,
          center |-> c.max >= r.min /\ IF AmRightMost(r) THEN c.min <= r.max ELSE c.min < r.max]
=============================================================================
