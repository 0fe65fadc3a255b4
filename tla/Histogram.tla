----------------------------- MODULE Histogram -----------------------------
(***************************************************************************)
(* Histograms of how many nodes there are in each part of a hub: made by   *)
(* a node from samples (mercury/Hub.cpp), or by the bootstrap server from  *)
(* the ranges it has heard of (mercury/BootstrapNode.cpp), and asked for   *)
(* the value that is so many nodes away (mercury/Sampling.cpp).            *)
(*                                                                         *)
(* A sample is a node's range and what it takes a node's span to be.       *)
(* Counts are floats in the code; here they are in 840ths, which is exact  *)
(* for spans of up to eight values.                                        *)
(***************************************************************************)
EXTENDS Circle, Sequences, SequencesExt

One == 840
Bucket(min, max, value) == [range |-> [min |-> min, max |-> max], value |-> value]
Span(r) == GetSpan(r, AbsMax)

SortBuckets(h) == SortSeq(h, LAMBDA p, q : p.range.min < q.range.min)

-----------------------------------------------------------------------------
(***************************************************************************)
(* From samples.                                                           *)
(***************************************************************************)

\* A range that wraps becomes two.
Unwrapped(s) ==
    IF ~Wraps(s.range) THEN <<s>>
    ELSE <<[s EXCEPT !.range.min = 0], [s EXCEPT !.range.max = AbsMax]>>

\* less_range_t
LessRange(s, t) ==
    s.range.min < t.range.min \/ (s.range.min = t.range.min /\ s.range.max < t.range.max)

\* Of samples that begin alike the last is kept, and a sample ends where the next begins.
MakeSamplesDisjoint(samples) ==
    FoldLeft(LAMBDA kept, s :
                 IF kept = <<>> THEN <<s>>
                 ELSE IF Last(kept).range.min = s.range.min THEN [kept EXCEPT ![Len(kept)] = s]
                 ELSE IF Overlaps(Last(kept).range, s.range)
                 THEN Append([kept EXCEPT ![Len(kept)].range.max = s.range.min], s)
                 ELSE Append(kept, s),
             <<>>, samples)

Disjoint(samples) == MakeSamplesDisjoint(SortSeq(FlattenSeq([i \in DOMAIN samples |-> Unwrapped(samples[i])]), LessRange))

\* The gap between two samples is shared out by their spans.
GetWeightedMidPoint(prev, next) ==
    LET gap == Span([min |-> prev.max, max |-> next.min])
    IN  prev.max + (gap * Span(prev)) \div (Span(prev) + Span(next))

\* Samples that speak of no values at all make no bucket.
AddBucket(h, min, max, s) ==
    IF s.metric = 0 THEN h
    ELSE Append(h, Bucket(min, max, (Span([min |-> min, max |-> max]) * One) \div s.metric))

\* Faulty: the gap between the last sample and the first is the last one's up to the end.
AroundEnd(h, samples, mid, v) ==
    LET n == Len(samples)
    IN  AddBucket(AddBucket(h, mid[n - 1], AbsMax, samples[n]), v - AbsMax, mid[1], samples[1])

\* The two ends, where the buckets go around.
Around(h, samples, mid, v) ==
    LET n == Len(samples)
    IN  IF v > AbsMax
        THEN AddBucket(AddBucket(AddBucket(h, 0, v - AbsMax, samples[n]), mid[n - 1], AbsMax, samples[n]),
                       v - AbsMax, mid[1], samples[1])
        ELSE AddBucket(AddBucket(AddBucket(h, mid[n - 1], v, samples[n]), v, AbsMax, samples[1]),
                       0, mid[1], samples[1])

\* Samples that all begin alike leave one, and the code reads the one before it: undefined.
Defined(samples) == Len(samples) = 1 \/ Len(Disjoint(samples)) > 1

MakeHistogramFromSamples(samples) ==
    LET Inner(d, mid) == FoldLeft(LAMBDA h, i : AddBucket(h, mid[i], mid[i + 1], d[i + 1]), <<>>,
                                  [i \in 1 .. Len(d) - 2 |-> i])
        Split(d, mid) == Around(Inner(d, mid), d, mid, GetWeightedMidPoint(Last(d).range, d[1].range))
        Of(d) == Split(d, [i \in 1 .. Len(d) - 1 |-> GetWeightedMidPoint(d[i].range, d[i + 1].range)])
    IN  IF Len(samples) = 1 THEN AddBucket(<<>>, 0, AbsMax, samples[1])
        ELSE SortBuckets(Of(Disjoint(samples)))

-----------------------------------------------------------------------------
(***************************************************************************)
(* From ranges.                                                            *)
(***************************************************************************)

InitializeHistogram(nbkts) ==
    LET incr == AbsMax \div nbkts
    IN  [i \in 1 .. nbkts |-> Bucket((i - 1) * incr, IF i = nbkts THEN AbsMax ELSE i * incr, 0)]

\* How much of r lies in s: nothing, for an r that wraps, of what it has below the end.
GetOverlap(r, s) ==
    LET ret == IF s.min <= r.min /\ s.max > r.min
               THEN (IF s.max > r.max THEN r.max ELSE s.max) - r.min
               ELSE IF s.min < r.max /\ s.max >= r.max THEN r.max - s.min
               ELSE IF r.min < s.max /\ s.max < r.max THEN s.max - s.min
               ELSE 0
    IN  IF ret < 0 THEN 0 ELSE ret

UpdateHubHistogram(h, ranges) ==
    [i \in DOMAIN h |-> [h[i] EXCEPT !.value =
        FoldLeft(LAMBDA sum, r : IF Span(r) = 0 THEN sum
                                 ELSE sum + (GetOverlap(r, h[i].range) * One) \div Span(r),
                 0, ranges)]]

-----------------------------------------------------------------------------
(***************************************************************************)
(* Questions.                                                              *)
(***************************************************************************)

Total(h) == FoldLeft(LAMBDA sum, b : sum + b.value, 0, h)

\* No histogram, no estimate.
EstimateNodeCount(h) == IF h = <<>> THEN -1 ELSE (Total(h) + One \div 2) \div One

GetBucketForValue(h, val) ==
    SelectInSeq(h, LAMBDA b : b.range.min <= val /\ val <= b.range.max)

\* The buckets from the one after the value on, and what is left of the distance after each.
BucketsFrom(h, val) == [j \in DOMAIN h |-> h[((GetBucketForValue(h, val) + j - 1) % Len(h)) + 1]]
Rest(buckets, distance, j) == distance * One - Total(SubSeq(buckets, 1, j))

Reached(buckets, distance) ==
    SelectInSeq([j \in DOMAIN buckets |-> Rest(buckets, distance, j)], LAMBDA rest : rest <= 0)

Wrapped(val) == IF val > AbsMax THEN val - AbsMax ELSE val

\* The value so many nodes behind the range's end; a bucket's nodes are taken to lie at even
\* fractions of it.
GetValueAtDistance(h, r, distance) ==
    LET Within(b, rest) ==
            b.range.min + IF rest > 0 /\ b.value > 0 THEN Span(b.range) \div (b.value \div rest) ELSE 0
        From(buckets, j) == Within(buckets[j], Rest(buckets, distance, j - 1))
        Along(buckets) == From(buckets, Reached(buckets, distance))
    IN  Wrapped(Along(BucketsFrom(h, r.max)))

-----------------------------------------------------------------------------

\* Every value lies in one bucket and no other.
Tiles(h) == \A v \in 0 .. AbsMax - 1 : \E i \in DOMAIN h :
                \A j \in DOMAIN h : (h[j].range.min <= v /\ v < h[j].range.max) <=> i = j
=============================================================================
