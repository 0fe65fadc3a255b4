--------------------------- MODULE QuadtreeProofs ---------------------------
(***************************************************************************)
(* Proofs about the locator's store, for any world, capacity, rectangles,  *)
(* depth and lifetimes: its types and the shape of the tree, that a query  *)
(* finds whatever lies within its rectangle, that no step loses a live     *)
(* entry, and that an object is seen as it was last inserted.              *)
(*                                                                         *)
(* Kept and Boundary are recursive functions.  That such a function exists *)
(* and what it returns is shown by a least counterexample, a number for    *)
(* which there is none or for which it returns something else.             *)
(***************************************************************************)
EXTENDS Quadtree, SequenceTheorems, WellFoundedInduction, TLAPS

\* A set of numbers that is not empty has a least one: what the recursions over a
\* node's entries (quadtree.go:50) and over the quadrants need.
LEMMA LeastNumber ==
    ASSUME NEW T \in SUBSET Nat, T # {}
    PROVE  \E n \in T : \A m \in T : n <= m
<1>. DEFINE R == OpToRel(<, Nat)
<1>1. IsWellFoundedOn(R, Nat)
  BY NatLessThanWellFounded
<1>2. \A m, n \in Nat : <<m, n>> \in R <=> m < n
  BY DEF OpToRel
<1>. HIDE DEF R
<1>3. PICK n \in T : \A m \in T : ~(<<m, n>> \in R)
  BY <1>1, WFMin, Zenon
<1>4. \A m \in T : ~(m < n)
  BY <1>2, <1>3
<1>. QED  BY <1>4

-----------------------------------------------------------------------------
(***************************************************************************)
(* What is kept at a node.                                                 *)
(***************************************************************************)

\* The loop that copies what is not stale, for the first n entries of s.
Copies(f, n, s) ==
    f = [i \in 0 .. n |-> IF i = 0 THEN <<>>
                          ELSE IF Stale(s[i]) THEN f[i - 1] ELSE Append(f[i - 1], s[i])]

\* The loop ends, whatever the node holds.
LEMMA CopiesExists ==
    ASSUME NEW s, NEW n \in Nat
    PROVE  \E f : Copies(f, n, s)
<1>. DEFINE T == {m \in Nat : ~\E f : Copies(f, m, s)}
<1>1. CASE T = {}
  BY <1>1
<1>2. CASE T # {}
  <2>1. PICK m \in T : \A k \in T : m <= k
    BY <1>2, LeastNumber
  <2>2. m # 0
    <3>1. Copies([i \in 0 .. 0 |-> <<>>], 0, s)
      BY DEF Copies
    <3>. QED  BY <3>1, <2>1
  <2>3. m - 1 \in Nat /\ m - 1 \notin T
    BY <2>1, <2>2
  <2>4. PICK f : Copies(f, m - 1, s)
    BY <2>3
  <2>. DEFINE last == IF Stale(s[m]) THEN f[m - 1] ELSE Append(f[m - 1], s[m])
              g == [i \in 0 .. m |-> IF i = m THEN last ELSE f[i]]
  <2>5. \A i \in 0 .. m - 1 :
           f[i] = IF i = 0 THEN <<>> ELSE IF Stale(s[i]) THEN f[i - 1] ELSE Append(f[i - 1], s[i])
    <3>. DEFINE h == [i \in 0 .. m - 1 |-> IF i = 0 THEN <<>> ELSE IF Stale(s[i]) THEN f[i - 1] ELSE Append(f[i - 1], s[i])]
    <3>1. f = h
      BY <2>4 DEF Copies
    <3>2. \A i \in 0 .. m - 1 : h[i] = IF i = 0 THEN <<>> ELSE IF Stale(s[i]) THEN f[i - 1] ELSE Append(f[i - 1], s[i])
      OBVIOUS
    <3>. QED  BY <3>1, <3>2, Zenon
  <2>6. \A i \in 0 .. m :
           g[i] = IF i = 0 THEN <<>> ELSE IF Stale(s[i]) THEN g[i - 1] ELSE Append(g[i - 1], s[i])
    BY <2>1, <2>2, <2>5
  <2>7. Copies(g, m, s)
    <3>. HIDE DEF g
    <3>1. g = [i \in 0 .. m |-> g[i]]
      BY DEF g
    <3>. QED  BY <3>1, <2>6 DEF Copies
  <2>. QED  BY <2>7, <2>1
<1>. QED  BY <1>1, <1>2

\* It copies, of the entries it has passed, those that are not stale.
LEMMA CopiesValue ==
    ASSUME NEW S, NEW s \in Seq(S), NEW f, Copies(f, Len(s), s), NEW n \in 0 .. Len(s)
    PROVE  /\ f[n] \in Seq(S) /\ Len(f[n]) <= n
           /\ \A i \in 1 .. Len(f[n]) : \E j \in 1 .. n : f[n][i] = s[j] /\ ~Stale(s[j])
           /\ \A j \in 1 .. n : Stale(s[j]) \/ \E i \in 1 .. Len(f[n]) : f[n][i] = s[j]
<1>. DEFINE P(k) == /\ f[k] \in Seq(S) /\ Len(f[k]) <= k
                    /\ \A i \in 1 .. Len(f[k]) : \E j \in 1 .. k : f[k][i] = s[j] /\ ~Stale(s[j])
                    /\ \A j \in 1 .. k : Stale(s[j]) \/ \E i \in 1 .. Len(f[k]) : f[k][i] = s[j]
            T == {k \in Nat : k <= Len(s) /\ ~P(k)}
<1>1. \A k \in 0 .. Len(s) :
         f[k] = IF k = 0 THEN <<>> ELSE IF Stale(s[k]) THEN f[k - 1] ELSE Append(f[k - 1], s[k])
  <2>. DEFINE h == [i \in 0 .. Len(s) |-> IF i = 0 THEN <<>> ELSE IF Stale(s[i]) THEN f[i - 1] ELSE Append(f[i - 1], s[i])]
  <2>1. f = h
    BY DEF Copies
  <2>2. \A i \in 0 .. Len(s) : h[i] = IF i = 0 THEN <<>> ELSE IF Stale(s[i]) THEN f[i - 1] ELSE Append(f[i - 1], s[i])
    OBVIOUS
  <2>. QED  BY <2>1, <2>2, Zenon
<1>2. Len(s) \in Nat /\ \A k \in 1 .. Len(s) : s[k] \in S
  OBVIOUS
<1>3. P(0)
  <2>1. 0 \in 0 .. Len(s)
    BY <1>2
  <2>2. f[0] = <<>>
    BY <1>1, <2>1, Zenon
  <2>. QED  BY <2>2
<1>4. ASSUME NEW k \in 1 .. Len(s), P(k - 1)  PROVE P(k)
  <2>0. k \in 0 .. Len(s) /\ k # 0
    BY <1>2
  <2>1. CASE Stale(s[k])
    <3>1. f[k] = f[k - 1]
      BY <1>1, <2>0, <2>1, Zenon
    <3>2. f[k] \in Seq(S) /\ Len(f[k]) <= k
      BY <3>1, <1>4, <1>2
    <3>3. \A i \in 1 .. Len(f[k]) : \E j \in 1 .. k : f[k][i] = s[j] /\ ~Stale(s[j])
      BY <3>1, <1>4, <1>2
    <3>4. \A j \in 1 .. k : j = k \/ j \in 1 .. k - 1
      OBVIOUS
    <3>5. \A j \in 1 .. k : Stale(s[j]) \/ \E i \in 1 .. Len(f[k]) : f[k][i] = s[j]
      BY <3>1, <3>4, <2>1, <1>4, Zenon
    <3>. QED  BY <3>2, <3>3, <3>5
  <2>2. CASE ~Stale(s[k])
    <3>1. f[k] = Append(f[k - 1], s[k])
      BY <1>1, <2>0, <2>2, Zenon
    <3>2. f[k - 1] \in Seq(S) /\ s[k] \in S /\ Len(f[k - 1]) \in Nat
      BY <1>4, <1>2
    <3>3. /\ f[k] \in Seq(S) /\ Len(f[k]) = Len(f[k - 1]) + 1
          /\ \A i \in 1 .. Len(f[k - 1]) : f[k][i] = f[k - 1][i]
          /\ f[k][Len(f[k])] = s[k]
      BY <3>1, <3>2, AppendProperties
    <3>4. \A i \in 1 .. Len(f[k]) : \E j \in 1 .. k : f[k][i] = s[j] /\ ~Stale(s[j])
      <4>. TAKE i \in 1 .. Len(f[k])
      <4>1. CASE i = Len(f[k])
        BY <4>1, <3>3, <2>2
      <4>2. CASE i # Len(f[k])
        <5>1. i \in 1 .. Len(f[k - 1]) /\ f[k][i] = f[k - 1][i]
          BY <4>2, <3>2, <3>3
        <5>2. PICK j \in 1 .. k - 1 : f[k - 1][i] = s[j] /\ ~Stale(s[j])
          BY <5>1, <1>4
        <5>. QED  BY <5>1, <5>2
      <4>. QED  BY <4>1, <4>2
    <3>5. \A j \in 1 .. k : Stale(s[j]) \/ \E i \in 1 .. Len(f[k]) : f[k][i] = s[j]
      <4>. TAKE j \in 1 .. k
      <4>1. CASE j = k
        <5>1. Len(f[k]) \in 1 .. Len(f[k])
          BY <3>2, <3>3
        <5>. QED  BY <4>1, <5>1, <3>3
      <4>2. CASE j # k
        <5>1. j \in 1 .. k - 1
          BY <4>2
        <5>2. CASE Stale(s[j])
          BY <5>2
        <5>3. CASE ~Stale(s[j])
          <6>1. PICK i \in 1 .. Len(f[k - 1]) : f[k - 1][i] = s[j]
            BY <5>1, <5>3, <1>4
          <6>2. i \in 1 .. Len(f[k]) /\ f[k][i] = f[k - 1][i]
            BY <3>2, <3>3
          <6>. QED  BY <6>1, <6>2
        <5>. QED  BY <5>2, <5>3
      <4>. QED  BY <4>1, <4>2
    <3>. QED  BY <3>2, <3>3, <3>4, <3>5, <1>4
  <2>. QED  BY <2>1, <2>2
<1>5. T = {}
  <2>. SUFFICES ASSUME T # {} PROVE FALSE
    OBVIOUS
  <2>1. T \in SUBSET Nat
    OBVIOUS
  <2>2. PICK k \in T : \A m \in T : k <= m
    BY <2>1, LeastNumber
  <2>3. k \in 1 .. Len(s) /\ ~P(k)
    <3>. HIDE DEF P
    <3>. QED  BY <1>2, <1>3, <2>2
  <2>4. P(k - 1)
    <3>. HIDE DEF P
    <3>. QED  BY <1>2, <2>2, <2>3
  <2>. QED
    <3>. HIDE DEF P
    <3>. QED  BY <1>4, <2>3, <2>4
<1>6. P(n)
  <2>. HIDE DEF P
  <2>. QED  BY <1>2, <1>5
<1>. QED  BY <1>6

\* At the end of the loop, just what is not stale has been copied.
LEMMA CopiesAll ==
    ASSUME NEW S, NEW s \in Seq(S), NEW f, Copies(f, Len(s), s)
    PROVE  /\ f[Len(s)] \in Seq(S)
           /\ Len(f[Len(s)]) <= Len(s)
           /\ Range(f[Len(s)]) = {st \in Range(s) : ~Stale(st)}
<1>1. Len(s) \in 0 .. Len(s)
  OBVIOUS
<1>2. /\ f[Len(s)] \in Seq(S) /\ Len(f[Len(s)]) <= Len(s)
      /\ \A i \in 1 .. Len(f[Len(s)]) : \E j \in 1 .. Len(s) : f[Len(s)][i] = s[j] /\ ~Stale(s[j])
      /\ \A j \in 1 .. Len(s) : Stale(s[j]) \/ \E i \in 1 .. Len(f[Len(s)]) : f[Len(s)][i] = s[j]
  BY <1>1, CopiesValue
<1>3. DOMAIN s = 1 .. Len(s) /\ DOMAIN f[Len(s)] = 1 .. Len(f[Len(s)])
  BY <1>2
<1>4. ASSUME NEW i \in 1 .. Len(f[Len(s)])
      PROVE  f[Len(s)][i] \in {st \in Range(s) : ~Stale(st)}
  BY <1>2, <1>3, Zenon DEF Range
<1>5. ASSUME NEW j \in 1 .. Len(s), ~Stale(s[j])
      PROVE  s[j] \in Range(f[Len(s)])
  BY <1>2, <1>3, <1>5, Zenon DEF Range
<1>6. ASSUME NEW st \in Range(f[Len(s)])  PROVE st \in Range(s) /\ ~Stale(st)
  <2>1. PICK i \in 1 .. Len(f[Len(s)]) : st = f[Len(s)][i]
    BY <1>3, Zenon DEF Range
  <2>. QED  BY <1>4, <2>1, Zenon
<1>7. ASSUME NEW st \in Range(s), ~Stale(st)  PROVE st \in Range(f[Len(s)])
  <2>1. PICK j \in 1 .. Len(s) : st = s[j]
    BY <1>3, Zenon DEF Range
  <2>. QED  BY <1>5, <1>7, <2>1, Zenon
<1>8. Range(f[Len(s)]) = {st \in Range(s) : ~Stale(st)}
  BY <1>6, <1>7, Zenon
<1>. QED  BY <1>2, <1>8, Zenon

\* Insert, Query and Cleanup keep just what is not stale, and nothing becomes longer
\* (quadtree.go:50, :111, :135).
LEMMA KeptValue ==
    ASSUME NEW S, NEW p, store[p] \in Seq(S)
    PROVE  /\ Kept(p) \in Seq(S)
           /\ Len(Kept(p)) <= Len(store[p])
           /\ Range(Kept(p)) = {st \in Entries(p) : ~Stale(st)}
<1>. SUFFICES ASSUME NEW s \in Seq(S), s = store[p]
              PROVE  /\ Kept(p) \in Seq(S)
                     /\ Len(Kept(p)) <= Len(s)
                     /\ Range(Kept(p)) = {st \in Range(s) : ~Stale(st)}
  BY DEF Entries, Range
<1>. DEFINE f == CHOOSE g : Copies(g, Len(s), s)
<1>1. Copies(f, Len(s), s)
  BY CopiesExists, Len(s) \in Nat
<1>2. Kept(p) = f[Len(s)]
  BY DEF Kept, Copies
<1>. HIDE DEF f
<1>. QED  BY <1>1, <1>2, CopiesAll

\* What a node holds once an entry is stored there (quadtree.go:63).
LEMMA AppendRange ==
    ASSUME NEW S, NEW s \in Seq(S), NEW e \in S
    PROVE  /\ Append(s, e) \in Seq(S)
           /\ Len(Append(s, e)) = Len(s) + 1
           /\ Range(Append(s, e)) = Range(s) \cup {e}
<1>1. /\ Append(s, e) \in Seq(S) /\ Len(Append(s, e)) = Len(s) + 1
      /\ \A i \in 1 .. Len(s) : Append(s, e)[i] = s[i]
      /\ Append(s, e)[Len(s) + 1] = e
  BY AppendProperties
<1>2. Len(s) \in Nat /\ DOMAIN s = 1 .. Len(s) /\ DOMAIN Append(s, e) = 1 .. Len(s) + 1
  BY <1>1
<1>. QED  BY <1>1, <1>2 DEF Range

-----------------------------------------------------------------------------
(***************************************************************************)
(* The tree's nodes: paths of quadrants.                                   *)
(***************************************************************************)

\* A node is a path no longer than the tree is deep.
LEMMA NodeIsPath ==
    ASSUME NEW p
    PROVE  p \in Node <=> p \in Seq(1 .. 4) /\ Len(p) <= MaxDepth
<1>1. ASSUME p \in Node  PROVE p \in Seq(1 .. 4) /\ Len(p) <= MaxDepth
  BY <1>1, QuadtreeAssumption DEF Node
<1>2. ASSUME p \in Seq(1 .. 4), Len(p) <= MaxDepth  PROVE p \in Node
  BY <1>2, LenProperties, QuadtreeAssumption DEF Node
<1>. QED  BY <1>1, <1>2

\* The beginnings of a path are nodes, each one's own ancestors are among them.
LEMMA AncestorsOfNode ==
    ASSUME NEW p \in Node, NEW q \in Ancestors(p)
    PROVE  /\ q \in Node /\ Len(q) < Len(p)
           /\ Ancestors(q) \subseteq Ancestors(p)
<1>1. p \in Seq(1 .. 4) /\ Len(p) \in Nat /\ Len(p) <= MaxDepth /\ MaxDepth \in Nat
  BY NodeIsPath, QuadtreeAssumption
<1>2. \A i \in 1 .. Len(p) : p[i] \in 1 .. 4
  BY <1>1
<1>3. PICK d \in 0 .. Len(p) - 1 : q = SubSeq(p, 1, d)
  BY DEF Ancestors
<1>4. q \in Seq(1 .. 4) /\ Len(q) = d /\ \A i \in 1 .. d : q[i] = p[i]
  BY <1>1, <1>2, <1>3, SubSeqProperties
<1>5. q \in Node /\ Len(q) < Len(p)
  <2>1. Len(q) < Len(p) /\ Len(q) <= MaxDepth
    BY <1>1, <1>3, <1>4
  <2>. QED  BY <2>1, <1>4, NodeIsPath, Zenon
<1>6. ASSUME NEW e \in 0 .. Len(q) - 1  PROVE SubSeq(q, 1, e) \in Ancestors(p)
  <2>1. e \in 0 .. Len(p) - 1
    BY <1>1, <1>3, <1>4
  <2>2. /\ SubSeq(q, 1, e) \in Seq(1 .. 4) /\ Len(SubSeq(q, 1, e)) = e
        /\ \A i \in 1 .. e : SubSeq(q, 1, e)[i] = q[i]
    BY <1>4, <1>3, SubSeqProperties
  <2>3. /\ SubSeq(p, 1, e) \in Seq(1 .. 4) /\ Len(SubSeq(p, 1, e)) = e
        /\ \A i \in 1 .. e : SubSeq(p, 1, e)[i] = p[i]
    BY <1>1, <1>2, <2>1, SubSeqProperties
  <2>4. SubSeq(q, 1, e) = SubSeq(p, 1, e)
    BY <1>3, <1>4, <2>2, <2>3, SeqEqual
  <2>. QED  BY <2>1, <2>4 DEF Ancestors
<1>. QED  BY <1>5, <1>6 DEF Ancestors

\* A node below the root lies in its parent, which is nearer to the root.
LEMMA ParentOfNode ==
    ASSUME NEW p \in Node, p # <<>>
    PROVE  Parent(p) \in Node /\ Len(Parent(p)) = Len(p) - 1 /\ p[Len(p)] \in 1 .. 4
<1>1. p \in Seq(1 .. 4) /\ Len(p) \in Nat /\ Len(p) # 0
  BY NodeIsPath
<1>2. Parent(p) \in Ancestors(p)
  BY <1>1 DEF Parent, Ancestors
<1>. DEFINE n == Len(p) - 1
<1>3. n \in Nat /\ (\A i \in 1 .. n : p[i] \in 1 .. 4) /\ p[Len(p)] \in 1 .. 4
  BY <1>1
<1>. HIDE DEF n
<1>4. Len(SubSeq(p, 1, n)) = n
  BY <1>3, SubSeqProperties
<1>5. Parent(p) = SubSeq(p, 1, n) /\ n = Len(p) - 1
  BY DEF Parent, n
<1>6. Parent(p) \in Node
  BY <1>2, AncestorsOfNode
<1>. QED  BY <1>3, <1>4, <1>5, <1>6

\* The boundaries of the nodes down to level n, computed from their parents'.
Upto(n) == {p \in Node : Len(p) <= n}
Bounds(f, n) ==
    f = [p \in Upto(n) |-> IF p = <<>> THEN [x |-> 0, y |-> 0, w |-> Size, h |-> Size]
                           ELSE Quadrant(f[Parent(p)], p[Len(p)])]

\* Subdivide (quadtree.go:31) can be carried on to any depth.
LEMMA BoundsExist == \A n \in Nat : \E f : Bounds(f, n)
<1>. DEFINE T == {n \in Nat : ~\E f : Bounds(f, n)}
<1>. SUFFICES ASSUME T # {} PROVE FALSE
  OBVIOUS
<1>1. PICK m \in T : \A k \in T : m <= k
  BY LeastNumber
<1>. DEFINE Root == [x |-> 0, y |-> 0, w |-> Size, h |-> Size]
<1>2. CASE m = 0
  <2>. DEFINE g == [p \in Upto(0) |-> Root]
  <2>1. \A p \in Upto(0) : p = <<>>
    BY NodeIsPath DEF Upto
  <2>2. Bounds(g, 0)
    BY <2>1 DEF Bounds
  <2>. QED  BY <2>2, <1>1, <1>2
<1>3. CASE m # 0
  <2>1. m - 1 \in Nat /\ m - 1 \notin T
    BY <1>1, <1>3
  <2>2. PICK f : Bounds(f, m - 1)
    BY <2>1
  <2>. DEFINE g == [p \in Upto(m) |-> IF p \in Upto(m - 1) THEN f[p] ELSE Quadrant(f[Parent(p)], p[Len(p)])]
  <2>3. \A p \in Upto(m) : p # <<>> => Parent(p) \in Upto(m - 1) /\ Parent(p) \in Upto(m)
    <3>. TAKE p \in Upto(m)
    <3>. HAVE p # <<>>
    <3>1. p \in Node /\ Len(p) <= m /\ Len(p) \in Nat
      BY NodeIsPath DEF Upto
    <3>2. Parent(p) \in Node /\ Len(Parent(p)) = Len(p) - 1
      BY <3>1, ParentOfNode
    <3>. QED  BY <3>1, <3>2, <1>1 DEF Upto
  <2>4. \A p \in Upto(m - 1) : f[p] = IF p = <<>> THEN Root ELSE Quadrant(f[Parent(p)], p[Len(p)])
    <3>. DEFINE h == [p \in Upto(m - 1) |-> IF p = <<>> THEN Root ELSE Quadrant(f[Parent(p)], p[Len(p)])]
    <3>1. f = h
      BY <2>2 DEF Bounds
    <3>2. \A p \in Upto(m - 1) : h[p] = IF p = <<>> THEN Root ELSE Quadrant(f[Parent(p)], p[Len(p)])
      OBVIOUS
    <3>. QED  BY <3>1, <3>2, Zenon
  <2>5. \A p \in Upto(m) : p = <<>> => p \in Upto(m - 1)
    BY <1>1, <1>3 DEF Upto
  <2>6. \A p \in Upto(m) : g[p] = IF p = <<>> THEN Root ELSE Quadrant(g[Parent(p)], p[Len(p)])
    <3>. TAKE p \in Upto(m)
    <3>1. CASE p = <<>>
      BY <3>1, <2>4, <2>5, Zenon
    <3>2. CASE p # <<>>
      <4>1. g[Parent(p)] = f[Parent(p)]
        BY <3>2, <2>3
      <4>2. g[p] = Quadrant(f[Parent(p)], p[Len(p)])
        <5>1. CASE p \in Upto(m - 1)
          BY <5>1, <3>2, <2>4, Zenon
        <5>2. CASE p \notin Upto(m - 1)
          BY <5>2, Zenon
        <5>. QED  BY <5>1, <5>2
      <4>. QED  BY <4>1, <4>2, <3>2, Zenon
    <3>. QED  BY <3>1, <3>2
  <2>7. g = [p \in Upto(m) |-> g[p]]
    OBVIOUS
  <2>. HIDE DEF g
  <2>8. Bounds(g, m)
    BY <2>6, <2>7 DEF Bounds
  <2>. QED  BY <2>8, <1>1
<1>. QED  BY <1>2, <1>3

\* Every node's boundary is that of its parent's quadrant (quadtree.go:31-38).
LEMMA BoundaryValue ==
    \A p \in Node : Boundary[p] = IF p = <<>> THEN [x |-> 0, y |-> 0, w |-> Size, h |-> Size]
                                  ELSE Quadrant(Boundary[Parent(p)], p[Len(p)])
<1>1. Upto(MaxDepth) = Node
  BY NodeIsPath DEF Upto
<1>2. \E f : Bounds(f, MaxDepth)
  BY BoundsExist, QuadtreeAssumption
<1>3. Boundary = CHOOSE f : Bounds(f, MaxDepth)
  BY <1>1 DEF Boundary, Bounds
<1>4. Bounds(Boundary, MaxDepth)
  BY <1>2, <1>3, Zenon
<1>. DEFINE h == [p \in Node |-> IF p = <<>> THEN [x |-> 0, y |-> 0, w |-> Size, h |-> Size]
                                 ELSE Quadrant(Boundary[Parent(p)], p[Len(p)])]
<1>5. Boundary = h
  BY <1>4, <1>1 DEF Bounds
<1>6. \A p \in Node : h[p] = IF p = <<>> THEN [x |-> 0, y |-> 0, w |-> Size, h |-> Size]
                             ELSE Quadrant(Boundary[Parent(p)], p[Len(p)])
  OBVIOUS
<1>. QED  BY <1>5, <1>6, Zenon

\* Boundaries are rectangles.
LEMMA BoundaryType == \A p \in Node : Boundary[p] \in Rectangle
<1>. DEFINE T == {n \in Nat : \E p \in Node : Len(p) = n /\ Boundary[p] \notin Rectangle}
<1>1. T = {}
  <2>. SUFFICES ASSUME T # {} PROVE FALSE
    OBVIOUS
  <2>1. PICK n \in T : \A k \in T : n <= k
    BY LeastNumber
  <2>2. PICK p \in Node : Len(p) = n /\ Boundary[p] \notin Rectangle
    BY <2>1
  <2>3. p # <<>>
    BY <2>2, BoundaryValue, QuadtreeAssumption DEF Rectangle
  <2>4. Parent(p) \in Node /\ Len(Parent(p)) = n - 1 /\ Len(p) \in Nat
    BY <2>2, <2>3, ParentOfNode, NodeIsPath
  <2>5. Boundary[Parent(p)] \in Rectangle
    <3>1. n - 1 \in Nat /\ n - 1 \notin T
      BY <2>1, <2>2, <2>3, <2>4, NodeIsPath
    <3>. QED  BY <3>1, <2>4
  <2>6. Boundary[p] = Quadrant(Boundary[Parent(p)], p[Len(p)])
    BY <2>2, <2>3, BoundaryValue, Zenon
  <2>7. \A b \in Rectangle : \A i : Quadrant(b, i) \in Rectangle
    BY DEF Quadrant, Rectangle
  <2>. QED  BY <2>2, <2>5, <2>6, <2>7
<1>. QED  BY <1>1, NodeIsPath

-----------------------------------------------------------------------------
(***************************************************************************)
(* Types and the shape of the tree.                                        *)
(***************************************************************************)

\* What a node holds after a step of the store: what it held, what was kept, or that
\* and the new entry.
LEMMA KeptOK ==
    ASSUME TypeOK, NEW p \in Node
    PROVE  /\ Kept(p) \in Seq(Storable) /\ Len(Kept(p)) <= Capacity
           /\ Range(Kept(p)) = {st \in Entries(p) : ~Stale(st)}
           /\ store[p] \in Seq(Storable) /\ Len(store[p]) <= Capacity
<1>1. store[p] \in Seq(Storable) /\ Len(store[p]) <= Capacity
  BY DEF TypeOK
<1>2. Len(store[p]) \in Nat /\ Capacity \in Nat
  BY <1>1, QuadtreeAssumption
<1>3. /\ Kept(p) \in Seq(Storable) /\ Len(Kept(p)) <= Len(store[p])
      /\ Range(Kept(p)) = {st \in Entries(p) : ~Stale(st)}
  BY <1>1, KeptValue
<1>4. Len(Kept(p)) \in Nat
  BY <1>3
<1>. QED  BY <1>1, <1>2, <1>3, <1>4

New(r, g, life, sub) ==
    [rect |-> r, sid |-> Owner[g], guid |-> g, ttl |-> now + life, isSubscription |-> sub]

\* What Insert does at one of the nodes it goes through.
LEMMA InsertAt ==
    ASSUME TypeOK, NEW r \in Rect, NEW g \in Guid, NEW life \in Life, NEW sub \in BOOLEAN,
           Insert(r, g, life, sub)
    PROVE  \E p \in Node :
              /\ OnChain(p, r)
              /\ New(r, g, life, sub) \in Storable
              /\ divided' = divided \cup Ancestors(p)
              /\ lastUpdates' = [lastUpdates EXCEPT ![g] = now + life] /\ now' = now
              /\ store' \in [Node -> Seq(Storable)]
              /\ \A q \in Node : /\ Len(store'[q]) <= Capacity
                                 /\ q = p => Range(store'[q]) = Range(Kept(q)) \cup {New(r, g, life, sub)}
                                 /\ q # p => Range(store'[q]) \in {Entries(q), Range(Kept(q))}
<1>. DEFINE new == New(r, g, life, sub)
            After(q, p) == IF q = p THEN Append(Kept(q), new)
                            ELSE IF q \in Ancestors(p) THEN Kept(q) ELSE store[q]
<1>1. new \in Storable
  BY QuadtreeAssumption DEF New, Storable, TypeOK
<1>2. PICK p \in Node :
         /\ OnChain(p, r) /\ Len(Kept(p)) < Capacity
         /\ store' = [q \in Node |-> After(q, p)]
         /\ divided' = divided \cup Ancestors(p)
         /\ lastUpdates' = [lastUpdates EXCEPT ![g] = now + life] /\ now' = now
  BY DEF Insert, New
<1>. HIDE DEF new
<1>3. ASSUME NEW q \in Node
      PROVE  /\ After(q, p) \in Seq(Storable) /\ Len(After(q, p)) <= Capacity
             /\ q = p => Range(After(q, p)) = Range(Kept(q)) \cup {new}
             /\ q # p => Range(After(q, p)) \in {Entries(q), Range(Kept(q))}
  <2>1. /\ Kept(q) \in Seq(Storable) /\ Len(Kept(q)) <= Capacity /\ Len(Kept(q)) \in Nat
        /\ store[q] \in Seq(Storable) /\ Len(store[q]) <= Capacity
    BY KeptOK
  <2>2. CASE q = p
    <3>1. /\ Append(Kept(p), new) \in Seq(Storable) /\ Len(Append(Kept(p), new)) = Len(Kept(p)) + 1
          /\ Range(Append(Kept(p), new)) = Range(Kept(p)) \cup {new}
      BY <1>1, <2>1, <2>2, AppendRange
    <3>. QED  BY <3>1, <1>2, <2>1, <2>2, QuadtreeAssumption
  <2>3. CASE q # p
    <3>1. Range(store[q]) = Entries(q)
      BY DEF Range, Entries
    <3>. QED  BY <3>1, <2>1, <2>3
  <2>. QED  BY <2>2, <2>3
<1>. HIDE DEF After
<1>4. store' \in [Node -> Seq(Storable)] /\ \A q \in Node : store'[q] = After(q, p)
  BY <1>2, <1>3
<1>. QED  BY <1>1, <1>2, <1>3, <1>4 DEF new

\* A node that has descendants with something left is divided, and so are those above it.
LEMMA StillDividedAbove ==
    ASSUME TypeOK, NEW q \in Exists, Kept(q) # <<>>
    PROVE  Ancestors(q) \subseteq StillDivided
<1>1. q \in Node /\ Ancestors(q) \subseteq divided
  BY DEF Exists
<1>. SUFFICES ASSUME NEW p \in Ancestors(q) PROVE p \in StillDivided
  OBVIOUS
<1>2. p \in divided /\ q \in Descendants(p)
  BY <1>1 DEF Descendants
<1>. QED  BY <1>2 DEF StillDivided

\* What a node holds after a step that only expires: what it held, or what was kept.
LEMMA ExpireAt ==
    ASSUME TypeOK, NEW S, store' = [p \in Node |-> IF p \in S THEN Kept(p) ELSE store[p]]
    PROVE  /\ store' \in [Node -> Seq(Storable)]
           /\ \A p \in Node : /\ Len(store'[p]) <= Capacity
                              /\ Range(store'[p]) \in {Entries(p), Range(Kept(p))}
                              /\ store[p] = <<>> => store'[p] = <<>>
<1>1. ASSUME NEW p \in Node
      PROVE  /\ Kept(p) \in Seq(Storable) /\ Len(Kept(p)) <= Capacity
             /\ store[p] \in Seq(Storable) /\ Len(store[p]) <= Capacity
             /\ Range(store[p]) = Entries(p)
             /\ store[p] = <<>> => Kept(p) = <<>>
  <2>1. store[p] = <<>> => Kept(p) = <<>>
    BY KeptValue, store[p] \in Seq(Storable) DEF TypeOK
  <2>. QED  BY <2>1, KeptOK DEF Range, Entries
<1>2. \A p \in Node : store'[p] = IF p \in S THEN Kept(p) ELSE store[p]
  OBVIOUS
<1>3. store' \in [Node -> Seq(Storable)]
  BY <1>1
<1>. QED  BY <1>1, <1>2, <1>3

\* Insert, Query, Cleanup and the clock keep the types and the shape of the tree.
LEMMA TypeStep == TypeOK /\ [Next]_vars => TypeOK'
<1>. SUFFICES ASSUME TypeOK, [Next]_vars PROVE TypeOK'
  OBVIOUS
<1>. USE QuadtreeAssumption
<1>0. /\ divided \subseteq Exists /\ Exists \subseteq Node
      /\ \A p \in divided : Ancestors(p) \subseteq divided
  BY DEF TypeOK, Exists
<1>1. ASSUME NEW r \in Rect, NEW g \in Guid, NEW life \in Life, NEW sub \in BOOLEAN,
             Insert(r, g, life, sub)
      PROVE  TypeOK'
  <2>1. PICK p \in Node :
           /\ divided' = divided \cup Ancestors(p)
           /\ lastUpdates' = [lastUpdates EXCEPT ![g] = now + life] /\ now' = now
           /\ store' \in [Node -> Seq(Storable)]
           /\ \A q \in Node : Len(store'[q]) <= Capacity
    BY <1>1, InsertAt
  <2>2. \A q \in divided' : q \in Node /\ Ancestors(q) \subseteq divided'
    BY <1>0, <2>1, AncestorsOfNode
  <2>3. lastUpdates' \in [Guid -> Nat]
    BY <2>1 DEF TypeOK
  <2>. QED  BY <2>1, <2>2, <2>3 DEF TypeOK, Exists
<1>2. ASSUME NEW r \in Rect, Query(r)  PROVE TypeOK'
  BY <1>2, ExpireAt DEF Query, TypeOK, Exists
<1>3. CASE Cleanup
  <2>1. store' \in [Node -> Seq(Storable)] /\ \A p \in Node : Len(store'[p]) <= Capacity
    BY <1>3, ExpireAt DEF Cleanup
  <2>2. ASSUME NEW p \in divided'  PROVE p \in Node /\ Ancestors(p) \subseteq divided'
    <3>1. PICK q \in Exists : p \in divided /\ p \in Ancestors(q) /\ Kept(q) # <<>>
      BY <1>3 DEF Cleanup, StillDivided, Descendants
    <3>2. p \in Node /\ Ancestors(p) \subseteq Ancestors(q)
      BY <1>0, <3>1, AncestorsOfNode
    <3>. QED  BY <1>3, <3>1, <3>2, StillDividedAbove DEF Cleanup
  <2>. QED  BY <1>3, <2>1, <2>2 DEF Cleanup, TypeOK, Exists
<1>4. CASE Tick
  BY <1>4 DEF Tick, TypeOK, Exists
<1>5. CASE UNCHANGED vars
  BY <1>5 DEF vars, TypeOK, Exists
<1>. QED  BY <1>1, <1>2, <1>3, <1>4, <1>5 DEF Next

\* No node holds more than its capacity, and a node that has children is reached from
\* the root, however the tree divides and coalesces (quadtree.go:41, :88).
THEOREM TypeCorrect == Spec => []TypeOK
<1>1. Init => TypeOK
  <2>. SUFFICES ASSUME Init PROVE TypeOK
    OBVIOUS
  <2>1. \A p \in Node : store[p] = <<>> /\ Len(store[p]) = 0
    BY DEF Init
  <2>2. store \in [Node -> Seq(Storable)]
    BY DEF Init
  <2>. QED  BY <2>1, <2>2, QuadtreeAssumption DEF Init, TypeOK
<1>. QED  BY <1>1, TypeStep, PTL DEF Spec

-----------------------------------------------------------------------------
(***************************************************************************)
(* Where entries are, and what queries find.                               *)
(***************************************************************************)

\* Entries are at nodes that are reached from the root, and touch what they are stored at.
Reached == \A p \in Node : Entries(p) # {} => p \in Exists
Placed == \A p \in Node : \A st \in Entries(p) : Intersects(Boundary[p], st.rect)

\* No step moves an entry, and the tree keeps every node there are entries at (Insert
\* goes down first touched quadrants, Cleanup coalesces what is empty).
LEMMA PlacedStep ==
    TypeOK /\ Reached /\ Placed /\ [Next]_vars => Reached' /\ Placed'
<1>. SUFFICES ASSUME TypeOK, Reached, Placed, [Next]_vars PROVE Reached' /\ Placed'
  OBVIOUS
<1>1. \A p \in Node : /\ Entries(p)' = Range(store'[p])
                      /\ Range(Kept(p)) = {st \in Entries(p) : ~Stale(st)}
  BY KeptOK DEF Entries, Range
<1>2. ASSUME NEW r \in Rect, NEW g \in Guid, NEW life \in Life, NEW sub \in BOOLEAN,
             Insert(r, g, life, sub)
      PROVE  Reached' /\ Placed'
  <2>1. PICK p \in Node :
           /\ OnChain(p, r)
           /\ New(r, g, life, sub) \in Storable
           /\ divided' = divided \cup Ancestors(p)
           /\ lastUpdates' = [lastUpdates EXCEPT ![g] = now + life] /\ now' = now
           /\ store' \in [Node -> Seq(Storable)]
           /\ \A q \in Node : /\ Len(store'[q]) <= Capacity
                              /\ q = p => Range(store'[q]) = Range(Kept(q)) \cup {New(r, g, life, sub)}
                              /\ q # p => Range(store'[q]) \in {Entries(q), Range(Kept(q))}
    BY <1>2, InsertAt
  <2>2. Intersects(Boundary[p], r) /\ New(r, g, life, sub).rect = r
    BY <2>1 DEF OnChain, New
  <2>3. ASSUME NEW q \in Node
        PROVE  /\ q # p => Entries(q)' \subseteq Entries(q)
               /\ q = p => Entries(q)' \subseteq Entries(q) \cup {New(r, g, life, sub)}
    BY <1>1, <2>1
  <2>4. Placed'
    BY <2>2, <2>3 DEF Placed
  <2>5. \A q \in Node : q \in Exists => q \in Exists'
    BY <2>1 DEF Exists
  <2>6. p \in Exists'
    BY <2>1 DEF Exists
  <2>7. Reached'
    BY <2>3, <2>5, <2>6 DEF Reached
  <2>. QED  BY <2>4, <2>7
<1>3. ASSUME NEW r \in Rect, Query(r)  PROVE Reached' /\ Placed'
  <2>1. \A p \in Node : Entries(p)' \subseteq Entries(p)
    BY <1>1, <1>3, ExpireAt DEF Query
  <2>2. Exists' = Exists
    BY <1>3 DEF Query, Exists
  <2>. QED  BY <2>1, <2>2 DEF Reached, Placed
<1>4. CASE Cleanup
  <2>1. \A p \in Node : Entries(p)' \subseteq Entries(p)
    BY <1>1, <1>4, ExpireAt DEF Cleanup
  <2>2. ASSUME NEW p \in Node, Entries(p)' # {}  PROVE p \in Exists'
    <3>1. p \in Exists
      BY <2>1, <2>2 DEF Reached
    <3>2. Range(Kept(p)) # {}
      BY <1>1, <1>4, <2>2, <3>1 DEF Cleanup
    <3>3. Kept(p) # <<>>
      BY <3>2 DEF Range
    <3>4. Ancestors(p) \subseteq divided'
      BY <1>4, <3>1, <3>3, StillDividedAbove DEF Cleanup
    <3>. QED  BY <3>4 DEF Exists
  <2>. QED  BY <2>1, <2>2 DEF Reached, Placed
<1>5. CASE Tick
  BY <1>5 DEF Tick, Reached, Placed, Entries, Exists
<1>6. CASE UNCHANGED vars
  BY <1>6 DEF vars, Reached, Placed, Entries, Exists
<1>. QED  BY <1>2, <1>3, <1>4, <1>5, <1>6 DEF Next

\* In every state, entries are where Insert put them, at nodes of the tree.
LEMMA PlacedHolds == Spec => [](TypeOK /\ Reached /\ Placed)
<1>1. Init => Reached /\ Placed
  BY DEF Init, Reached, Placed, Entries
<1>. QED  BY <1>1, TypeCorrect, PlacedStep, PTL DEF Spec

\* Nothing is left at a node whose parent dropped its children: when it divides again,
\* its new children are empty (Cleanup and Subdivide: quadtree.go:98-104, :31).
THEOREM NothingLeftBehind == Spec => []Reached
BY PlacedHolds, PTL

\* What lies within a rectangle touches all that the rectangle's part of the tree touches.
LEMMA WithinTouches ==
    ASSUME NEW b \in Rectangle, NEW r \in Rectangle, NEW o \in Rectangle,
           Contains(r, o), Intersects(b, o)
    PROVE  Intersects(b, r) /\ Intersects(r, o)
BY DEF Contains, Intersects, Rectangle

\* A query finds whatever lies within its rectangle, however often nodes above the entry
\* were emptied and filled again, divided and coalesced (Query: quadtree.go:126).
THEOREM ContainedHolds == Spec => []ContainedIsFound
<1>1. TypeOK /\ Reached /\ Placed => ContainedIsFound
  <2>. SUFFICES ASSUME TypeOK, Placed, NEW st \in Visible, NEW r \in Rect, NEW sid \in Sid,
                       Contains(r, st.rect), sid # st.sid
                PROVE  st \in Found(r, sid, ~st.isSubscription)
    BY DEF ContainedIsFound
  <2>1. PICK p \in Exists : st \in Entries(p) /\ ~Stale(st)
    BY DEF Visible
  <2>2. p \in Node
    BY DEF Exists
  <2>3. st \in Storable
    <3>1. store[p] \in Seq(Storable)
      BY <2>2 DEF TypeOK
    <3>. QED  BY <2>1, <3>1 DEF Entries
  <2>4. st.rect \in Rectangle /\ r \in Rectangle /\ Boundary[p] \in Rectangle
    BY <2>2, <2>3, BoundaryType, QuadtreeAssumption DEF Storable
  <2>5. Intersects(Boundary[p], st.rect)
    BY <2>1, <2>2 DEF Placed
  <2>6. Intersects(Boundary[p], r) /\ Intersects(r, st.rect)
    BY <2>4, <2>5, WithinTouches
  <2>7. p \in Visited(r)
    BY <2>6 DEF Visited
  <2>8. st.isSubscription # ~st.isSubscription
    BY <2>3 DEF Storable
  <2>. QED  BY <2>1, <2>6, <2>7, <2>8 DEF Found
<1>. QED  BY <1>1, PlacedHolds, PTL

-----------------------------------------------------------------------------
(***************************************************************************)
(* What a step may take away.                                              *)
(***************************************************************************)

\* Inserting, querying and cleaning up lose no entry that is neither expired nor
\* superseded: coalescing takes away empty nodes only (Cleanup: quadtree.go:98).
THEOREM LiveEntriesHold == Spec => LiveEntriesStay
<1>1. TypeOK /\ [Next]_vars => \A st \in Visible : st \in Visible' \/ Stale(st)'
  <2>. SUFFICES ASSUME TypeOK, [Next]_vars, NEW st \in Visible, ~Stale(st)'
                PROVE  st \in Visible'
    OBVIOUS
  <2>1. PICK p \in Exists : st \in Entries(p) /\ ~Stale(st)
    BY DEF Visible
  <2>2. /\ p \in Node /\ Ancestors(p) \subseteq divided
        /\ st \in Range(Kept(p)) /\ Range(Kept(p)) \subseteq Entries(p)
        /\ Entries(p)' = Range(store'[p])
    BY <2>1, KeptOK DEF Exists, Entries, Range
  <2>. SUFFICES st \in Entries(p)' /\ Ancestors(p) \subseteq divided'
    BY <2>2 DEF Visible, Exists
  <2>3. ASSUME NEW r \in Rect, NEW g \in Guid, NEW life \in Life, NEW sub \in BOOLEAN,
               Insert(r, g, life, sub)
        PROVE  st \in Entries(p)' /\ Ancestors(p) \subseteq divided'
    <3>1. /\ divided \subseteq divided'
          /\ Range(Kept(p)) \subseteq Range(store'[p])
      BY <2>2, <2>3, InsertAt
    <3>. QED  BY <2>2, <3>1
  <2>4. ASSUME NEW r \in Rect, Query(r)  PROVE st \in Entries(p)' /\ Ancestors(p) \subseteq divided'
    BY <2>1, <2>2, <2>4, ExpireAt DEF Query
  <2>5. CASE Cleanup
    <3>1. st \in Entries(p)'
      BY <2>1, <2>2, <2>5, ExpireAt DEF Cleanup
    <3>2. Kept(p) # <<>>
      BY <2>2 DEF Range
    <3>3. Ancestors(p) \subseteq divided'
      BY <2>5, <3>2, StillDividedAbove DEF Cleanup
    <3>. QED  BY <3>1, <3>3
  <2>6. CASE Tick
    BY <2>1, <2>2, <2>6 DEF Tick, Entries
  <2>7. CASE UNCHANGED vars
    BY <2>1, <2>2, <2>7 DEF vars, Entries
  <2>. QED  BY <2>3, <2>4, <2>5, <2>6, <2>7 DEF Next
<1>. QED  BY <1>1, TypeCorrect, PTL DEF Spec, LiveEntriesStay

-----------------------------------------------------------------------------
(***************************************************************************)
(* Which entry of an object is seen.                                       *)
(***************************************************************************)

\* Entries expire no later than the last update of their object, and that no later than
\* what is inserted now would.
Recorded ==
    /\ \A p \in Node : \A st \in Entries(p) : st.ttl <= lastUpdates[st.guid]
    /\ \A g \in Guid, life \in Life : lastUpdates[g] <= now + life

\* Every step keeps that, Insert because it raises lastUpdates (quadtree.go:64).
LEMMA RecordedStep ==
    (\A k, l \in Life : k = l) /\ TypeOK /\ Recorded /\ [Next]_vars => Recorded'
<1>. SUFFICES ASSUME \A k, l \in Life : k = l, TypeOK, Recorded, [Next]_vars PROVE Recorded'
  OBVIOUS
<1>1. ASSUME NEW p \in Node
      PROVE  /\ Entries(p) \subseteq Storable
             /\ Entries(p)' = Range(store'[p])
             /\ Range(Kept(p)) \subseteq Entries(p)
  <2>1. store[p] \in Seq(Storable)
    BY DEF TypeOK
  <2>2. Entries(p) \subseteq Storable
    BY <2>1 DEF Entries
  <2>3. Entries(p)' = Range(store'[p])
    BY DEF Entries, Range
  <2>. QED  BY <2>2, <2>3, KeptOK
<1>2. now \in Nat /\ Life \subseteq Nat /\ lastUpdates \in [Guid -> Nat]
  BY QuadtreeAssumption DEF TypeOK
<1>3. ASSUME NEW r \in Rect, NEW g \in Guid, NEW life \in Life, NEW sub \in BOOLEAN,
             Insert(r, g, life, sub)
      PROVE  Recorded'
  <2>. DEFINE new == New(r, g, life, sub)
  <2>1. /\ lastUpdates' = [lastUpdates EXCEPT ![g] = now + life] /\ now' = now
        /\ \A q \in Node : Entries(q)' \subseteq Entries(q) \cup {new}
    BY <1>1, <1>3, InsertAt
  <2>2. \A h \in Guid : lastUpdates[h] <= lastUpdates'[h] /\ lastUpdates'[h] \in Nat /\ lastUpdates[h] \in Nat
    BY <1>2, <2>1 DEF Recorded
  <2>3. new.ttl = now + life /\ new.guid = g
    BY DEF New
  <2>4. ASSUME NEW p \in Node, NEW st \in Entries(p)'  PROVE st.ttl <= lastUpdates'[st.guid]
    <3>1. CASE st = new
      BY <3>1, <1>2, <2>1, <2>3
    <3>2. CASE st # new
      <4>1. st \in Entries(p) /\ st.ttl <= lastUpdates[st.guid]
        BY <3>2, <2>1 DEF Recorded
      <4>2. st.ttl \in Nat /\ st.guid \in Guid
        BY <1>1, <4>1 DEF Storable
      <4>. QED  BY <4>1, <4>2, <2>2
    <3>. QED  BY <3>1, <3>2
  <2>5. \A h \in Guid, l \in Life : lastUpdates'[h] <= now' + l
    BY <1>2, <2>1 DEF Recorded
  <2>. QED  BY <2>4, <2>5 DEF Recorded
<1>4. ASSUME NEW r \in Rect, Query(r)  PROVE Recorded'
  <2>1. \A p \in Node : Entries(p)' \subseteq Entries(p)
    BY <1>1, <1>4, ExpireAt DEF Query
  <2>. QED  BY <1>4, <2>1 DEF Query, Recorded
<1>5. CASE Cleanup
  <2>1. \A p \in Node : Entries(p)' \subseteq Entries(p)
    BY <1>1, <1>5, ExpireAt DEF Cleanup
  <2>. QED  BY <1>5, <2>1 DEF Cleanup, Recorded
<1>6. CASE Tick
  <2>1. \A g \in Guid, l \in Life : lastUpdates[g] <= now + 1 + l
    BY <1>2 DEF Recorded
  <2>. QED  BY <1>6, <2>1 DEF Tick, Recorded, Entries
<1>7. CASE UNCHANGED vars
  BY <1>7 DEF vars, Recorded, Entries
<1>. QED  BY <1>3, <1>4, <1>5, <1>6, <1>7 DEF Next

\* When every entry is kept for the same time, as servers ask (server.go:120, :133), an
\* object is seen as it was last inserted: of older entries, wherever Insert left them in
\* the tree, lastUpdates lets no query answer one (quadtree.go:53, :138).
THEOREM LatestHolds ==
    ASSUME \A k, l \in Life : k = l
    PROVE  Spec => []LatestEntryOnly
<1>1. Init => Recorded
  BY QuadtreeAssumption DEF Init, Recorded, Entries
<1>2. TypeOK /\ Recorded /\ [Next]_vars => Recorded'
  BY RecordedStep
<1>3. TypeOK /\ Recorded => LatestEntryOnly
  <2>. SUFFICES ASSUME TypeOK, Recorded, NEW a \in Visible, NEW b \in Visible, a.guid = b.guid
                PROVE  a.ttl = b.ttl
    BY DEF LatestEntryOnly
  <2>1. ASSUME NEW st \in Visible  PROVE st.ttl = lastUpdates[st.guid]
    <3>1. PICK p \in Exists : st \in Entries(p) /\ ~Stale(st)
      BY DEF Visible
    <3>2. p \in Node /\ store[p] \in Seq(Storable)
      BY DEF Exists, TypeOK
    <3>3. st \in Storable
      BY <3>1, <3>2 DEF Entries
    <3>4. st.ttl \in Nat /\ lastUpdates[st.guid] \in Nat
      BY <3>3 DEF Storable, TypeOK
    <3>5. st.ttl <= lastUpdates[st.guid]
      BY <3>1, <3>2 DEF Recorded
    <3>. QED  BY <3>1, <3>4, <3>5 DEF Stale
  <2>. QED  BY <2>1
<1>. QED  BY <1>1, <1>2, <1>3, TypeCorrect, PTL DEF Spec
=============================================================================
