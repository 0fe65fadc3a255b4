----------------------------- MODULE RingProofs -----------------------------
(***************************************************************************)
(* Proofs about the ring, for any nodes, ranges, numbers of successors     *)
(* kept, attempts, datagrams in flight and budgets of faults: the types,   *)
(* and that in a ring that is laid out beforehand no value is ever the     *)
(* business of two nodes.                                                  *)
(***************************************************************************)
EXTENDS Ring, FiniteSetTheorems, SequenceTheorems, WellFoundedInduction, TLAPS

-----------------------------------------------------------------------------
(***************************************************************************)
(* Numbers and loops.                                                      *)
(***************************************************************************)

\* A set of numbers that is not empty has a least one.
LEMMA LeastNumber ==
    ASSUME NEW T \in SUBSET Nat, T # {}
    PROVE  \E n \in T : \A m \in T : n <= m
<1>. DEFINE R == OpToRel(<, Nat)
<1>1. IsWellFoundedOn(R, Nat)
  BY NatLessThanWellFounded
<1>2. \A m, n \in Nat : <<m, n>> \in R <=> m < n
  BY DEF OpToRel
<1>. HIDE DEF R
<1>3. PICK n \in T : \A m \in T : ~(<<m, n>> \in R)
  BY <1>1, WFMin, Zenon
<1>4. \A m \in T : ~(m < n)
  BY <1>2, <1>3
<1>. QED  BY <1>4

\* The place at which to stop or to insert (Least).
LEMMA LeastIs ==
    ASSUME NEW T \in SUBSET Nat, T # {}
    PROVE  Least(T) \in T /\ \A m \in T : Least(T) <= m
BY LeastNumber DEF Least

\* What holds at first, and of a number if of the one before, holds of all: for the rounds
\* of a loop.
LEMMA EveryRound ==
    ASSUME NEW n \in Nat, NEW P, 0 \in P, \A i \in 1 .. n : i - 1 \in P => i \in P
    PROVE  \A i \in 0 .. n : i \in P
<1>. DEFINE T == {i \in 0 .. n : i \notin P}
<1>. SUFFICES ASSUME T # {} PROVE FALSE
  OBVIOUS
<1>1. PICK m \in T : \A i \in T : m <= i
  <2>1. T \in SUBSET Nat
    OBVIOUS
  <2>. HIDE DEF T
  <2>. QED  BY <2>1, LeastNumber
<1>2. m \in 1 .. n /\ m - 1 \in 0 .. n
  BY <1>1
<1>3. m - 1 \in P
  BY <1>1, <1>2
<1>. QED  BY <1>1, <1>2, <1>3

\* f is what there is before the first round and after each, and Loop what there is at last.
Rounds(b, steps, f) ==
    /\ f[0] = b
    /\ \A i \in 1 .. Len(steps) : f[i] = steps[i][f[i - 1]]
    /\ f[Len(steps)] = Loop(b, steps)

\* After each round of a loop there is something in T.
LEMMA LoopIs ==
    ASSUME NEW T, NEW b \in T, NEW steps \in Seq([T -> T])
    PROVE  \E f \in [0 .. Len(steps) -> T] : Rounds(b, steps, f)
<1>. DEFINE n == Len(steps)
            After(f) == f = [i \in 0 .. n |-> IF i = 0 THEN b ELSE steps[i][f[i - 1]]]
<1>1. n \in Nat /\ b \in T /\ steps \in [1 .. n -> [T -> T]]
  OBVIOUS
<1>2. Loop(b, steps) = (CHOOSE g : After(g))[n]
  BY DEF Loop
<1>. HIDE DEF n, After
<1>0. n \in Nat
  BY <1>1
<1>. USE <1>0
<1>3. PICK f \in [0 .. n -> T] : f[0] = b /\ \A i \in 1 .. n : f[i] = steps[i][f[i - 1]]
  <2>. DEFINE Done(f, m) == f[0] = b /\ \A i \in 1 .. m : f[i] = steps[i][f[i - 1]]
              P == {m \in 0 .. n : \E f \in [0 .. m -> T] : Done(f, m)}
  <2>1. 0 \in P
    <3>. DEFINE f == [i \in 0 .. 0 |-> b]
    <3>1. f \in [0 .. 0 -> T] /\ Done(f, 0)
      OBVIOUS
    <3>2. 0 \in 0 .. n
      OBVIOUS
    <3>. HIDE DEF f, Done
    <3>. QED  BY <3>1, <3>2, Zenon
  <2>2. ASSUME NEW m \in 1 .. n, m - 1 \in P PROVE m \in P
    <3>1. PICK f \in [0 .. m - 1 -> T] : Done(f, m - 1)
      BY <2>2
    <3>. DEFINE g == [i \in 0 .. m |-> IF i = m THEN steps[m][f[m - 1]] ELSE f[i]]
    <3>2. f[m - 1] \in T /\ steps[m][f[m - 1]] \in T
      BY <3>1
    <3>3. g \in [0 .. m -> T]
      BY <3>1, <3>2
    <3>4. Done(g, m)
      <4>1. g[0] = b
        BY <3>1
      <4>2. ASSUME NEW i \in 1 .. m PROVE g[i] = steps[i][g[i - 1]]
        <5>1. CASE i = m
          BY <5>1
        <5>2. CASE i # m
          BY <5>2, <3>1
        <5>. QED  BY <5>1, <5>2
      <4>. HIDE DEF g
      <4>. QED  BY <4>1, <4>2
    <3>5. m \in 0 .. n
      OBVIOUS
    <3>. HIDE DEF g, Done
    <3>. QED  BY <3>3, <3>4, <3>5, Zenon
  <2>. HIDE DEF P
  <2>3. \A m \in 0 .. n : m \in P
    BY <2>1, <2>2, EveryRound
  <2>4. n \in P
    BY <2>3
  <2>. QED  BY <2>4 DEF P
<1>4. After(f)
  <2>1. f = [i \in 0 .. n |-> IF i = 0 THEN b ELSE steps[i][f[i - 1]]]
    <3>1. \A i \in 0 .. n : f[i] = IF i = 0 THEN b ELSE steps[i][f[i - 1]]
      BY <1>3
    <3>. QED  BY <1>3, <3>1
  <2>. QED  BY <2>1 DEF After
<1>5. ASSUME NEW g, After(g) PROVE g = f
  <2>. DEFINE P == {i \in 0 .. n : g[i] = f[i]}
  <2>0. g = [i \in 0 .. n |-> IF i = 0 THEN b ELSE steps[i][g[i - 1]]]
    BY <1>5 DEF After
  <2>1. 0 \in P
    BY <1>3, <2>0
  <2>2. ASSUME NEW i \in 1 .. n, i - 1 \in P PROVE i \in P
    <3>1. g[i] = steps[i][g[i - 1]]
      BY <2>0
    <3>. QED  BY <2>2, <1>3, <3>1
  <2>. HIDE DEF P
  <2>3. \A i \in 0 .. n : i \in P
    BY <2>1, <2>2, EveryRound
  <2>. QED  BY <2>0, <2>3, <1>3 DEF P
<1>6. (CHOOSE g : After(g)) = f
  BY <1>4, <1>5, Zenon
<1>7. Rounds(b, steps, f)
  BY <1>2, <1>3, <1>6 DEF n, Rounds
<1>. QED  BY <1>7 DEF n

\* A loop whose every round leaves what it has in S ends in S.
LEMMA LoopKeeps ==
    ASSUME NEW T, NEW S \in SUBSET T, NEW b \in S, NEW steps \in Seq([T -> T]),
           \A i \in 1 .. Len(steps) : \A x \in S : steps[i][x] \in S
    PROVE  Loop(b, steps) \in S
<1>0. b \in T
  OBVIOUS
<1>1. PICK f \in [0 .. Len(steps) -> T] : Rounds(b, steps, f)
  BY <1>0, LoopIs
<1>. DEFINE P == {i \in 0 .. Len(steps) : f[i] \in S}
<1>2. 0 \in P
  BY <1>1 DEF Rounds
<1>3. ASSUME NEW i \in 1 .. Len(steps), i - 1 \in P PROVE i \in P
  <2>1. f[i] = steps[i][f[i - 1]] /\ f[i - 1] \in S
    BY <1>1, <1>3 DEF Rounds
  <2>. QED  BY <2>1
<1>4. Len(steps) \in Nat
  OBVIOUS
<1>. HIDE DEF P
<1>5. \A i \in 0 .. Len(steps) : i \in P
  BY <1>2, <1>3, <1>4, EveryRound
<1>6. Len(steps) \in P
  BY <1>4, <1>5
<1>. QED  BY <1>1, <1>6 DEF P, Rounds

-----------------------------------------------------------------------------
(***************************************************************************)
(* Lists.                                                                  *)
(***************************************************************************)

\* What is on a list.
LEMMA RangeIs ==
    ASSUME NEW A, NEW s \in Seq(A)
    PROVE  /\ Range(s) = {s[i] : i \in 1 .. Len(s)}
           /\ Range(s) \in SUBSET A
           /\ s \in Seq(Range(s))
           /\ \A m : Contains(s, m) <=> m \in Range(s)
           /\ IsInjective(s) <=> \A i, j \in 1 .. Len(s) : s[i] = s[j] => i = j
<1>1. Range(s) = {s[i] : i \in 1 .. Len(s)}
  BY DEF Range
<1>2. \A m : Contains(s, m) <=> m \in Range(s)
  BY <1>1 DEF Contains
<1>3. s \in Seq(Range(s))
  BY <1>1
<1>4. IsInjective(s) <=> \A i, j \in 1 .. Len(s) : s[i] = s[j] => i = j
  BY DEF IsInjective
<1>5. Range(s) \in SUBSET A
  BY <1>1
<1>. QED  BY <1>1, <1>2, <1>3, <1>4, <1>5

\* t has what s has, and e.
OneMore(s, e, t) ==
    /\ Range(t) = Range(s) \cup {e}
    /\ IsInjective(s) /\ e \notin Range(s) => IsInjective(t)

\* A list with one more at the end.
LEMMA AppendIs ==
    ASSUME NEW A, NEW s \in Seq(A), NEW e \in A
    PROVE  Append(s, e) \in Seq(A) /\ OneMore(s, e, Append(s, e))
<1>. DEFINE t == Append(s, e)
<1>1. /\ t \in Seq(A) /\ Len(t) = Len(s) + 1 /\ Len(s) \in Nat
      /\ \A i \in 1 .. Len(s) : t[i] = s[i]
      /\ t[Len(s) + 1] = e
  OBVIOUS
<1>. HIDE DEF t
<1>2. Range(t) = Range(s) \cup {e}
  <2>1. Range(s) = {s[j] : j \in 1 .. Len(s)} /\ Range(t) = {t[j] : j \in 1 .. Len(t)}
    BY <1>1, RangeIs
  <2>2. \A j \in 1 .. Len(s) : s[j] \in Range(t)
    BY <1>1, <2>1
  <2>3. e \in Range(t)
    BY <1>1, <2>1
  <2>4. \A j \in 1 .. Len(t) : t[j] \in Range(s) \cup {e}
    BY <1>1, <2>1
  <2>. QED  BY <2>1, <2>2, <2>3, <2>4
<1>3. ASSUME IsInjective(s), e \notin Range(s) PROVE IsInjective(t)
  <2>1. \A i \in 1 .. Len(s) : s[i] # e
    BY <1>3, RangeIs
  <2>2. \A i, j \in 1 .. Len(s) : s[i] = s[j] => i = j
    BY <1>3, RangeIs
  <2>3. \A i, j \in 1 .. Len(t) : t[i] = t[j] => i = j
    BY <1>1, <2>1, <2>2
  <2>. QED  BY <1>1, <2>3, RangeIs
<1>. QED  BY <1>1, <1>2, <1>3 DEF t, OneMore

\* A list with one more in between.
LEMMA InsertAtIs ==
    ASSUME NEW A, NEW s \in Seq(A), NEW e \in A, NEW i \in 1 .. Len(s) + 1
    PROVE  /\ InsertAt(s, i, e) \in Seq(A) /\ Len(InsertAt(s, i, e)) = Len(s) + 1
           /\ \A j \in 1 .. Len(s) + 1 : InsertAt(s, i, e)[j] =
                 IF j < i THEN s[j] ELSE IF j = i THEN e ELSE s[j - 1]
           /\ OneMore(s, e, InsertAt(s, i, e))
<1>. DEFINE a == SubSeq(s, 1, i - 1)
            c == SubSeq(s, i, Len(s))
            t == (a \o <<e>>) \o c
<1>1. /\ a \in Seq(A) /\ Len(a) = i - 1 /\ \A j \in 1 .. i - 1 : a[j] = s[j]
      /\ c \in Seq(A) /\ Len(c) = Len(s) - i + 1
      /\ \A j \in 1 .. Len(s) - i + 1 : c[j] = s[i + j - 1]
  OBVIOUS
<1>. HIDE DEF a, c
<1>2. /\ t \in Seq(A) /\ Len(t) = Len(s) + 1
      /\ \A j \in 1 .. Len(s) + 1 : t[j] = IF j < i THEN s[j] ELSE IF j = i THEN e ELSE s[j - 1]
  <2>. DEFINE u == a \o <<e>>
  <2>0. Len(s) \in Nat /\ i \in Nat /\ i >= 1 /\ i <= Len(s) + 1
    OBVIOUS
  <2>1. u \in Seq(A) /\ Len(u) = i /\ u[i] = e /\ \A j \in 1 .. i - 1 : u[j] = s[j]
    <3>1. <<e>> \in Seq(A) /\ Len(<<e>>) = 1 /\ <<e>>[1] = e
      OBVIOUS
    <3>2. u \in Seq(A) /\ Len(u) = (i - 1) + 1
      BY <1>1, <3>1, ConcatProperties
    <3>3. ASSUME NEW j \in 1 .. i PROVE u[j] = IF j <= i - 1 THEN a[j] ELSE <<e>>[j - (i - 1)]
      <4>1. j \in 1 .. Len(a) + Len(<<e>>)
        BY <1>1, <2>0, <3>1
      <4>2. u[j] = IF j <= Len(a) THEN a[j] ELSE <<e>>[j - Len(a)]
        BY <1>1, <3>1, <4>1, ConcatProperties, Zenon
      <4>. QED  BY <1>1, <4>2
    <3>. HIDE DEF u
    <3>4. u[i] = e
      <4>1. u[i] = IF i <= i - 1 THEN a[i] ELSE <<e>>[i - (i - 1)]
        BY <2>0, <3>3
      <4>2. ~(i <= i - 1) /\ i - (i - 1) = 1
        BY <2>0
      <4>. QED  BY <3>1, <4>1, <4>2
    <3>5. ASSUME NEW j \in 1 .. i - 1 PROVE u[j] = s[j]
      <4>1. u[j] = a[j]
        BY <2>0, <3>3
      <4>. QED  BY <1>1, <4>1
    <3>. QED  BY <2>0, <3>2, <3>4, <3>5
  <2>. HIDE DEF u
  <2>2. u \o c \in Seq(A) /\ Len(u \o c) = Len(u) + Len(c)
    BY <1>1, <2>1, ConcatProperties
  <2>3. Len(u \o c) = Len(s) + 1
    BY <1>1, <2>0, <2>1, <2>2
  <2>4. ASSUME NEW j \in 1 .. Len(s) + 1
        PROVE  (u \o c)[j] = IF j < i THEN s[j] ELSE IF j = i THEN e ELSE s[j - 1]
    <3>1. j \in 1 .. Len(u) + Len(c)
      BY <1>1, <2>0, <2>1
    <3>2. (u \o c)[j] = IF j <= Len(u) THEN u[j] ELSE c[j - Len(u)]
      BY <1>1, <2>1, <3>1, ConcatProperties
    <3>3. CASE j <= i
      BY <2>0, <2>1, <3>2, <3>3
    <3>4. CASE ~(j <= i)
      <4>1. j - i \in 1 .. Len(s) - i + 1 /\ i + (j - i) - 1 = j - 1
        BY <2>0, <3>4
      <4>2. c[j - i] = s[i + (j - i) - 1]
        BY <1>1, <4>1
      <4>3. c[j - i] = s[j - 1]
        BY <4>1, <4>2
      <4>4. (u \o c)[j] = c[j - i]
        BY <2>0, <2>1, <3>2, <3>4
      <4>. QED  BY <2>0, <3>4, <4>3, <4>4
    <3>. QED  BY <3>3, <3>4
  <2>. QED  BY <2>2, <2>3, <2>4 DEF u
<1>3. t = InsertAt(s, i, e)
  BY DEF InsertAt, a, c
<1>. HIDE DEF t
<1>4. Range(t) = Range(s) \cup {e}
  <2>1. Range(s) = {s[j] : j \in 1 .. Len(s)} /\ Range(t) = {t[j] : j \in 1 .. Len(t)}
    BY <1>2, RangeIs
  <2>2. \A j \in 1 .. Len(s) : s[j] \in Range(t)
    <3>. TAKE j \in 1 .. Len(s)
    <3>1. CASE j < i
      BY <1>2, <2>1, <3>1
    <3>2. CASE ~(j < i)
      <4>1. j + 1 \in 1 .. Len(s) + 1 /\ t[j + 1] = s[j]
        BY <1>2, <3>2
      <4>. QED  BY <1>2, <2>1, <4>1
    <3>. QED  BY <3>1, <3>2
  <2>3. e \in Range(t)
    BY <1>2, <2>1
  <2>4. \A j \in 1 .. Len(t) : t[j] \in Range(s) \cup {e}
    BY <1>2, <2>1
  <2>. QED  BY <2>1, <2>2, <2>3, <2>4
<1>5. ASSUME IsInjective(s), e \notin Range(s) PROVE IsInjective(t)
  <2>1. \A j \in 1 .. Len(s) : s[j] # e
    BY <1>5, RangeIs
  <2>2. \A j, k \in 1 .. Len(s) : s[j] = s[k] => j = k
    BY <1>5, RangeIs
  <2>3. ASSUME NEW j \in 1 .. Len(t), NEW k \in 1 .. Len(t), t[j] = t[k] PROVE j = k
    <3>1. j \in 1 .. Len(s) + 1 /\ k \in 1 .. Len(s) + 1 /\ Len(s) \in Nat
      BY <1>2
    <3>2. t[j] = (IF j < i THEN s[j] ELSE IF j = i THEN e ELSE s[j - 1])
      BY <1>2, <3>1
    <3>3. t[k] = (IF k < i THEN s[k] ELSE IF k = i THEN e ELSE s[k - 1])
      BY <1>2, <3>1
    <3>4. i \in Nat /\ i >= 1 /\ i <= Len(s) + 1
      BY <3>1
    <3>5. \A l \in 1 .. Len(s) + 1 :
             t[l] = (IF l < i THEN s[l] ELSE IF l = i THEN e ELSE s[l - 1]) => (t[l] = e => l = i)
      BY <2>1, <3>4
    <3>6. CASE j = i \/ k = i
      <4>1. t[i] = e
        BY <1>2, <3>4
      <4>2. t[j] = e /\ t[k] = e
        BY <2>3, <3>6, <4>1
      <4>. QED  BY <3>1, <3>2, <3>3, <3>5, <4>2
    <3>7. CASE j # i /\ k # i
      <4>. DEFINE Old(l) == IF l < i THEN l ELSE l - 1
      <4>1. Old(j) \in 1 .. Len(s) /\ Old(k) \in 1 .. Len(s)
        BY <3>1, <3>4, <3>7
      <4>2. s[Old(j)] = t[j] /\ s[Old(k)] = t[k]
        BY <3>2, <3>3, <3>7
      <4>. HIDE DEF Old
      <4>3. Old(j) = Old(k)
        BY <2>2, <2>3, <4>1, <4>2, Zenon
      <4>4. (IF j < i THEN j ELSE j - 1) = (IF k < i THEN k ELSE k - 1)
        BY <4>3 DEF Old
      <4>. QED  BY <3>1, <3>4, <3>7, <4>4
    <3>. QED  BY <3>6, <3>7
  <2>. QED  BY <1>2, <2>3, RangeIs
<1>. QED  BY <1>2, <1>3, <1>4, <1>5 DEF OneMore

\* What comes before the places at which to stop.
LEMMA UptoIs ==
    ASSUME NEW A, NEW list \in Seq(A), NEW stops \in SUBSET (1 .. Len(list))
    PROVE  /\ Upto(list, stops) \in Seq(A)
           /\ Len(Upto(list, stops)) <= Len(list)
           /\ \A i \in 1 .. Len(Upto(list, stops)) :
                 Upto(list, stops)[i] = list[i] /\ i \notin stops
           /\ Len(Upto(list, stops)) < Len(list) => Len(Upto(list, stops)) + 1 \in stops
<1>1. Len(list) \in Nat
  OBVIOUS
<1>2. CASE stops = {}
  <2>1. Upto(list, stops) = SubSeq(list, 1, Len(list))
    BY <1>2 DEF Upto
  <2>2. SubSeq(list, 1, Len(list)) = list
    OBVIOUS
  <2>. QED  BY <1>1, <1>2, <2>1, <2>2
<1>3. CASE stops # {}
  <2>. DEFINE k == Least(stops)
  <2>1. stops \in SUBSET Nat
    OBVIOUS
  <2>2. k \in stops /\ \A m \in stops : k <= m
    BY <1>3, <2>1, LeastIs
  <2>3. Upto(list, stops) = SubSeq(list, 1, k - 1)
    BY <1>3 DEF Upto
  <2>. HIDE DEF k
  <2>4. k \in 1 .. Len(list)
    BY <2>2
  <2>5. /\ SubSeq(list, 1, k - 1) \in Seq(A) /\ Len(SubSeq(list, 1, k - 1)) = k - 1
        /\ \A i \in 1 .. k - 1 : SubSeq(list, 1, k - 1)[i] = list[i]
    BY <2>4
  <2>. DEFINE u == SubSeq(list, 1, k - 1)
  <2>. HIDE DEF u
  <2>6. /\ u \in Seq(A) /\ Len(u) = k - 1
        /\ \A i \in 1 .. k - 1 : u[i] = list[i]
    BY <2>5 DEF u
  <2>7. \A i \in 1 .. k - 1 : i \notin stops
    BY <2>2, <2>4
  <2>8. Upto(list, stops) = u
    BY <2>3 DEF u
  <2>. QED  BY <1>1, <2>2, <2>4, <2>6, <2>7, <2>8
<1>. QED  BY <1>2, <1>3

\* Those in S, in the order in which they were.
InOrderOf(s, list) ==
    \A p, q \in 1 .. Len(s) : p < q =>
        \E i, j \in 1 .. Len(list) : i < j /\ list[i] = s[p] /\ list[j] = s[q]

\* What Only leaves: those in S, in their order, and each once if it was so.
LEMMA OnlyIs ==
    ASSUME NEW A, NEW list \in Seq(A), NEW S
    PROVE  /\ Only(list, S) \in Seq(A)
           /\ Range(Only(list, S)) = Range(list) \cap S
           /\ InOrderOf(Only(list, S), list)
           /\ IsInjective(list) => IsInjective(Only(list, S))
<1>. DEFINE n == Len(list)
            R == Range(list)
            T == Seq(R)
            steps == [i \in DOMAIN list |-> [s \in T |-> IF list[i] \in S THEN Append(s, list[i]) ELSE s]]
            o == Only(list, S)
            Good(i, s) ==
               /\ \A m : m \in Range(s) <=> \E j \in 1 .. i : list[j] = m /\ m \in S
               /\ \A p, q \in 1 .. Len(s) : p < q =>
                     \E j, k \in 1 .. i : j < k /\ list[j] = s[p] /\ list[k] = s[q]
<1>1. n \in Nat /\ DOMAIN list = 1 .. n /\ \A i \in 1 .. n : list[i] \in R
  BY RangeIs
<1>2. o = Loop(<<>>, steps)
  BY DEF Only
<1>3. steps \in Seq([T -> T]) /\ Len(steps) = n
      /\ \A i \in 1 .. n, s \in T : steps[i][s] = IF list[i] \in S THEN Append(s, list[i]) ELSE s
  <2>1. \A i \in 1 .. n, s \in T : (IF list[i] \in S THEN Append(s, list[i]) ELSE s) \in T
    BY <1>1
  <2>2. steps \in [1 .. n -> [T -> T]]
    BY <1>1, <2>1
  <2>. HIDE DEF T
  <2>. QED  BY <1>1, <2>2
<1>4. <<>> \in T
  OBVIOUS
<1>. HIDE DEF n, R, steps, o
<1>5. PICK f \in [0 .. n -> T] : Rounds(<<>>, steps, f)
  BY <1>3, <1>4, LoopIs
<1>6. f[0] = <<>> /\ (\A i \in 1 .. n : f[i] = steps[i][f[i - 1]]) /\ f[n] = o
  BY <1>2, <1>3, <1>5 DEF Rounds
<1>7. ASSUME NEW i \in 1 .. n, NEW s \in T, Good(i - 1, s)
      PROVE  Good(i, IF list[i] \in S THEN Append(s, list[i]) ELSE s)
  <2>0. i \in Nat /\ n \in Nat /\ list[i] \in R
    BY <1>1
  <2>1. CASE list[i] \in S
    <3>. DEFINE t == Append(s, list[i])
    <3>1. /\ t \in T /\ Len(t) = Len(s) + 1 /\ Len(s) \in Nat /\ t[Len(s) + 1] = list[i]
          /\ \A p \in 1 .. Len(s) : t[p] = s[p]
      BY <2>0
    <3>2. Range(t) = Range(s) \cup {list[i]}
      BY <2>0, AppendIs DEF OneMore
    <3>3. \A p \in 1 .. Len(s) : s[p] \in Range(s)
      BY RangeIs
    <3>. HIDE DEF t, T
    <3>4. ASSUME NEW m
          PROVE  m \in Range(t) <=> \E j \in 1 .. i : list[j] = m /\ m \in S
      BY <1>7, <2>0, <2>1, <3>2
    <3>5. ASSUME NEW p \in 1 .. Len(t), NEW q \in 1 .. Len(t), p < q
          PROVE  \E j, k \in 1 .. i : j < k /\ list[j] = t[p] /\ list[k] = t[q]
      <4>1. p \in 1 .. Len(s) /\ t[p] = s[p]
        BY <3>1, <3>5
      <4>2. CASE q = Len(s) + 1
        <5>1. \E j \in 1 .. i - 1 : list[j] = s[p]
          BY <1>7, <3>3, <4>1
        <5>. QED  BY <2>0, <3>1, <4>1, <4>2, <5>1
      <4>3. CASE q # Len(s) + 1
        <5>1. q \in 1 .. Len(s) /\ t[q] = s[q]
          BY <3>1, <4>3
        <5>2. \E j, k \in 1 .. i - 1 : j < k /\ list[j] = s[p] /\ list[k] = s[q]
          BY <1>7, <3>5, <4>1, <5>1
        <5>. QED  BY <2>0, <4>1, <5>1, <5>2
      <4>. QED  BY <4>2, <4>3
    <3>6. Good(i, t)
      BY <3>4, <3>5
    <3>7. t = IF list[i] \in S THEN Append(s, list[i]) ELSE s
      BY <2>1 DEF t
    <3>. HIDE DEF Good
    <3>. QED  BY <3>6, <3>7
  <2>2. CASE list[i] \notin S
    <3>. HIDE DEF T
    <3>1. ASSUME NEW m
          PROVE  m \in Range(s) <=> \E j \in 1 .. i : list[j] = m /\ m \in S
      BY <1>7, <2>0, <2>2
    <3>2. ASSUME NEW p \in 1 .. Len(s), NEW q \in 1 .. Len(s), p < q
          PROVE  \E j, k \in 1 .. i : j < k /\ list[j] = s[p] /\ list[k] = s[q]
      <4>1. \E j, k \in 1 .. i - 1 : j < k /\ list[j] = s[p] /\ list[k] = s[q]
        BY <1>7, <3>2
      <4>. QED  BY <2>0, <4>1
    <3>3. Good(i, s)
      BY <3>1, <3>2
    <3>. QED  BY <2>2, <3>3
  <2>. QED  BY <2>1, <2>2
<1>8. Good(0, <<>>)
  <2>1. Range(<<>>) = {} /\ Len(<<>>) = 0
    BY DEF Range
  <2>. QED  BY <2>1
<1>9. Good(n, o) /\ o \in T
  <2>. DEFINE P == {i \in 0 .. n : Good(i, f[i])}
  <2>. HIDE DEF Good, T
  <2>1. 0 \in P
    BY <1>1, <1>6, <1>8
  <2>2. ASSUME NEW i \in 1 .. n, i - 1 \in P PROVE i \in P
    <3>1. f[i - 1] \in T /\ i \in 0 .. n /\ Good(i - 1, f[i - 1])
      BY <1>1, <2>2
    <3>2. f[i] = IF list[i] \in S THEN Append(f[i - 1], list[i]) ELSE f[i - 1]
      BY <1>3, <1>6, <3>1
    <3>3. Good(i, f[i])
      BY <1>7, <3>1, <3>2
    <3>. QED  BY <3>1, <3>3
  <2>. HIDE DEF P
  <2>3. \A i \in 0 .. n : i \in P
    BY <1>1, <2>1, <2>2, EveryRound
  <2>4. n \in 0 .. n
    BY <1>1
  <2>5. Good(n, f[n]) /\ f[n] \in T
    BY <2>3, <2>4 DEF P
  <2>. QED  BY <1>6, <2>5
<1>10. o \in Seq(A)
  <2>1. R \in SUBSET A
    BY RangeIs DEF R
  <2>2. o \in Seq(R)
    BY <1>9
  <2>. QED  BY <2>1, <2>2, SeqMonotonic
<1>11. Range(o) = R \cap S
  <2>1. R = {list[j] : j \in 1 .. n}
    BY RangeIs DEF R, n
  <2>2. \A m : m \in Range(o) <=> \E j \in 1 .. n : list[j] = m /\ m \in S
    BY <1>9
  <2>. QED  BY <2>1, <2>2
<1>12. InOrderOf(o, list)
  BY <1>9 DEF InOrderOf, n
<1>13. ASSUME IsInjective(list) PROVE IsInjective(o)
  <2>1. \A i, j \in 1 .. n : list[i] = list[j] => i = j
    BY <1>13, RangeIs DEF n
  <2>2. \A p, q \in 1 .. Len(o) : p < q => o[p] # o[q]
    BY <1>1, <1>9, <2>1
  <2>3. \A p, q \in 1 .. Len(o) : o[p] = o[q] => p = q
    BY <1>10, <2>2
  <2>. QED  BY <1>10, <2>3, RangeIs
<1>. QED  BY <1>10, <1>11, <1>12, <1>13 DEF o, R

\* Where one is inserted: before the first that it is less than.
LEMMA InsertedIs ==
    ASSUME NEW A, NEW s \in Seq(A), NEW e \in A, NEW less
    PROVE  \E i \in 1 .. Len(s) + 1 :
              /\ Inserted(s, e, less) = InsertAt(s, i, e)
              /\ \A j \in 1 .. Len(s) : j < i => <<e, s[j]>> \notin less
              /\ i <= Len(s) => <<e, s[i]>> \in less
<1>. DEFINE before == {i \in DOMAIN s : <<e, s[i]>> \in less}
<1>0. Len(s) \in Nat /\ DOMAIN s = 1 .. Len(s)
  OBVIOUS
<1>1. CASE before = {}
  <2>1. Inserted(s, e, less) = InsertAt(s, Len(s) + 1, e)
    BY <1>1 DEF Inserted
  <2>2. \A j \in 1 .. Len(s) : <<e, s[j]>> \notin less
    BY <1>0, <1>1
  <2>. QED  BY <1>0, <2>1, <2>2
<1>2. CASE before # {}
  <2>. DEFINE i == Least(before)
  <2>1. before \in SUBSET Nat
    BY <1>0
  <2>2. Inserted(s, e, less) = InsertAt(s, i, e)
    BY <1>2 DEF Inserted
  <2>3. i \in before /\ \A j \in before : i <= j
    <3>. HIDE DEF before
    <3>. QED  BY <1>2, <2>1, LeastIs
  <2>. HIDE DEF i
  <2>4. i \in 1 .. Len(s) /\ <<e, s[i]>> \in less
    BY <1>0, <2>3
  <2>5. ASSUME NEW j \in 1 .. Len(s), j < i, <<e, s[j]>> \in less PROVE FALSE
    <3>1. j \in before
      BY <1>0, <2>5
    <3>2. i <= j
      BY <2>3, <3>1
    <3>. QED  BY <1>0, <2>4, <2>5, <3>2
  <2>. QED  BY <1>0, <2>2, <2>4, <2>5
<1>. QED  BY <1>1, <1>2

\* A comparison that is an order of the elements of R.
OrderOf(less, R) ==
    /\ \A a, b \in R : a # b => <<a, b>> \in less \/ <<b, a>> \in less
    /\ \A a, b, c \in R : <<a, b>> \in less /\ <<b, c>> \in less => <<a, c>> \in less

Ordered(s, less) == \A i, j \in 1 .. Len(s) : i < j => <<s[i], s[j]>> \in less

\* One more in a list that is in order.
LEMMA InsertedInOrder ==
    ASSUME NEW R, NEW s \in Seq(R), NEW e \in R, e \notin Range(s), NEW less,
           OrderOf(less, R), Ordered(s, less)
    PROVE  Ordered(Inserted(s, e, less), less)
<1>1. PICK i \in 1 .. Len(s) + 1 :
         /\ Inserted(s, e, less) = InsertAt(s, i, e)
         /\ \A j \in 1 .. Len(s) : j < i => <<e, s[j]>> \notin less
         /\ i <= Len(s) => <<e, s[i]>> \in less
  BY InsertedIs
<1>. DEFINE t == InsertAt(s, i, e)
<1>2. /\ Len(t) = Len(s) + 1
      /\ \A j \in 1 .. Len(s) + 1 : t[j] = IF j < i THEN s[j] ELSE IF j = i THEN e ELSE s[j - 1]
  BY InsertAtIs
<1>. HIDE DEF t
<1>3. Len(s) \in Nat /\ i \in Nat /\ 1 <= i /\ i <= Len(s) + 1
  OBVIOUS
<1>4. \A j \in 1 .. Len(s) : s[j] \in R /\ s[j] # e
  BY RangeIs
<1>5. \A j \in 1 .. Len(s) : j < i => <<s[j], e>> \in less
  BY <1>1, <1>4 DEF OrderOf
<1>6. ASSUME NEW j \in 1 .. Len(s), i <= j PROVE <<e, s[j]>> \in less
  <2>1. i \in 1 .. Len(s) /\ <<e, s[i]>> \in less
    BY <1>1, <1>3, <1>6
  <2>2. CASE i = j
    BY <2>1, <2>2
  <2>3. CASE i # j
    <3>1. <<s[i], s[j]>> \in less
      BY <1>3, <1>6, <2>1, <2>3 DEF Ordered
    <3>2. e \in R /\ s[i] \in R /\ s[j] \in R
      BY <1>4, <2>1
    <3>. QED  BY <2>1, <3>1, <3>2 DEF OrderOf
  <2>. QED  BY <2>2, <2>3
<1>7. ASSUME NEW p \in 1 .. Len(t), NEW q \in 1 .. Len(t), p < q PROVE <<t[p], t[q]>> \in less
  <2>1. p \in 1 .. Len(s) + 1 /\ q \in 1 .. Len(s) + 1
    BY <1>2
  <2>2. CASE q < i
    <3>1. t[p] = s[p] /\ t[q] = s[q] /\ p \in 1 .. Len(s) /\ q \in 1 .. Len(s)
      BY <1>2, <1>3, <1>7, <2>1, <2>2
    <3>. QED  BY <1>7, <3>1 DEF Ordered
  <2>3. CASE q = i
    <3>1. t[p] = s[p] /\ t[q] = e /\ p \in 1 .. Len(s) /\ p < i
      BY <1>2, <1>3, <1>7, <2>1, <2>3
    <3>. QED  BY <1>5, <3>1
  <2>4. CASE q > i
    <3>1. t[q] = s[q - 1] /\ q - 1 \in 1 .. Len(s) /\ i <= q - 1
      BY <1>2, <1>3, <2>1, <2>4
    <3>2. CASE p < i
      <4>1. t[p] = s[p] /\ p \in 1 .. Len(s) /\ p < q - 1
        BY <1>2, <1>3, <2>1, <3>1, <3>2
      <4>. QED  BY <3>1, <4>1 DEF Ordered
    <3>3. CASE p = i
      <4>1. t[p] = e
        BY <1>2, <1>3, <2>1, <3>3
      <4>. QED  BY <1>6, <3>1, <4>1
    <3>4. CASE p > i
      <4>1. t[p] = s[p - 1] /\ p - 1 \in 1 .. Len(s) /\ p - 1 < q - 1
        BY <1>2, <1>3, <1>7, <2>1, <3>4
      <4>. QED  BY <3>1, <4>1 DEF Ordered
    <3>. QED  BY <1>3, <2>1, <3>2, <3>3, <3>4
  <2>. QED  BY <1>3, <2>1, <2>2, <2>3, <2>4
<1>8. Ordered(t, less)
  BY <1>7 DEF Ordered
<1>. QED  BY <1>1, <1>8 DEF t

\* Sorting keeps what is on the list, once each; and it sorts, by a comparison that is an
\* order of the elements.
LEMMA SortedIs ==
    ASSUME NEW A, NEW list \in Seq(A), NEW less
    PROVE  /\ Sorted(list, less) \in Seq(A)
           /\ Range(Sorted(list, less)) = Range(list)
           /\ IsInjective(list) => IsInjective(Sorted(list, less))
           /\ IsInjective(list) /\ OrderOf(less, Range(list)) => Ordered(Sorted(list, less), less)
<1>. DEFINE n == Len(list)
            R == Range(list)
            T == Seq(R)
            steps == [i \in DOMAIN list |-> [s \in T |-> Inserted(s, list[i], less)]]
            o == Sorted(list, less)
            Good(i, s) ==
               /\ \A m : m \in Range(s) <=> \E j \in 1 .. i : list[j] = m
               /\ IsInjective(list) => IsInjective(s)
               /\ IsInjective(list) /\ OrderOf(less, R) => Ordered(s, less)
<1>1. n \in Nat /\ DOMAIN list = 1 .. n /\ \A i \in 1 .. n : list[i] \in R
  BY RangeIs
<1>2. o = Loop(<<>>, steps)
  BY DEF Sorted
<1>3. ASSUME NEW s \in T, NEW e \in R
      PROVE  /\ Inserted(s, e, less) \in T
             /\ Range(Inserted(s, e, less)) = Range(s) \cup {e}
             /\ IsInjective(s) /\ e \notin Range(s) => IsInjective(Inserted(s, e, less))
  <2>. HIDE DEF R
  <2>1. PICK i \in 1 .. Len(s) + 1 : Inserted(s, e, less) = InsertAt(s, i, e)
    BY InsertedIs
  <2>. QED  BY <2>1, InsertAtIs DEF OneMore
<1>4. steps \in Seq([T -> T]) /\ Len(steps) = n
      /\ \A i \in 1 .. n, s \in T : steps[i][s] = Inserted(s, list[i], less)
  <2>. HIDE DEF T, R
  <2>1. \A i \in 1 .. n, s \in T : Inserted(s, list[i], less) \in T
    BY <1>1, <1>3
  <2>2. steps \in [1 .. n -> [T -> T]]
    BY <1>1, <2>1
  <2>. QED  BY <1>1, <2>2
<1>5. <<>> \in T
  OBVIOUS
<1>. HIDE DEF n, R, steps, o
<1>6. PICK f \in [0 .. n -> T] : Rounds(<<>>, steps, f)
  BY <1>4, <1>5, LoopIs
<1>7. f[0] = <<>> /\ (\A i \in 1 .. n : f[i] = steps[i][f[i - 1]]) /\ f[n] = o
  BY <1>2, <1>4, <1>6 DEF Rounds
<1>8. ASSUME NEW i \in 1 .. n, NEW s \in T, Good(i - 1, s)
      PROVE  Good(i, Inserted(s, list[i], less))
  <2>0. i \in Nat /\ n \in Nat /\ list[i] \in R
    BY <1>1
  <2>. DEFINE t == Inserted(s, list[i], less)
  <2>1. /\ Range(t) = Range(s) \cup {list[i]}
        /\ IsInjective(s) /\ list[i] \notin Range(s) => IsInjective(t)
    BY <1>3, <2>0
  <2>2. IsInjective(list) => list[i] \notin Range(s)
    <3>1. ASSUME IsInjective(list), list[i] \in Range(s) PROVE FALSE
      <4>1. PICK j \in 1 .. i - 1 : list[j] = list[i]
        BY <1>8, <3>1
      <4>2. \A a, b \in 1 .. n : list[a] = list[b] => a = b
        BY <3>1, RangeIs DEF n
      <4>3. j \in 1 .. n /\ j # i
        BY <2>0
      <4>. QED  BY <4>1, <4>2, <4>3
    <3>. QED  BY <3>1
  <2>3. ASSUME IsInjective(list), OrderOf(less, R) PROVE Ordered(t, less)
    <3>1. Ordered(s, less) /\ list[i] \notin Range(s)
      BY <1>8, <2>2, <2>3
    <3>. HIDE DEF Good
    <3>. QED  BY <2>0, <2>3, <3>1, InsertedInOrder
  <2>. HIDE DEF t
  <2>4. ASSUME NEW m PROVE m \in Range(t) <=> \E j \in 1 .. i : list[j] = m
    BY <1>8, <2>0, <2>1
  <2>5. Good(i, t)
    BY <1>8, <2>1, <2>2, <2>3, <2>4
  <2>. HIDE DEF Good
  <2>. QED  BY <2>5 DEF t
<1>9. Good(0, <<>>)
  <2>1. Range(<<>>) = {} /\ Len(<<>>) = 0 /\ DOMAIN <<>> = {}
    BY DEF Range
  <2>2. IsInjective(<<>>)
    BY <2>1 DEF IsInjective
  <2>3. Ordered(<<>>, less)
    BY <2>1 DEF Ordered
  <2>. QED  BY <2>1, <2>2, <2>3
<1>10. Good(n, o) /\ o \in T
  <2>. DEFINE P == {i \in 0 .. n : Good(i, f[i])}
  <2>. HIDE DEF Good, T
  <2>1. 0 \in P
    BY <1>1, <1>7, <1>9
  <2>2. ASSUME NEW i \in 1 .. n, i - 1 \in P PROVE i \in P
    <3>1. f[i - 1] \in T /\ i \in 0 .. n /\ Good(i - 1, f[i - 1])
      BY <1>1, <2>2
    <3>2. f[i] = Inserted(f[i - 1], list[i], less)
      BY <1>4, <1>7, <3>1
    <3>3. Good(i, f[i])
      BY <1>8, <3>1, <3>2
    <3>. QED  BY <3>1, <3>3
  <2>. HIDE DEF P
  <2>3. \A i \in 0 .. n : i \in P
    BY <1>1, <2>1, <2>2, EveryRound
  <2>4. n \in 0 .. n
    BY <1>1
  <2>5. Good(n, f[n]) /\ f[n] \in T
    BY <2>3, <2>4 DEF P
  <2>. QED  BY <1>7, <2>5
<1>11. o \in Seq(A)
  <2>1. R \in SUBSET A
    BY RangeIs DEF R
  <2>2. o \in Seq(R)
    BY <1>10
  <2>. QED  BY <2>1, <2>2, SeqMonotonic
<1>12. Range(o) = R
  <2>1. R = {list[j] : j \in 1 .. n}
    BY RangeIs DEF R, n
  <2>2. \A m : m \in Range(o) <=> \E j \in 1 .. n : list[j] = m
    BY <1>10
  <2>. QED  BY <2>1, <2>2
<1>. QED  BY <1>10, <1>11, <1>12 DEF o, R

-----------------------------------------------------------------------------
(***************************************************************************)
(* What a node holds: the operators on its lists keep it well formed.      *)
(***************************************************************************)

\* The lists hold a peer once; the ranges of those listed are known, perhaps those of others.
Listing(h) ==
    /\ h \in Hub /\ IsInjective(h.succ) /\ IsInjective(h.pred)
    /\ \A m \in Listed(h) : h.known[m] # None

\* The ranges of those listed are known and of no others.
Held(h) == Listing(h) /\ \A m \in Node : h.known[m] # None => m \in Listed(h)

\* Lists and what is known of the peers aside, nothing changes.
Same(h, k) ==
    /\ k.status = h.status /\ k.range = h.range /\ k.answered = h.answered
    /\ k.rep = h.rep /\ k.attempts = h.attempts /\ k.away = h.away

\* What the fields of a node are.
LEMMA HubIs ==
    ASSUME NEW h \in Hub
    PROVE  /\ h.succ \in Seq(Node) /\ h.pred \in Seq(Node)
           /\ h.known \in [Node -> NodeRange \cup {None}]
           /\ h.range \in NodeRange \cup {None} /\ h.status \in Status
           /\ Listed(h) \in SUBSET Node
           /\ Range(h.succ) \in SUBSET Node /\ Range(h.pred) \in SUBSET Node
           /\ h.answered \in SUBSET Node /\ h.rep \in Node \cup {None}
           /\ h.attempts \in 0 .. MaxJoinAttempts + 1
           /\ h.away \in [pred : Node, range : NodeRange] \cup {None}
<1>1. /\ h.succ \in Seq(Node) /\ h.pred \in Seq(Node)
      /\ h.known \in [Node -> NodeRange \cup {None}]
      /\ h.range \in NodeRange \cup {None} /\ h.status \in Status
      /\ h.answered \in SUBSET Node /\ h.rep \in Node \cup {None}
      /\ h.attempts \in 0 .. MaxJoinAttempts + 1
      /\ h.away \in [pred : Node, range : NodeRange] \cup {None}
  BY DEF Hub
<1>2. Range(h.succ) \in SUBSET Node /\ Range(h.pred) \in SUBSET Node
  BY <1>1, RangeIs
<1>. QED  BY <1>1, <1>2 DEF Listed

\* A node with other lists, and other ranges known.
LEMMA HubWith ==
    ASSUME NEW h \in Hub
    PROVE  /\ \A s \in Seq(Node) : [h EXCEPT !.succ = s] \in Hub
           /\ \A p \in Seq(Node) : [h EXCEPT !.pred = p] \in Hub
           /\ \A s, p \in Seq(Node) : [h EXCEPT !.succ = s, !.pred = p] \in Hub
           /\ \A w \in [Node -> NodeRange \cup {None}] :
                 /\ [h EXCEPT !.known = w] \in Hub
                 /\ \A s \in Seq(Node) : [h EXCEPT !.known = w, !.succ = s] \in Hub
                 /\ \A p \in Seq(Node) : [h EXCEPT !.known = w, !.pred = p] \in Hub
BY DEF Hub

\* k is h without what was known of those on no list.
UnRegistered(h, k) ==
    /\ Held(k) /\ Same(h, k) /\ k.succ = h.succ /\ k.pred = h.pred
    /\ k.known = [m \in Node |-> IF m \in Listed(h) THEN h.known[m] ELSE None]

\* UnRegister forgets the ranges of those that are not listed, and of no others.
LEMMA UnRegisterIs ==
    ASSUME NEW h, Listing(h)
    PROVE  UnRegistered(h, UnRegister(h))
<1>. DEFINE w == [m \in Node |-> IF m \in Listed(h) THEN h.known[m] ELSE None]
            k == [h EXCEPT !.known = w]
<1>1. h \in Hub /\ Listed(h) \in SUBSET Node /\ h.known \in [Node -> NodeRange \cup {None}]
  BY HubIs DEF Listing
<1>2. UnRegister(h) = k
  BY DEF UnRegister
<1>3. w \in [Node -> NodeRange \cup {None}]
  BY <1>1
<1>4. k \in Hub
  <2>. HIDE DEF w
  <2>. QED  BY <1>1, <1>3, HubWith
<1>5. /\ k.succ = h.succ /\ k.pred = h.pred /\ k.known = w /\ Same(h, k) /\ Listed(k) = Listed(h)
  <2>. HIDE DEF w
  <2>1. k.succ = h.succ /\ k.pred = h.pred /\ k.known = w
    BY <1>1 DEF Hub
  <2>2. Same(h, k)
    BY <1>1 DEF Hub, Same
  <2>. QED  BY <2>1, <2>2 DEF Listed
<1>6. Held(k)
  <2>1. \A m \in Listed(h) : w[m] = h.known[m] /\ w[m] # None
    BY <1>1 DEF Listing
  <2>2. \A m \in Node : w[m] # None => m \in Listed(h)
    OBVIOUS
  <2>. HIDE DEF w, k
  <2>. QED  BY <1>4, <1>5, <2>1, <2>2 DEF Held, Listing
<1>. HIDE DEF k
<1>. QED  BY <1>2, <1>5, <1>6 DEF UnRegistered

\* k is h with successor m, whose range is r.
WithSuccessor(h, m, r, k) ==
    /\ Held(k) /\ Same(h, k) /\ k.pred = h.pred /\ k.known = [h.known EXCEPT ![m] = r]
    /\ k.succ = IF m \in Range(h.succ) THEN h.succ ELSE Append(h.succ, m)
    /\ Range(k.succ) = Range(h.succ) \cup {m}

\* PList::Add of a successor.
LEMMA AddSuccessorIs ==
    ASSUME NEW h, Held(h), NEW m \in Node, NEW r \in NodeRange
    PROVE  WithSuccessor(h, m, r, AddSuccessor(h, m, r))
<1>. DEFINE w == [h.known EXCEPT ![m] = r]
            s == IF m \in Range(h.succ) THEN h.succ ELSE Append(h.succ, m)
            k == [h EXCEPT !.known = w, !.succ = s]
<1>1. /\ h \in Hub /\ h.succ \in Seq(Node) /\ h.known \in [Node -> NodeRange \cup {None}]
      /\ IsInjective(h.succ) /\ IsInjective(h.pred) /\ Range(h.succ) \in SUBSET Node
  BY HubIs DEF Held, Listing
<1>2. /\ s \in Seq(Node) /\ Range(s) = Range(h.succ) \cup {m} /\ IsInjective(s)
  BY <1>1, AppendIs DEF OneMore
<1>3. AddSuccessor(h, m, r) = k
  <2>1. Contains(h.succ, m) <=> m \in Range(h.succ)
    BY <1>1, RangeIs
  <2>. QED  BY <2>1 DEF AddSuccessor
<1>4. w \in [Node -> NodeRange \cup {None}] /\ (\A o \in Node : w[o] = IF o = m THEN r ELSE h.known[o])
  BY <1>1
<1>. HIDE DEF w, s
<1>5. k \in Hub
  BY <1>1, <1>2, <1>4, HubWith
<1>6. k.succ = s /\ k.pred = h.pred /\ k.known = w
  BY <1>1 DEF Hub
<1>7. Same(h, k)
  BY <1>1 DEF Hub, Same
<1>. HIDE DEF k
<1>8. Listed(k) = Listed(h) \cup {m}
  BY <1>2, <1>6 DEF Listed
<1>9. r # None
  BY RingAssumption
<1>10. Held(k)
  <2>1. \A o \in Node : o \in Listed(h) <=> h.known[o] # None
    BY <1>1, HubIs DEF Held, Listing
  <2>2. \A o \in Node : o \in Listed(k) <=> k.known[o] # None
    BY <1>4, <1>6, <1>8, <1>9, <2>1
  <2>3. Listed(k) \in SUBSET Node
    BY <1>5, HubIs
  <2>. QED  BY <1>1, <1>2, <1>5, <1>6, <2>2, <2>3 DEF Held, Listing
<1>. QED  BY <1>2, <1>3, <1>6, <1>7, <1>10 DEF s, w, WithSuccessor

\* k is h with predecessor m, whose range is r.
WithPredecessor(h, m, r, k) ==
    /\ Held(k) /\ Same(h, k) /\ k.succ = h.succ /\ k.known = [h.known EXCEPT ![m] = r]
    /\ Range(k.pred) = Range(h.pred) \cup {m}

\* A predecessor is added, at either end of the list.
LEMMA AddedPredecessor ==
    ASSUME NEW h, Held(h), NEW m \in Node, NEW r \in NodeRange, NEW p \in Seq(Node),
           Range(p) = Range(h.pred) \cup {m}, IsInjective(p)
    PROVE  WithPredecessor(h, m, r, [h EXCEPT !.known[m] = r, !.pred = p])
<1>. DEFINE w == [h.known EXCEPT ![m] = r]
            k == [h EXCEPT !.known = w, !.pred = p]
<1>1. /\ h \in Hub /\ h.pred \in Seq(Node) /\ h.known \in [Node -> NodeRange \cup {None}]
      /\ IsInjective(h.succ) /\ IsInjective(h.pred)
  BY HubIs DEF Held, Listing
<1>3. [h EXCEPT !.known[m] = r, !.pred = p] = k
  OBVIOUS
<1>4. w \in [Node -> NodeRange \cup {None}] /\ (\A o \in Node : w[o] = IF o = m THEN r ELSE h.known[o])
  BY <1>1
<1>. HIDE DEF w
<1>5. k \in Hub
  BY <1>1, <1>4, HubWith
<1>6. k.succ = h.succ /\ k.pred = p /\ k.known = w
  BY <1>1 DEF Hub
<1>7. Same(h, k)
  BY <1>1 DEF Hub, Same
<1>. HIDE DEF k
<1>8. Listed(k) = Listed(h) \cup {m}
  BY <1>6 DEF Listed
<1>9. r # None
  BY RingAssumption
<1>10. Held(k)
  <2>1. \A o \in Node : o \in Listed(h) <=> h.known[o] # None
    BY <1>1, HubIs DEF Held, Listing
  <2>2. \A o \in Node : o \in Listed(k) <=> k.known[o] # None
    BY <1>4, <1>6, <1>8, <1>9, <2>1
  <2>3. Listed(k) \in SUBSET Node
    BY <1>5, HubIs
  <2>. QED  BY <1>1, <1>5, <1>6, <2>2, <2>3 DEF Held, Listing
<1>. QED  BY <1>3, <1>6, <1>7, <1>10 DEF w, WithPredecessor

\* Another order of the same peers.
Reordered(h, k) ==
    /\ Held(k) /\ Same(h, k) /\ k.known = h.known
    /\ Range(k.succ) = Range(h.succ) /\ Range(k.pred) = Range(h.pred)

\* Another order of the successors changes nothing else.
LEMMA ReorderedSucc ==
    ASSUME NEW h, Held(h), NEW s \in Seq(Node), Range(s) = Range(h.succ), IsInjective(s)
    PROVE  /\ Reordered(h, [h EXCEPT !.succ = s])
           /\ [h EXCEPT !.succ = s].succ = s /\ [h EXCEPT !.succ = s].pred = h.pred
<1>. DEFINE k == [h EXCEPT !.succ = s]
<1>1. h \in Hub /\ IsInjective(h.succ) /\ IsInjective(h.pred)
  BY DEF Held, Listing
<1>2. k \in Hub
  BY <1>1, HubWith
<1>3. k.succ = s /\ k.pred = h.pred /\ k.known = h.known
  BY <1>1 DEF Hub
<1>4. Same(h, k)
  BY <1>1 DEF Hub, Same
<1>. HIDE DEF k
<1>5. Listed(k) = Listed(h)
  BY <1>3 DEF Listed
<1>6. Held(k)
  BY <1>1, <1>2, <1>3, <1>5 DEF Held, Listing
<1>. QED  BY <1>3, <1>4, <1>6 DEF k, Reordered

\* The same for the predecessors.
LEMMA ReorderedPred ==
    ASSUME NEW h, Held(h), NEW p \in Seq(Node), Range(p) = Range(h.pred), IsInjective(p)
    PROVE  /\ Reordered(h, [h EXCEPT !.pred = p])
           /\ [h EXCEPT !.pred = p].pred = p /\ [h EXCEPT !.pred = p].succ = h.succ
<1>. DEFINE k == [h EXCEPT !.pred = p]
<1>1. h \in Hub /\ IsInjective(h.succ) /\ IsInjective(h.pred)
  BY DEF Held, Listing
<1>2. k \in Hub
  BY <1>1, HubWith
<1>3. k.pred = p /\ k.succ = h.succ /\ k.known = h.known
  BY <1>1 DEF Hub
<1>4. Same(h, k)
  BY <1>1 DEF Hub, Same
<1>. HIDE DEF k
<1>5. Listed(k) = Listed(h)
  BY <1>3 DEF Listed
<1>6. Held(k)
  BY <1>1, <1>2, <1>3, <1>5 DEF Held, Listing
<1>. QED  BY <1>3, <1>4, <1>6 DEF k, Reordered

\* Sorting keeps the successors; when the comparison is an order, they are in this order.
LEMMA SortSuccIs ==
    ASSUME NEW h, Held(h)
    PROVE  /\ Reordered(h, SortSucc(h)) /\ SortSucc(h).pred = h.pred
           /\ h.range # None /\ OrderOf(Ahead(h), Range(h.succ)) =>
                 Ordered(SortSucc(h).succ, Ahead(h))
<1>1. h \in Hub /\ h.succ \in Seq(Node) /\ h.pred \in Seq(Node)
      /\ IsInjective(h.succ) /\ IsInjective(h.pred)
  BY HubIs DEF Held, Listing
<1>2. CASE h.range = None
  <2>1. SortSucc(h) = h
    BY <1>2 DEF SortSucc
  <2>. QED  BY <1>2, <2>1 DEF Same, Reordered
<1>3. CASE h.range # None
  <2>. DEFINE s == Sorted(h.succ, Ahead(h))
  <2>1. SortSucc(h) = [h EXCEPT !.succ = s]
    BY <1>3 DEF SortSucc
  <2>2. /\ s \in Seq(Node) /\ Range(s) = Range(h.succ) /\ IsInjective(s)
        /\ OrderOf(Ahead(h), Range(h.succ)) => Ordered(s, Ahead(h))
    BY <1>1, SortedIs
  <2>. HIDE DEF s
  <2>. QED  BY <1>1, <2>1, <2>2, ReorderedSucc
<1>. QED  BY <1>2, <1>3

\* Sorting keeps the predecessors.
LEMMA SortPredIs ==
    ASSUME NEW h, Held(h)
    PROVE  Reordered(h, SortPred(h)) /\ SortPred(h).succ = h.succ
<1>1. h \in Hub /\ h.succ \in Seq(Node) /\ h.pred \in Seq(Node)
      /\ IsInjective(h.succ) /\ IsInjective(h.pred)
  BY HubIs DEF Held, Listing
<1>2. CASE h.range = None
  <2>1. SortPred(h) = h
    BY <1>2 DEF SortPred
  <2>. QED  BY <1>2, <2>1 DEF Same, Reordered
<1>3. CASE h.range # None
  <2>. DEFINE p == Sorted(h.pred, Back(h))
  <2>1. SortPred(h) = [h EXCEPT !.pred = p]
    BY <1>3 DEF SortPred
  <2>2. p \in Seq(Node) /\ Range(p) = Range(h.pred) /\ IsInjective(p)
    BY <1>1, SortedIs
  <2>. HIDE DEF p
  <2>. QED  BY <1>1, <2>1, <2>2, ReorderedPred
<1>. QED  BY <1>2, <1>3

\* A list with one more at the front.
LEMMA PrependIs ==
    ASSUME NEW A, NEW s \in Seq(A), NEW e \in A
    PROVE  <<e>> \o s \in Seq(A) /\ OneMore(s, e, <<e>> \o s)
<1>1. InsertAt(s, 1, e) = <<e>> \o s
  <2>1. SubSeq(s, 1, 0) = <<>> /\ SubSeq(s, 1, Len(s)) = s /\ 1 - 1 = 0
    OBVIOUS
  <2>2. (<<>> \o <<e>>) \o s = <<e>> \o s
    OBVIOUS
  <2>. QED  BY <2>1, <2>2 DEF InsertAt
<1>2. 1 \in 1 .. Len(s) + 1
  OBVIOUS
<1>3. InsertAt(s, 1, e) \in Seq(A) /\ OneMore(s, e, InsertAt(s, 1, e))
  BY <1>2, InsertAtIs, Zenon
<1>. QED  BY <1>1, <1>3, Zenon

\* A predecessor comes in at the front ...
LEMMA SetPredecessorIs ==
    ASSUME NEW h, Held(h), NEW m \in Node, NEW r \in NodeRange
    PROVE  WithPredecessor(h, m, r, SetPredecessor(h, m, r))
<1>. DEFINE p == IF m \in Range(h.pred) THEN h.pred ELSE <<m>> \o h.pred
            k == [h EXCEPT !.known[m] = r, !.pred = p]
<1>1. h.pred \in Seq(Node) /\ IsInjective(h.pred) /\ Range(h.pred) \in SUBSET Node
  BY HubIs DEF Held, Listing
<1>2. p \in Seq(Node) /\ Range(p) = Range(h.pred) \cup {m} /\ IsInjective(p)
  BY <1>1, PrependIs DEF OneMore
<1>3. SetPredecessor(h, m, r) = SortPred(k)
  <2>1. Contains(h.pred, m) <=> m \in Range(h.pred)
    BY <1>1, RangeIs
  <2>. QED  BY <2>1 DEF SetPredecessor
<1>. HIDE DEF p
<1>4. WithPredecessor(h, m, r, k)
  BY <1>2, AddedPredecessor
<1>. HIDE DEF k
<1>5. Reordered(k, SortPred(k)) /\ SortPred(k).succ = k.succ
  BY <1>4, SortPredIs DEF WithPredecessor
<1>. QED  BY <1>3, <1>4, <1>5 DEF Same, WithPredecessor, Reordered

\* ... or at the back.
LEMMA AddPredecessorIs ==
    ASSUME NEW h, Held(h), NEW m \in Node, NEW r \in NodeRange
    PROVE  WithPredecessor(h, m, r, AddPredecessor(h, m, r))
<1>. DEFINE p == IF m \in Range(h.pred) THEN h.pred ELSE Append(h.pred, m)
            k == [h EXCEPT !.known[m] = r, !.pred = p]
<1>1. h.pred \in Seq(Node) /\ IsInjective(h.pred) /\ Range(h.pred) \in SUBSET Node
  BY HubIs DEF Held, Listing
<1>2. p \in Seq(Node) /\ Range(p) = Range(h.pred) \cup {m} /\ IsInjective(p)
  BY <1>1, AppendIs DEF OneMore
<1>3. AddPredecessor(h, m, r) = SortPred(k)
  <2>1. Contains(h.pred, m) <=> m \in Range(h.pred)
    BY <1>1, RangeIs
  <2>. QED  BY <2>1 DEF AddPredecessor
<1>. HIDE DEF p
<1>4. WithPredecessor(h, m, r, k)
  BY <1>2, AddedPredecessor
<1>. HIDE DEF k
<1>5. Reordered(k, SortPred(k)) /\ SortPred(k).succ = k.succ
  BY <1>4, SortPredIs DEF WithPredecessor
<1>. QED  BY <1>3, <1>4, <1>5 DEF Same, WithPredecessor, Reordered

\* k is h with the only successor m, whose range is r.
WithOnlySuccessor(h, m, r, k) ==
    /\ Held(k) /\ Same(h, k) /\ k.pred = h.pred /\ k.succ = <<m>> /\ k.known[m] = r
    /\ \A o \in Node \ {m} : k.known[o] \in {h.known[o], None}

\* A peer becomes the only successor.
LEMMA SetSuccessorIs ==
    ASSUME NEW h, Held(h), NEW m \in Node, NEW r \in NodeRange
    PROVE  WithOnlySuccessor(h, m, r, SetSuccessor(h, m, r))
<1>. DEFINE k == [h EXCEPT !.succ = <<>>]
            l == UnRegister(k)
<1>1. h \in Hub /\ h.known \in [Node -> NodeRange \cup {None}] /\ Listed(h) \in SUBSET Node
  BY HubIs DEF Held, Listing
<1>2. /\ k \in Hub /\ k.succ = <<>> /\ k.pred = h.pred /\ k.known = h.known /\ Same(h, k)
  <2>1. <<>> \in Seq(Node)
    OBVIOUS
  <2>2. k \in Hub
    BY <1>1, <2>1, HubWith
  <2>3. k.succ = <<>> /\ k.pred = h.pred /\ k.known = h.known
    BY <1>1 DEF Hub
  <2>4. Same(h, k)
    BY <1>1 DEF Hub, Same
  <2>. QED  BY <2>2, <2>3, <2>4
<1>. HIDE DEF k
<1>3. Range(<<>>) = {} /\ IsInjective(<<>>)
  BY DEF Range, IsInjective
<1>4. Listing(k)
  <2>1. Listed(k) \subseteq Listed(h)
    BY <1>2, <1>3 DEF Listed
  <2>. QED  BY <1>2, <1>3, <2>1 DEF Listing, Held
<1>5. UnRegistered(k, l)
  BY <1>4, UnRegisterIs
<1>6. /\ Held(l) /\ Same(k, l) /\ l.succ = <<>> /\ l.pred = h.pred
      /\ \A o \in Node : l.known[o] \in {h.known[o], None}
  BY <1>2, <1>5 DEF UnRegistered
<1>7. SetSuccessor(h, m, r) = AddSuccessor(l, m, r)
  BY DEF SetSuccessor, k
<1>. HIDE DEF l
<1>8. WithSuccessor(l, m, r, AddSuccessor(l, m, r))
  BY <1>6, AddSuccessorIs
<1>9. Append(<<>>, m) = <<m>>
  OBVIOUS
<1>10. l.known \in [Node -> NodeRange \cup {None}]
  BY <1>6, HubIs DEF Held, Listing
<1>. DEFINE q == AddSuccessor(l, m, r)
<1>. HIDE DEF q
<1>11. q.known[m] = r /\ \A o \in Node \ {m} : q.known[o] = l.known[o]
  BY <1>8, <1>10 DEF WithSuccessor, q
<1>12. q.succ = <<m>>
  BY <1>3, <1>6, <1>8, <1>9 DEF WithSuccessor, q
<1>13. Held(q) /\ Same(h, q) /\ q.pred = h.pred
  BY <1>2, <1>6, <1>8 DEF WithSuccessor, Same, q
<1>. QED  BY <1>6, <1>7, <1>11, <1>12, <1>13 DEF WithOnlySuccessor, q

\* A successor comes in, and the list is sorted.
LEMMA MergeSuccessorIs ==
    ASSUME NEW h, Held(h), NEW m \in Node, NEW r \in NodeRange
    PROVE  WithSuccessor(h, m, r, AddSuccessor(h, m, r))
           /\ Reordered(AddSuccessor(h, m, r), MergeSuccessor(h, m, r))
           /\ MergeSuccessor(h, m, r).pred = h.pred
<1>. DEFINE k == AddSuccessor(h, m, r)
<1>1. WithSuccessor(h, m, r, k)
  BY AddSuccessorIs
<1>2. MergeSuccessor(h, m, r) = SortSucc(k)
  BY DEF MergeSuccessor
<1>. HIDE DEF k
<1>3. Reordered(k, SortSucc(k)) /\ SortSucc(k).pred = k.pred
  BY <1>1, SortSuccIs DEF WithSuccessor
<1>4. SortSucc(k).pred = h.pred
  BY <1>1, <1>3 DEF WithSuccessor
<1>. QED  BY <1>1, <1>2, <1>3, <1>4 DEF k

\* What a node takes of a list.
LEMMA TakenIs ==
    ASSUME NEW n, NEW list \in Seq(Info)
    PROVE  /\ Taken(n, list) \in Seq(Info)
           /\ Len(Taken(n, list)) <= Len(list)
           /\ \A i \in 1 .. Len(Taken(n, list)) :
                 Taken(n, list)[i] = list[i] /\ list[i].addr # n /\ i <= NSuccessorsToKeep + 1
           /\ Len(Taken(n, list)) < Len(list) =>
                 \/ list[Len(Taken(n, list)) + 1].addr = n
                 \/ Len(Taken(n, list)) = NSuccessorsToKeep + 1
<1>. DEFINE stops == {i \in DOMAIN list : list[i].addr = n \/ i > NSuccessorsToKeep + 1}
            u == Upto(list, stops)
<1>0. Len(list) \in Nat /\ DOMAIN list = 1 .. Len(list) /\ NSuccessorsToKeep \in Nat
  BY RingAssumption
<1>1. stops \in SUBSET (1 .. Len(list))
  BY <1>0
<1>2. Taken(n, list) = u
  BY DEF Taken
<1>3. /\ u \in Seq(Info) /\ Len(u) <= Len(list)
      /\ \A i \in 1 .. Len(u) : u[i] = list[i] /\ i \notin stops
      /\ Len(u) < Len(list) => Len(u) + 1 \in stops
  <2>. HIDE DEF stops
  <2>. QED  BY <1>1, UptoIs
<1>. HIDE DEF u
<1>4. Len(u) \in Nat
  BY <1>3
<1>5. ASSUME NEW i \in 1 .. Len(u)
      PROVE  u[i] = list[i] /\ list[i].addr # n /\ i <= NSuccessorsToKeep + 1
  BY <1>0, <1>3, <1>4
<1>6. ASSUME Len(u) < Len(list)
      PROVE  list[Len(u) + 1].addr = n \/ Len(u) = NSuccessorsToKeep + 1
  <2>1. list[Len(u) + 1].addr = n \/ Len(u) + 1 > NSuccessorsToKeep + 1
    BY <1>3, <1>6
  <2>2. CASE Len(u) = 0
    BY <1>0, <2>1, <2>2
  <2>3. CASE Len(u) # 0
    <3>1. Len(u) <= NSuccessorsToKeep + 1
      BY <1>4, <1>5, <2>3
    <3>. QED  BY <1>0, <1>4, <2>1, <3>1
  <2>. QED  BY <2>2, <2>3
<1>. QED  BY <1>2, <1>3, <1>5, <1>6

\* k is h with further successors, from the list.
WithSuccessors(h, list, k) ==
    /\ Held(k) /\ Same(h, k) /\ k.pred = h.pred
    /\ Range(k.succ) \subseteq Range(h.succ) \cup {list[i].addr : i \in 1 .. Len(list)}
    /\ \A m \in Node : \/ k.known[m] = h.known[m]
                       \/ \E i \in 1 .. Len(list) : list[i].addr = m /\ k.known[m] = list[i].range

\* One more round of AddAll.
LEMMA OneMoreSuccessor ==
    ASSUME NEW h, NEW list \in Seq(Info), NEW k, WithSuccessors(h, list, k),
           NEW i \in 1 .. Len(list)
    PROVE  WithSuccessors(h, list, AddSuccessor(k, list[i].addr, list[i].range))
<1>. DEFINE m == list[i].addr
            r == list[i].range
            q == AddSuccessor(k, m, r)
<1>1. m \in Node /\ r \in NodeRange
  <2>1. list[i] \in Info
    OBVIOUS
  <2>. QED  BY <2>1 DEF Info
<1>2. WithSuccessor(k, m, r, q)
  <2>. HIDE DEF m, r
  <2>. QED  BY <1>1, AddSuccessorIs DEF WithSuccessors
<1>3. k.known \in [Node -> NodeRange \cup {None}]
  BY HubIs DEF WithSuccessors, Held, Listing
<1>. HIDE DEF q
<1>4. Held(q) /\ Same(h, q) /\ q.pred = h.pred
  BY <1>2 DEF WithSuccessor, WithSuccessors, Same
<1>5. Range(q.succ) \subseteq Range(h.succ) \cup {list[j].addr : j \in 1 .. Len(list)}
  BY <1>2 DEF WithSuccessor, WithSuccessors
<1>6. ASSUME NEW o \in Node
      PROVE  \/ q.known[o] = h.known[o]
             \/ \E j \in 1 .. Len(list) : list[j].addr = o /\ q.known[o] = list[j].range
  <2>1. q.known = [k.known EXCEPT ![m] = r]
    BY <1>2 DEF WithSuccessor
  <2>2. CASE o = m
    BY <1>1, <1>3, <2>1, <2>2
  <2>3. CASE o # m
    <3>1. q.known[o] = k.known[o]
      BY <1>3, <2>1, <2>3
    <3>. QED  BY <3>1 DEF WithSuccessors
  <2>. QED  BY <2>2, <2>3
<1>. QED  BY <1>4, <1>5, <1>6 DEF WithSuccessors, q

\* Each round of AddAll makes a hub of a hub.
LEMMA AddSuccessorTyped ==
    ASSUME NEW h \in Hub, NEW m \in Node, NEW r \in NodeRange
    PROVE  AddSuccessor(h, m, r) \in Hub
<1>. DEFINE w == [h.known EXCEPT ![m] = r]
            s == IF Contains(h.succ, m) THEN h.succ ELSE Append(h.succ, m)
<1>1. h.succ \in Seq(Node) /\ h.known \in [Node -> NodeRange \cup {None}]
  BY HubIs
<1>2. s \in Seq(Node) /\ w \in [Node -> NodeRange \cup {None}]
  BY <1>1
<1>3. AddSuccessor(h, m, r) = [h EXCEPT !.known = w, !.succ = s]
  BY DEF AddSuccessor
<1>. HIDE DEF s, w
<1>4. [h EXCEPT !.known = w, !.succ = s] \in Hub
  BY <1>2, HubWith
<1>. QED  BY <1>3, <1>4

RoundOfAddAll(list) ==
    [i \in DOMAIN list |-> [k \in Hub |->
        IF Len(k.succ) > NSuccessorsToKeep THEN k ELSE AddSuccessor(k, list[i].addr, list[i].range)]]

\* AddAll is a loop with these rounds.
LEMMA RoundOfAddAllIs ==
    ASSUME NEW list \in Seq(Info)
    PROVE  /\ RoundOfAddAll(list) \in Seq([Hub -> Hub]) /\ Len(RoundOfAddAll(list)) = Len(list)
           /\ \A i \in 1 .. Len(list), k \in Hub :
                 RoundOfAddAll(list)[i][k] =
                    IF Len(k.succ) > NSuccessorsToKeep THEN k
                    ELSE AddSuccessor(k, list[i].addr, list[i].range)
           /\ \A h : AddAll(h, list) = Loop(h, RoundOfAddAll(list))
<1>. DEFINE Step(i, k) == IF Len(k.succ) > NSuccessorsToKeep THEN k
                          ELSE AddSuccessor(k, list[i].addr, list[i].range)
            steps == [i \in DOMAIN list |-> [k \in Hub |-> Step(i, k)]]
<1>1. \A i \in 1 .. Len(list), k \in Hub : Step(i, k) \in Hub
  <2>1. ASSUME NEW i \in 1 .. Len(list) PROVE list[i].addr \in Node /\ list[i].range \in NodeRange
    <3>1. list[i] \in Info
      OBVIOUS
    <3>. QED  BY <3>1 DEF Info
  <2>. QED  BY <2>1, AddSuccessorTyped
<1>2. DOMAIN list = 1 .. Len(list) /\ Len(list) \in Nat
  OBVIOUS
<1>3. RoundOfAddAll(list) = steps
  BY DEF RoundOfAddAll
<1>4. \A h : AddAll(h, list) = Loop(h, RoundOfAddAll(list))
  BY DEF AddAll, RoundOfAddAll
<1>5. \A i \in 1 .. Len(list), k \in Hub : steps[i][k] = Step(i, k)
  BY <1>2
<1>6. steps \in Seq([Hub -> Hub]) /\ Len(steps) = Len(list)
  <2>. HIDE DEF Step
  <2>1. steps \in [1 .. Len(list) -> [Hub -> Hub]]
    BY <1>1, <1>2
  <2>. QED  BY <1>2, <2>1
<1>. HIDE DEF steps
<1>. QED  BY <1>3, <1>4, <1>5, <1>6

\* Successors from a list come in, with their ranges.
LEMMA AddAllIs ==
    ASSUME NEW h, Held(h), NEW list \in Seq(Info)
    PROVE  WithSuccessors(h, list, AddAll(h, list))
<1>. DEFINE S == {k \in Hub : WithSuccessors(h, list, k)}
            steps == RoundOfAddAll(list)
<1>1. h \in S
  BY DEF WithSuccessors, Same, Held, Listing
<1>2. ASSUME NEW i \in 1 .. Len(list), NEW k \in S PROVE steps[i][k] \in S
  <2>1. k \in Hub /\ WithSuccessors(h, list, k)
    OBVIOUS
  <2>2. steps[i][k] = IF Len(k.succ) > NSuccessorsToKeep THEN k
                      ELSE AddSuccessor(k, list[i].addr, list[i].range)
    BY <2>1, RoundOfAddAllIs
  <2>3. WithSuccessors(h, list, AddSuccessor(k, list[i].addr, list[i].range))
    BY <2>1, OneMoreSuccessor
  <2>4. AddSuccessor(k, list[i].addr, list[i].range) \in Hub
    BY <2>3 DEF WithSuccessors, Held, Listing
  <2>. QED  BY <2>1, <2>2, <2>3, <2>4
<1>3. steps \in Seq([Hub -> Hub]) /\ Len(steps) = Len(list) /\ AddAll(h, list) = Loop(h, steps)
  BY RoundOfAddAllIs
<1>4. S \in SUBSET Hub
  OBVIOUS
<1>. HIDE DEF S, steps
<1>5. Loop(h, steps) \in S
  BY <1>1, <1>2, <1>3, <1>4, LoopKeeps
<1>. QED  BY <1>3, <1>5 DEF S

\* l is h with the lists s and p, and without what was known of those that went.
Shortened(h, s, p, l) ==
    /\ Held(l) /\ Same(h, l) /\ l.succ = s /\ l.pred = p
    /\ \A m \in Node : l.known[m] \in {h.known[m], None}

\* When lists were shortened, UnRegister forgets those that went.
LEMMA ShortenedIs ==
    ASSUME NEW h, Held(h), NEW k \in Hub, Same(h, k), k.known = h.known,
           Range(k.succ) \subseteq Range(h.succ), Range(k.pred) \subseteq Range(h.pred),
           IsInjective(k.succ), IsInjective(k.pred)
    PROVE  Shortened(h, k.succ, k.pred, UnRegister(k))
<1>1. Listing(k)
  <2>1. Listed(k) \subseteq Listed(h)
    BY DEF Listed
  <2>. QED  BY <2>1 DEF Listing, Held
<1>2. UnRegistered(k, UnRegister(k))
  BY <1>1, UnRegisterIs
<1>. QED  BY <1>2 DEF UnRegistered, Shortened, Same

\* What remains when the lists lose peers.
LEMMA WithLists ==
    ASSUME NEW h, Held(h), NEW s \in Seq(Node), NEW p \in Seq(Node),
           Range(s) \subseteq Range(h.succ), Range(p) \subseteq Range(h.pred),
           IsInjective(s), IsInjective(p)
    PROVE  /\ Shortened(h, s, p, UnRegister([h EXCEPT !.succ = s, !.pred = p]))
           /\ Shortened(h, s, h.pred, UnRegister([h EXCEPT !.succ = s]))
           /\ Shortened(h, h.succ, p, UnRegister([h EXCEPT !.pred = p]))
<1>1. h \in Hub /\ IsInjective(h.succ) /\ IsInjective(h.pred)
  BY DEF Held, Listing
<1>2. ASSUME NEW k \in {[h EXCEPT !.succ = s, !.pred = p], [h EXCEPT !.succ = s], [h EXCEPT !.pred = p]}
      PROVE  k \in Hub /\ Same(h, k) /\ k.known = h.known
  <2>1. [h EXCEPT !.succ = s, !.pred = p] \in Hub
    BY <1>1, HubWith
  <2>2. [h EXCEPT !.succ = s] \in Hub /\ [h EXCEPT !.pred = p] \in Hub
    BY <1>1, HubWith
  <2>3. Same(h, k)
    BY <1>1 DEF Hub, Same
  <2>4. k.known = h.known
    BY <1>1 DEF Hub
  <2>. QED  BY <2>1, <2>2, <2>3, <2>4
<1>3. Shortened(h, s, p, UnRegister([h EXCEPT !.succ = s, !.pred = p]))
  <2>. DEFINE k == [h EXCEPT !.succ = s, !.pred = p]
  <2>1. k.succ = s /\ k.pred = p
    BY <1>1 DEF Hub
  <2>2. k \in Hub /\ Same(h, k) /\ k.known = h.known
    BY <1>2
  <2>. HIDE DEF k
  <2>3. Shortened(h, k.succ, k.pred, UnRegister(k))
    BY <2>1, <2>2, ShortenedIs
  <2>. QED  BY <2>1, <2>3 DEF k
<1>4. Shortened(h, s, h.pred, UnRegister([h EXCEPT !.succ = s]))
  <2>. DEFINE k == [h EXCEPT !.succ = s]
  <2>1. k.succ = s /\ k.pred = h.pred
    BY <1>1 DEF Hub
  <2>2. k \in Hub /\ Same(h, k) /\ k.known = h.known
    BY <1>2
  <2>. HIDE DEF k
  <2>3. Shortened(h, k.succ, k.pred, UnRegister(k))
    BY <1>1, <2>1, <2>2, ShortenedIs
  <2>. QED  BY <2>1, <2>3 DEF k
<1>5. Shortened(h, h.succ, p, UnRegister([h EXCEPT !.pred = p]))
  <2>. DEFINE k == [h EXCEPT !.pred = p]
  <2>1. k.succ = h.succ /\ k.pred = p
    BY <1>1 DEF Hub
  <2>2. k \in Hub /\ Same(h, k) /\ k.known = h.known
    BY <1>2
  <2>. HIDE DEF k
  <2>3. Shortened(h, k.succ, k.pred, UnRegister(k))
    BY <1>1, <2>1, <2>2, ShortenedIs
  <2>. QED  BY <2>1, <2>3 DEF k
<1>. QED  BY <1>3, <1>4, <1>5

\* A list without peers.
LEMMA OfNobody == <<>> \in Seq(Node) /\ Range(<<>>) = {} /\ IsInjective(<<>>)
BY DEF Range, IsInjective

\* A list takes the place of the successors there were.
LEMMA SetSuccessorListIs ==
    ASSUME NEW h, Held(h), NEW n \in Node, NEW list \in Seq(Info)
    PROVE  LET k == UnRegister([h EXCEPT !.succ = <<>>])
           IN  /\ Shortened(h, <<>>, h.pred, k)
               /\ WithSuccessors(k, Taken(n, list), SetSuccessorList(h, n, list))
<1>. DEFINE k == UnRegister([h EXCEPT !.succ = <<>>])
            taken == Taken(n, list)
<1>1. Shortened(h, <<>>, h.pred, k)
  <2>1. IsInjective(h.pred) /\ h.pred \in Seq(Node)
    BY HubIs DEF Held, Listing
  <2>2. Range(<<>>) \subseteq Range(h.succ)
    BY OfNobody
  <2>. QED  BY <2>1, <2>2, OfNobody, WithLists
<1>2. taken \in Seq(Info)
  BY TakenIs
<1>3. SetSuccessorList(h, n, list) = AddAll(k, taken)
  BY DEF SetSuccessorList
<1>. HIDE DEF k, taken
<1>4. WithSuccessors(k, taken, AddAll(k, taken))
  BY <1>1, <1>2, AddAllIs DEF Shortened
<1>. QED  BY <1>1, <1>3, <1>4 DEF k, taken

\* A list decides which successors stay, and which come in.
LEMMA MergeSuccessorListIs ==
    ASSUME NEW h, Held(h), NEW n \in Node, NEW list \in Seq(Info)
    PROVE  LET taken == Taken(n, list)
               left == Only(h.succ, {taken[i].addr : i \in DOMAIN taken})
               k == UnRegister([h EXCEPT !.succ = left])
               l == AddAll(k, taken)
           IN  /\ Shortened(h, left, h.pred, k)
               /\ WithSuccessors(k, taken, l)
               /\ MergeSuccessorList(h, n, list) = SortSucc(l)
               /\ Reordered(l, SortSucc(l)) /\ SortSucc(l).pred = l.pred
<1>. DEFINE taken == Taken(n, list)
            named == {taken[i].addr : i \in DOMAIN taken}
            left == Only(h.succ, named)
            k == UnRegister([h EXCEPT !.succ = left])
            l == AddAll(k, taken)
<1>1. taken \in Seq(Info)
  BY TakenIs
<1>2. h.succ \in Seq(Node) /\ IsInjective(h.succ) /\ IsInjective(h.pred) /\ h.pred \in Seq(Node)
  BY HubIs DEF Held, Listing
<1>3. MergeSuccessorList(h, n, list) = SortSucc(l)
  BY DEF MergeSuccessorList
<1>. HIDE DEF named
<1>4. left \in Seq(Node) /\ Range(left) \subseteq Range(h.succ) /\ IsInjective(left)
  BY <1>2, OnlyIs
<1>. HIDE DEF taken, left
<1>5. Shortened(h, left, h.pred, k)
  BY <1>2, <1>4, WithLists
<1>. HIDE DEF k
<1>6. WithSuccessors(k, taken, l)
  BY <1>1, <1>5, AddAllIs DEF Shortened
<1>. HIDE DEF l
<1>7. Reordered(l, SortSucc(l)) /\ SortSucc(l).pred = l.pred
  BY <1>6, SortSuccIs DEF WithSuccessors
<1>. QED  BY <1>3, <1>5, <1>6, <1>7 DEF k, l, taken, left, named

\* l is what remains of h with the lists s and p; it may have stopped.
Bereaved(h, s, p, l) ==
    /\ Held(l) /\ l.succ = s /\ l.pred = p
    /\ l.status \in {h.status, "DEAD"} /\ l.range = h.range /\ l.answered = h.answered
    /\ l.rep = h.rep /\ l.attempts = h.attempts /\ l.away = h.away
    /\ \A m \in Node : l.known[m] \in {h.known[m], None}

\* What lost peers either has a successor left or stops itself.
LEMMA OrDieIs ==
    ASSUME NEW h, Held(h), NEW s, NEW p, NEW k, Shortened(h, s, p, k)
    PROVE  Bereaved(h, s, p, OrDie(k))
<1>1. k \in Hub /\ Held(k)
  BY DEF Shortened, Held, Listing
<1>. DEFINE l == [k EXCEPT !.status = "DEAD"]
<1>2. /\ l.succ = k.succ /\ l.pred = k.pred /\ l.known = k.known /\ l.status = "DEAD"
      /\ l.range = k.range /\ l.answered = k.answered /\ l.rep = k.rep
      /\ l.attempts = k.attempts /\ l.away = k.away
  BY <1>1 DEF Hub
<1>3. l \in Hub
  BY <1>1 DEF Hub, Status
<1>. HIDE DEF l
<1>4. Held(l)
  <2>1. Listed(l) = Listed(k)
    BY <1>2 DEF Listed
  <2>. QED  BY <1>1, <1>2, <1>3, <2>1 DEF Held, Listing
<1>5. OrDie(k) = k \/ OrDie(k) = l
  BY DEF OrDie, l
<1>6. CASE OrDie(k) = k
  BY <1>6 DEF Shortened, Same, Bereaved
<1>7. CASE OrDie(k) = l
  BY <1>2, <1>4, <1>7 DEF Shortened, Same, Bereaved
<1>. QED  BY <1>5, <1>6, <1>7

\* A peer goes from both lists.
LEMMA RemovePeerIs ==
    ASSUME NEW h, Held(h), NEW m \in Listed(h)
    PROVE  Bereaved(h, Only(h.succ, Node \ {m}), Only(h.pred, Node \ {m}), RemovePeer(h, m))
<1>. DEFINE s == Only(h.succ, Node \ {m})
            p == Only(h.pred, Node \ {m})
            k == UnRegister([h EXCEPT !.succ = s, !.pred = p])
<1>1. h.succ \in Seq(Node) /\ IsInjective(h.succ) /\ IsInjective(h.pred) /\ h.pred \in Seq(Node)
  BY HubIs DEF Held, Listing
<1>2. RemovePeer(h, m) = OrDie(k)
  BY DEF RemovePeer
<1>3. s \in Seq(Node) /\ Range(s) \subseteq Range(h.succ) /\ IsInjective(s)
  BY <1>1, OnlyIs
<1>4. p \in Seq(Node) /\ Range(p) \subseteq Range(h.pred) /\ IsInjective(p)
  BY <1>1, OnlyIs
<1>. HIDE DEF s, p
<1>5. Shortened(h, s, p, k)
  BY <1>3, <1>4, WithLists
<1>. HIDE DEF k
<1>6. Bereaved(h, s, p, OrDie(k))
  BY <1>5, OrDieIs
<1>. QED  BY <1>2, <1>6 DEF s, p

\* The middle of a range is on the circle.
LEMMA MiddleIs ==
    ASSUME NEW r \in NodeRange
    PROVE  Middle(r) \in 0 .. AbsMax
<1>. DEFINE span == RangeSpan(r)
            mid == r.min + span \div 2
<1>1. r.min \in 0 .. AbsMax /\ r.max \in 0 .. AbsMax /\ AbsMax \in Nat \ {0}
  BY RingAssumption DEF NodeRange
<1>2. span \in -1 .. AbsMax /\ (span < 0 => r.min = AbsMax)
  BY <1>1 DEF RangeSpan, GetSpan
<1>. HIDE DEF span
<1>3. span \div 2 \in -1 .. AbsMax /\ (span >= 0 => span \div 2 >= 0)
  BY <1>1, <1>2
<1>4. mid >= 0
  BY <1>1, <1>2, <1>3
<1>5. Middle(r) = IF mid > AbsMax THEN mid - AbsMax ELSE mid
  BY DEF Middle, span
<1>. QED  BY <1>1, <1>3, <1>4, <1>5

\* A list that names n and others, with their ranges.
Names(n, r, h, others, list) ==
    /\ list \in Seq(Info) /\ Len(list) = Len(others) + 1
    /\ list[1] = [addr |-> n, range |-> r]
    /\ \A i \in 1 .. Len(others) : list[i + 1] = [addr |-> others[i], range |-> h.known[others[i]]]

\* What a node tells others names itself and its successors.
LEMMA PeerInfoListIs ==
    ASSUME NEW h, Held(h), NEW n \in Node, NEW r \in NodeRange
    PROVE  Names(n, r, h, Only(h.succ, Node \ {n}), PeerInfoList(n, r, h))
<1>. DEFINE others == Only(h.succ, Node \ {n})
            first == [addr |-> n, range |-> r]
            tail == [i \in DOMAIN others |-> [addr |-> others[i], range |-> h.known[others[i]]]]
            list == <<first>> \o tail
<1>1. h.succ \in Seq(Node) /\ h.known \in [Node -> NodeRange \cup {None}]
  BY HubIs DEF Held, Listing
<1>2. PeerInfoList(n, r, h) = list
  BY DEF PeerInfoList
<1>3. others \in Seq(Node) /\ Range(others) \subseteq Range(h.succ)
  BY <1>1, OnlyIs
<1>. HIDE DEF others
<1>4. \A i \in 1 .. Len(others) : others[i] \in Node /\ h.known[others[i]] \in NodeRange
  <2>1. \A i \in 1 .. Len(others) : others[i] \in Range(others)
    BY <1>3, RangeIs
  <2>2. \A i \in 1 .. Len(others) : others[i] \in Listed(h) /\ others[i] \in Node
    BY <1>3, <2>1 DEF Listed
  <2>. QED  BY <1>1, <2>2 DEF Held, Listing
<1>5. first \in Info
  BY DEF Info
<1>6. tail \in Seq(Info) /\ Len(tail) = Len(others) /\ Len(others) \in Nat
  <2>1. DOMAIN others = 1 .. Len(others) /\ Len(others) \in Nat
    BY <1>3
  <2>2. \A i \in 1 .. Len(others) : [addr |-> others[i], range |-> h.known[others[i]]] \in Info
    BY <1>4 DEF Info
  <2>3. tail \in [1 .. Len(others) -> Info]
    BY <2>1, <2>2
  <2>. HIDE DEF tail
  <2>. QED  BY <2>1, <2>3
<1>7. \A i \in 1 .. Len(others) : tail[i] = [addr |-> others[i], range |-> h.known[others[i]]]
  BY <1>3
<1>. HIDE DEF first, tail
<1>8. <<first>> \in Seq(Info) /\ Len(<<first>>) = 1 /\ <<first>>[1] = first
  BY <1>5
<1>9. list \in Seq(Info) /\ Len(list) = 1 + Len(others)
  BY <1>6, <1>8, ConcatProperties
<1>10. \A i \in 1 .. 1 + Len(others) : list[i] = IF i <= 1 THEN <<first>>[i] ELSE tail[i - 1]
  BY <1>6, <1>8, ConcatProperties
<1>11. list[1] = first
  BY <1>6, <1>8, <1>10
<1>12. ASSUME NEW i \in 1 .. Len(others) PROVE list[i + 1] = tail[i]
  <2>1. i + 1 \in 1 .. 1 + Len(others) /\ ~(i + 1 <= 1) /\ (i + 1) - 1 = i
    BY <1>6
  <2>. HIDE DEF list
  <2>. QED  BY <1>10, <2>1
<1>. HIDE DEF list
<1>13. Len(list) = Len(others) + 1
  BY <1>6, <1>9
<1>. HIDE DEF others
<1>14. Names(n, r, h, others, list)
  BY <1>7, <1>9, <1>11, <1>12, <1>13 DEF first, Names
<1>. QED  BY <1>2, <1>14 DEF list, others

-----------------------------------------------------------------------------
(***************************************************************************)
(* The types.                                                              *)
(***************************************************************************)

\* A node without a range, which has not joined or has left, knows nobody.
Placed(h) ==
    /\ h.range = None => h.succ = <<>> /\ h.pred = <<>>
    /\ h.status = "JOINED" => h.range # None

TypeInv ==
    /\ hub \in [Node -> Hub]
    /\ \A n \in Node : Held(hub[n]) /\ Placed(hub[n])
    /\ udp \subseteq DatagramMessage
    /\ tcp \in [Node \X Node -> Seq(Message)]
    /\ budget \in Budget

\* The inductive invariant is at least as strong as the type invariant.
LEMMA TypeInvTypeOK == TypeInv => TypeOK
<1>. SUFFICES ASSUME TypeInv PROVE TypeOK
  OBVIOUS
<1>1. ASSUME NEW n \in Node
      PROVE  /\ IsInjective(hub[n].succ) /\ IsInjective(hub[n].pred)
             /\ \A m \in Node : m \in Listed(hub[n]) <=> hub[n].known[m] # None
  BY DEF TypeInv, Held, Listing
<1>. QED  BY <1>1 DEF TypeInv, TypeOK

\* Another hub of one node.
LEMMA OneHub ==
    ASSUME TypeInv, NEW n \in Node, NEW k, Held(k), Placed(k),
           hub' = [hub EXCEPT ![n] = k]
    PROVE  /\ hub' \in [Node -> Hub]
           /\ \A m \in Node : Held(hub'[m]) /\ Placed(hub'[m])
<1>1. k \in Hub
  BY DEF Held, Listing
<1>2. \A m \in Node : hub'[m] = IF m = n THEN k ELSE hub[m]
  BY DEF TypeInv
<1>. QED  BY <1>1, <1>2 DEF TypeInv

\* Datagrams sent.
LEMMA MoreDatagrams ==
    ASSUME TypeInv, NEW taken, NEW sent \in SUBSET DatagramMessage, Datagrams(taken, sent)
    PROVE  udp' \subseteq DatagramMessage
BY DEF TypeInv, Datagrams

\* A message taken from a connection, and one sent.
LEMMA OneReceived ==
    ASSUME TypeInv, NEW n \in Node, NEW m \in Node, tcp[<<m, n>>] # <<>>
    PROVE  Received(m, n) \in [Node \X Node -> Seq(Message)]
<1>1. tcp[<<m, n>>] \in Seq(Message)
  BY DEF TypeInv
<1>2. Tail(tcp[<<m, n>>]) \in Seq(Message)
  BY <1>1
<1>. QED  BY <1>2 DEF Received, TypeInv

\* Sending leaves only messages on the connections.
LEMMA OneSent ==
    ASSUME NEW pipes \in [Node \X Node -> Seq(Message)], NEW n \in Node, NEW m \in Node,
           NEW msg \in Message
    PROVE  Sent(pipes, n, m, msg) \in [Node \X Node -> Seq(Message)]
<1>1. pipes[<<n, m>>] \in Seq(Message)
  OBVIOUS
<1>2. Append(pipes[<<n, m>>], msg) \in Seq(Message)
  BY <1>1
<1>. QED  BY <1>2 DEF Sent

\* A node that has done nothing yet.
LEMMA NewHubIs == Held(NewHub) /\ Placed(NewHub)
<1>1. NewHub \in Hub
  BY OfNobody, RingAssumption DEF NewHub, Hub, Status
<1>2. NewHub.succ = <<>> /\ NewHub.pred = <<>> /\ \A m \in Node : NewHub.known[m] = None
  BY DEF NewHub
<1>3. Listed(NewHub) = {}
  BY <1>2, OfNobody DEF Listed
<1>4. Placed(NewHub)
  BY <1>2 DEF Placed, NewHub
<1>5. IsInjective(NewHub.succ) /\ IsInjective(NewHub.pred)
  BY <1>2, OfNobody
<1>. QED  BY <1>1, <1>2, <1>3, <1>4, <1>5 DEF Held, Listing

\* A node with a range that knows nobody yet.
LEMMA NewHubWith ==
    ASSUME NEW r \in NodeRange, NEW st \in {"UNJOINED", "JOINED"}
    PROVE  LET h == [NewHub EXCEPT !.range = r, !.status = st]
           IN  /\ Held(h) /\ h.range = r /\ h.status = st
               /\ h.succ = <<>> /\ h.pred = <<>> /\ h.rep = None /\ h.away = None
               /\ \A m \in Node : h.known[m] = None
<1>. DEFINE h == [NewHub EXCEPT !.range = r, !.status = st]
<1>1. h \in Hub
  BY NewHubIs DEF Held, Listing, Hub, Status
<1>2. /\ h.succ = <<>> /\ h.pred = <<>> /\ h.known = NewHub.known /\ h.range = r /\ h.status = st
      /\ h.rep = None /\ h.away = None
  BY DEF NewHub
<1>. HIDE DEF h
<1>3. \A m \in Node : h.known[m] = None
  BY <1>2 DEF NewHub
<1>4. Listed(h) = {}
  BY <1>2, OfNobody DEF Listed
<1>5. IsInjective(h.succ) /\ IsInjective(h.pred)
  BY <1>2, OfNobody
<1>6. Held(h)
  BY <1>1, <1>3, <1>4, <1>5 DEF Held, Listing
<1>. QED  BY <1>2, <1>3, <1>6 DEF h

\* Each round of a static start makes a hub of a hub.
LEMMA AddPredecessorTyped ==
    ASSUME NEW h \in Hub, NEW m \in Node, NEW r \in NodeRange
    PROVE  AddPredecessor(h, m, r) \in Hub
<1>. DEFINE w == [h.known EXCEPT ![m] = r]
            p == IF Contains(h.pred, m) THEN h.pred ELSE Append(h.pred, m)
            k == [h EXCEPT !.known = w, !.pred = p]
            q == Sorted(k.pred, Back(k))
<1>1. h.pred \in Seq(Node) /\ h.known \in [Node -> NodeRange \cup {None}]
  BY HubIs
<1>2. p \in Seq(Node) /\ w \in [Node -> NodeRange \cup {None}]
  BY <1>1
<1>3. AddPredecessor(h, m, r) = SortPred(k)
  BY DEF AddPredecessor
<1>. HIDE DEF p, w
<1>4. k \in Hub
  BY <1>2, HubWith
<1>. HIDE DEF k
<1>5. k.pred \in Seq(Node)
  BY <1>4, HubIs
<1>6. q \in Seq(Node)
  BY <1>5, SortedIs
<1>7. SortPred(k) = IF k.range = None THEN k ELSE [k EXCEPT !.pred = q]
  BY DEF SortPred
<1>. HIDE DEF q
<1>8. [k EXCEPT !.pred = q] \in Hub
  BY <1>4, <1>6, HubWith
<1>. QED  BY <1>3, <1>4, <1>7, <1>8

\* Who lays out the ring: everybody at a place of his own.
Order == Bijection(1 .. Cardinality(Node), Node)

\* Where the neighbours of the i-th place are, backwards and forwards.
LEMMA Places ==
    /\ Cardinality(Node) \in Nat \ {0}
    /\ Kept \in 1 .. Cardinality(Node) /\ Kept <= NSuccessorsToKeep
    /\ \A i \in 1 .. Cardinality(Node), j \in 1 .. Kept :
          /\ Place(i + j) = IF i + j <= Cardinality(Node) THEN i + j ELSE i + j - Cardinality(Node)
          /\ Place(i - j + Cardinality(Node)) = IF j < i THEN i - j ELSE i - j + Cardinality(Node)
          /\ Place(i + j) \in 1 .. Cardinality(Node)
          /\ Place(i - j + Cardinality(Node)) \in 1 .. Cardinality(Node)
<1>1. Cardinality(Node) \in Nat
  BY RingAssumption, FS_CardinalityType
<1>2. Cardinality(Node) # 0
  BY RingAssumption, FS_EmptySet
<1>3. NSuccessorsToKeep \in Nat \ {0}
  BY RingAssumption
<1>4. Kept \in 1 .. Cardinality(Node) /\ Kept <= NSuccessorsToKeep
  BY <1>1, <1>2, <1>3 DEF Kept
<1>. QED  BY <1>1, <1>2, <1>4 DEF Place

\* Everybody has one place, and nobody shares it.
LEMMA OrderIs ==
    ASSUME NEW order \in Order
    PROVE  /\ order \in [1 .. Cardinality(Node) -> Node]
           /\ \A i, j \in 1 .. Cardinality(Node) : order[i] = order[j] => i = j
           /\ \A n \in Node : \E i \in 1 .. Cardinality(Node) : order[i] = n
BY DEF Order, Bijection, Injection, Surjection, IsInjective

\* Who is at a place is a peer with a range.
LEMMA InfoAtIs ==
    ASSUME NEW order \in Order, NEW i, Place(i) \in 1 .. Cardinality(Node)
    PROVE  InfoAt(order, i) \in Info
<1>1. order[Place(i)] \in Node
  BY OrderIs
<1>2. StaticRange[Place(i)] \in NodeRange
  BY RingAssumption DEF NodeRange
<1>. QED  BY <1>1, <1>2 DEF InfoAt, Info

\* What a node of a ring that is laid out beforehand starts from: its successors.
StaticSuccessors(order, i) ==
    SetSuccessorList([NewHub EXCEPT !.range = StaticRange[i], !.status = "JOINED"], order[i],
                     [j \in 1 .. Kept |-> InfoAt(order, i + j)])

\* k is what became of it when predecessors were added.
WithPredecessors(order, i, k) ==
    LET h == StaticSuccessors(order, i)
    IN  /\ Held(k) /\ Same(h, k) /\ k.succ = h.succ
        /\ \A m \in Range(k.pred) : \E j \in 1 .. Kept : m = InfoAt(order, i - j + Cardinality(Node)).addr
        /\ \A m \in Node :
              \/ k.known[m] = h.known[m]
              \/ \E j \in 1 .. Kept : [addr |-> m, range |-> k.known[m]] = InfoAt(order, i - j + Cardinality(Node))

\* What a node has when it was told its successors, and nothing else yet.
LEMMA StaticSuccessorsIs ==
    ASSUME NEW order \in Order, NEW i \in 1 .. Cardinality(Node)
    PROVE  LET h == [NewHub EXCEPT !.range = StaticRange[i], !.status = "JOINED"]
               succs == [j \in 1 .. Kept |-> InfoAt(order, i + j)]
               k == UnRegister([h EXCEPT !.succ = <<>>])
           IN  /\ Held(h) /\ h.pred = <<>> /\ h.range = StaticRange[i] /\ h.status = "JOINED"
               /\ h.rep = None /\ h.away = None /\ StaticRange[i] \in NodeRange
               /\ \A m \in Node : h.known[m] = None
               /\ succs \in Seq(Info) /\ Len(succs) = Kept
               /\ \A j \in 1 .. Kept : succs[j] = InfoAt(order, i + j)
               /\ Shortened(h, <<>>, <<>>, k)
               /\ WithSuccessors(k, Taken(order[i], succs), StaticSuccessors(order, i))
               /\ Held(StaticSuccessors(order, i)) /\ Same(h, StaticSuccessors(order, i))
               /\ StaticSuccessors(order, i).pred = <<>>
<1>. DEFINE h == [NewHub EXCEPT !.range = StaticRange[i], !.status = "JOINED"]
            succs == [j \in 1 .. Kept |-> InfoAt(order, i + j)]
            k == UnRegister([h EXCEPT !.succ = <<>>])
<1>1. StaticRange[i] \in NodeRange
  BY RingAssumption DEF NodeRange
<1>2. /\ Held(h) /\ h.range = StaticRange[i] /\ h.status = "JOINED" /\ h.pred = <<>>
      /\ h.rep = None /\ h.away = None
      /\ \A m \in Node : h.known[m] = None
  BY <1>1, NewHubWith
<1>3. succs \in Seq(Info) /\ Len(succs) = Kept /\ \A j \in 1 .. Kept : succs[j] = InfoAt(order, i + j)
  <2>1. \A j \in 1 .. Kept : InfoAt(order, i + j) \in Info
    BY Places, InfoAtIs
  <2>2. Kept \in Nat
    BY Places
  <2>3. succs \in [1 .. Kept -> Info]
    BY <2>1
  <2>. QED  BY <2>2, <2>3
<1>4. order[i] \in Node
  BY OrderIs
<1>5. StaticSuccessors(order, i) = SetSuccessorList(h, order[i], succs)
  BY DEF StaticSuccessors
<1>. HIDE DEF h, succs
<1>6. /\ Shortened(h, <<>>, h.pred, k)
      /\ WithSuccessors(k, Taken(order[i], succs), SetSuccessorList(h, order[i], succs))
  BY <1>2, <1>3, <1>4, SetSuccessorListIs
<1>. HIDE DEF k
<1>. DEFINE l == SetSuccessorList(h, order[i], succs)
<1>. HIDE DEF l
<1>7. Held(l) /\ Same(h, l) /\ l.pred = <<>>
  BY <1>2, <1>6 DEF Shortened, WithSuccessors, Same, l
<1>. QED  BY <1>1, <1>2, <1>3, <1>5, <1>6, <1>7 DEF h, succs, k, l

\* One more predecessor.
LEMMA OneMorePredecessor ==
    ASSUME NEW order \in Order, NEW i \in 1 .. Cardinality(Node), NEW j \in 1 .. Kept,
           NEW k, WithPredecessors(order, i, k)
    PROVE  LET info == InfoAt(order, i - j + Cardinality(Node))
           IN  WithPredecessors(order, i, AddPredecessor(k, info.addr, info.range))
<1>. DEFINE At(l) == InfoAt(order, i - l + Cardinality(Node))
            m == At(j).addr
            r == At(j).range
            q == AddPredecessor(k, m, r)
            h == StaticSuccessors(order, i)
<1>1. At(j) \in Info
  BY Places, InfoAtIs
<1>2. m \in Node /\ r \in NodeRange /\ At(j) = [addr |-> m, range |-> r]
  BY <1>1 DEF Info
<1>. HIDE DEF At, h
<1>3. /\ Held(k) /\ Same(h, k) /\ k.succ = h.succ
      /\ \A o \in Range(k.pred) : \E l \in 1 .. Kept : o = At(l).addr
      /\ \A o \in Node : \/ k.known[o] = h.known[o]
                         \/ \E l \in 1 .. Kept : [addr |-> o, range |-> k.known[o]] = At(l)
  BY DEF WithPredecessors, h, At
<1>4. k.known \in [Node -> NodeRange \cup {None}]
  BY <1>3, HubIs DEF Held, Listing
<1>. HIDE DEF m, r
<1>5. WithPredecessor(k, m, r, q)
  BY <1>2, <1>3, SetPredecessorIs, AddPredecessorIs
<1>. HIDE DEF q
<1>6. Held(q) /\ Same(h, q) /\ q.succ = h.succ
  BY <1>3, <1>5 DEF WithPredecessor, Same
<1>7. \A o \in Range(q.pred) : \E l \in 1 .. Kept : o = At(l).addr
  <2>1. Range(q.pred) = Range(k.pred) \cup {m}
    BY <1>5 DEF WithPredecessor
  <2>2. m = At(j).addr
    BY DEF m
  <2>. QED  BY <1>3, <2>1, <2>2
<1>8. ASSUME NEW o \in Node
      PROVE  \/ q.known[o] = h.known[o]
             \/ \E l \in 1 .. Kept : [addr |-> o, range |-> q.known[o]] = At(l)
  <2>1. q.known = [k.known EXCEPT ![m] = r]
    BY <1>5 DEF WithPredecessor
  <2>2. CASE o = m
    <3>1. q.known[o] = r
      BY <1>2, <1>4, <2>1, <2>2
    <3>. QED  BY <1>2, <2>2, <3>1
  <2>3. CASE o # m
    <3>1. q.known[o] = k.known[o]
      BY <1>4, <2>1, <2>3
    <3>. QED  BY <1>3, <3>1
  <2>. QED  BY <2>2, <2>3
<1>. QED  BY <1>6, <1>7, <1>8 DEF WithPredecessors, q, m, r, At, h

\* What a node starts with: these successors, and predecessors from the places before it.
LEMMA StaticHubIs ==
    ASSUME NEW order \in Order, NEW i \in 1 .. Cardinality(Node)
    PROVE  WithPredecessors(order, i, StaticHub(order, i))
<1>. DEFINE preds == [j \in 1 .. Kept |-> InfoAt(order, i - j + Cardinality(Node))]
            Step(j, k) == AddPredecessor(k, preds[j].addr, preds[j].range)
            steps == [j \in 1 .. Kept |-> [k \in Hub |-> Step(j, k)]]
            h == StaticSuccessors(order, i)
            S == {k \in Hub : WithPredecessors(order, i, k)}
<1>1. StaticHub(order, i) = Loop(h, steps)
  BY DEF StaticHub, StaticSuccessors
<1>2. \A j \in 1 .. Kept : preds[j] = InfoAt(order, i - j + Cardinality(Node))
  OBVIOUS
<1>3. \A j \in 1 .. Kept : preds[j].addr \in Node /\ preds[j].range \in NodeRange
  <2>1. \A j \in 1 .. Kept : InfoAt(order, i - j + Cardinality(Node)) \in Info
    BY Places, InfoAtIs
  <2>. QED  BY <1>2, <2>1 DEF Info
<1>4. Kept \in Nat
  BY Places
<1>5. steps \in Seq([Hub -> Hub]) /\ Len(steps) = Kept
      /\ \A j \in 1 .. Kept, k \in Hub : steps[j][k] = Step(j, k)
  <2>. HIDE DEF preds
  <2>1. \A j \in 1 .. Kept, k \in Hub : Step(j, k) \in Hub
    BY <1>3, AddPredecessorTyped
  <2>. HIDE DEF Step
  <2>2. steps \in [1 .. Kept -> [Hub -> Hub]]
    BY <2>1
  <2>. QED  BY <1>4, <2>2
<1>6. h \in S
  <2>1. Held(h) /\ h.pred = <<>>
    BY StaticSuccessorsIs
  <2>2. Range(h.pred) = {}
    BY <2>1, OfNobody
  <2>. QED  BY <2>1, <2>2 DEF WithPredecessors, Held, Listing, Same
<1>7. ASSUME NEW j \in 1 .. Kept, NEW k \in S PROVE Step(j, k) \in S
  <2>1. WithPredecessors(order, i, Step(j, k))
    <3>. HIDE DEF preds
    <3>. QED  BY <1>2, OneMorePredecessor
  <2>. HIDE DEF Step
  <2>2. Step(j, k) \in Hub
    BY <2>1 DEF WithPredecessors, Held, Listing
  <2>. QED  BY <2>1, <2>2
<1>8. S \in SUBSET Hub
  OBVIOUS
<1>. HIDE DEF S, steps, h, Step
<1>9. Loop(h, steps) \in S
  BY <1>5, <1>6, <1>7, <1>8, LoopKeeps
<1>. QED  BY <1>1, <1>9 DEF S

\* At the start every list is filled with the peers whose ranges are known.
LEMMA TypeInit == Init => TypeInv
<1>. SUFFICES ASSUME Init PROVE TypeInv
  OBVIOUS
<1>1. ASSUME NEW order \in Order
      PROVE  \A n \in Node : Held(StaticStart(order)[n]) /\ Placed(StaticStart(order)[n])
  <2>. TAKE n \in Node
  <2>. DEFINE i == CHOOSE j \in 1 .. Cardinality(Node) : order[j] = n
  <2>1. i \in 1 .. Cardinality(Node)
    BY OrderIs
  <2>2. StaticStart(order)[n] = StaticHub(order, i)
    BY DEF StaticStart
  <2>. HIDE DEF i
  <2>. DEFINE k == StaticHub(order, i)
              h == StaticSuccessors(order, i)
  <2>. HIDE DEF k, h
  <2>3. WithPredecessors(order, i, k)
    BY <2>1, StaticHubIs DEF k
  <2>4. Held(k) /\ k.range = h.range
    BY <2>3 DEF WithPredecessors, Same, h
  <2>5. h.range = StaticRange[i] /\ StaticRange[i] \in NodeRange
    BY <2>1, StaticSuccessorsIs DEF Same, h
  <2>. QED  BY <2>2, <2>4, <2>5, RingAssumption DEF Placed, k
<1>2. ASSUME NEW order, NEW rep \in [Node \ {First} -> Node]
      PROVE  \A n \in Node : Held(DynamicStart(order, rep)[n]) /\ Placed(DynamicStart(order, rep)[n])
  <2>. TAKE n \in Node
  <2>1. CASE n # First
    <3>. DEFINE k == [NewHub EXCEPT !.rep = rep[n]]
    <3>1. DynamicStart(order, rep)[n] = k
      BY <2>1 DEF DynamicStart
    <3>2. rep[n] \in Node
      BY <2>1
    <3>3. NewHub \in Hub
      BY NewHubIs DEF Held, Listing
    <3>4. k \in Hub
      BY <3>2, <3>3 DEF Hub
    <3>5. /\ k.succ = NewHub.succ /\ k.pred = NewHub.pred /\ k.known = NewHub.known
          /\ k.status = NewHub.status /\ k.range = NewHub.range
      BY DEF NewHub
    <3>. HIDE DEF k
    <3>6. Listed(k) = Listed(NewHub)
      BY <3>5 DEF Listed
    <3>. QED  BY <3>1, <3>4, <3>5, <3>6, NewHubIs DEF Held, Listing, Placed
  <2>2. CASE n = First
    <3>. DEFINE g == [NewHub EXCEPT !.range = Whole]
                h == SetSuccessor(g, n, Whole)
                k == [h EXCEPT !.status = "JOINED"]
    <3>1. DynamicStart(order, rep)[n] = k
      BY <2>2 DEF DynamicStart
    <3>2. Whole \in NodeRange
      BY RingAssumption DEF Whole, NodeRange
    <3>3. g = [NewHub EXCEPT !.range = Whole, !.status = "UNJOINED"]
      <4>1. NewHub \in Hub /\ NewHub.status = "UNJOINED"
        BY NewHubIs DEF Held, Listing, NewHub
      <4>. QED  BY <4>1 DEF Hub
    <3>4. Held(g) /\ g.range = Whole
      BY <3>2, <3>3, NewHubWith
    <3>. HIDE DEF g
    <3>5. Held(h) /\ h.range = Whole
      BY <3>2, <3>4, SetSuccessorIs DEF WithOnlySuccessor, Same
    <3>. HIDE DEF h
    <3>6. h \in Hub
      BY <3>5 DEF Held, Listing
    <3>7. k \in Hub
      BY <3>6 DEF Hub, Status
    <3>8. k.succ = h.succ /\ k.pred = h.pred /\ k.known = h.known /\ k.range = h.range
      BY <3>6 DEF Hub
    <3>. HIDE DEF k
    <3>9. Listed(k) = Listed(h)
      BY <3>8 DEF Listed
    <3>. QED  BY <3>1, <3>2, <3>5, <3>7, <3>8, <3>9, RingAssumption DEF Held, Listing, Placed
  <2>. QED  BY <2>1, <2>2
<1>3. PICK order \in Order :
         IF budget.static THEN hub = StaticStart(order)
         ELSE \E rep \in [Node \ {First} -> Node] : hub = DynamicStart(order, rep)
  BY DEF Init, Order
<1>4. \A n \in Node : Held(hub[n]) /\ Placed(hub[n])
  BY <1>1, <1>2, <1>3
<1>5. hub \in [Node -> Hub]
  <2>1. DOMAIN hub = Node /\ hub = [n \in Node |-> hub[n]]
    BY <1>3 DEF StaticStart, DynamicStart
  <2>2. \A n \in Node : hub[n] \in Hub
    BY <1>4 DEF Held, Listing
  <2>. QED  BY <2>1, <2>2
<1>6. udp = {} /\ tcp = [p \in Node \X Node |-> <<>>]
  BY DEF Init
<1>7. tcp \in [Node \X Node -> Seq(Message)]
  <2>1. <<>> \in Seq(Message)
    OBVIOUS
  <2>. QED  BY <1>6, <2>1
<1>8. budget \in Budget
  BY RingAssumption DEF Init
<1>. QED  BY <1>4, <1>5, <1>6, <1>7, <1>8 DEF TypeInv

\* The same lists, and what is known of the peers.
LEMMA SameLists ==
    ASSUME NEW h, Held(h), NEW k \in Hub, k.succ = h.succ, k.pred = h.pred, k.known = h.known
    PROVE  Held(k)
<1>1. Listed(k) = Listed(h)
  BY DEF Listed
<1>. QED  BY <1>1 DEF Held, Listing

\* k is h with a new range for peer m.
Refreshed(h, m, r, k) ==
    /\ Held(k) /\ Same(h, k) /\ k.succ = h.succ /\ k.pred = h.pred
    /\ k.known = [h.known EXCEPT ![m] = r]

\* What is known of one that is listed is replaced.
LEMMA RefreshedIs ==
    ASSUME NEW h, Held(h), NEW m \in Listed(h), NEW r \in NodeRange
    PROVE  Refreshed(h, m, r, [h EXCEPT !.known[m] = r])
<1>. DEFINE w == [h.known EXCEPT ![m] = r]
            k == [h EXCEPT !.known = w]
<1>1. h \in Hub /\ h.known \in [Node -> NodeRange \cup {None}] /\ m \in Node
      /\ IsInjective(h.succ) /\ IsInjective(h.pred)
  BY HubIs DEF Held, Listing
<1>2. w \in [Node -> NodeRange \cup {None}] /\ \A o \in Node : w[o] = IF o = m THEN r ELSE h.known[o]
  BY <1>1
<1>3. [h EXCEPT !.known[m] = r] = k
  OBVIOUS
<1>. HIDE DEF w
<1>4. k \in Hub
  BY <1>1, <1>2, HubWith
<1>5. k.succ = h.succ /\ k.pred = h.pred /\ k.known = w
  BY <1>1 DEF Hub
<1>6. Same(h, k)
  BY <1>1 DEF Hub, Same
<1>. HIDE DEF k
<1>7. Listed(k) = Listed(h)
  BY <1>5 DEF Listed
<1>8. r # None
  BY RingAssumption
<1>9. Held(k)
  <2>1. Listed(h) \in SUBSET Node
    BY <1>1, HubIs
  <2>. QED  BY <1>1, <1>2, <1>4, <1>5, <1>7, <1>8, <2>1 DEF Held, Listing
<1>. QED  BY <1>3, <1>5, <1>6, <1>9 DEF Refreshed, w

\* The first peers of the lists.
LEMMA Firsts ==
    ASSUME NEW h, Held(h)
    PROVE  /\ HasSucc(h) => /\ Successor(h) \in Node /\ Successor(h) \in Range(h.succ)
                            /\ Successor(h) \in Listed(h) /\ h.known[Successor(h)] \in NodeRange
                            /\ Successor(h) = h.succ[1]
           /\ HasPred(h) => /\ Predecessor(h) \in Node /\ Predecessor(h) \in Range(h.pred)
                            /\ Predecessor(h) \in Listed(h) /\ h.known[Predecessor(h)] \in NodeRange
<1>1. /\ h.succ \in Seq(Node) /\ h.pred \in Seq(Node)
      /\ h.known \in [Node -> NodeRange \cup {None}]
  BY HubIs DEF Held, Listing
<1>2. \A m \in Node : m \in Listed(h) => h.known[m] \in NodeRange
  BY <1>1 DEF Held, Listing
<1>3. ASSUME HasSucc(h) PROVE Successor(h) \in Node /\ Successor(h) \in Range(h.succ) /\ Successor(h) = h.succ[1]
  <2>1. 1 \in 1 .. Len(h.succ) /\ Head(h.succ) = h.succ[1] /\ h.succ[1] \in Node
    BY <1>1, <1>3 DEF HasSucc
  <2>2. h.succ[1] \in Range(h.succ)
    BY <1>1, <2>1, RangeIs
  <2>. QED  BY <2>1, <2>2 DEF Successor
<1>4. ASSUME HasPred(h) PROVE Predecessor(h) \in Node /\ Predecessor(h) \in Range(h.pred)
  <2>1. 1 \in 1 .. Len(h.pred) /\ Head(h.pred) = h.pred[1] /\ h.pred[1] \in Node
    BY <1>1, <1>4 DEF HasPred
  <2>2. h.pred[1] \in Range(h.pred)
    BY <1>1, <2>1, RangeIs
  <2>. QED  BY <2>1, <2>2 DEF Predecessor
<1>. QED  BY <1>2, <1>3, <1>4 DEF Listed

\* What the handlers find in datagrams ...
LEMMA DatagramIs ==
    ASSUME NEW d \in DatagramMessage
    PROVE  /\ d.from \in Node /\ d.to \in Node
           /\ d.type \in {"GET_PRED", "GET_SUCCLIST", "LINK_BREAK", "PRED", "SUCCLIST", "NOTIFY", "PING", "PONG"}
           /\ d.type = "PRED" /\ d.pred # None =>
                 d.pred \in Node /\ d.predRange \in NodeRange /\ d.curRange \in NodeRange
           /\ d.type = "SUCCLIST" => d.list \in Seq(Info)
           /\ d.type \in {"NOTIFY", "PING", "PONG"} => d.range \in NodeRange
<1>1. CASE d \in [type : {"GET_PRED", "GET_SUCCLIST", "LINK_BREAK"}, from : Node, to : Node]
  BY <1>1
<1>2. CASE d \in [type : {"PRED"}, from : Node, to : Node, pred : Node, predRange : NodeRange, curRange : NodeRange]
  BY <1>2
<1>3. CASE d \in [type : {"PRED"}, from : Node, to : Node, pred : {None}, predRange : {None}, curRange : {None}]
  BY <1>3
<1>4. CASE d \in [type : {"SUCCLIST"}, from : Node, to : Node, list : Seq(Info)]
  BY <1>4
<1>5. CASE d \in [type : {"NOTIFY", "PING", "PONG"}, from : Node, to : Node, range : NodeRange]
  BY <1>5
<1>. QED  BY <1>1, <1>2, <1>3, <1>4, <1>5 DEF DatagramMessage

\* ... and in messages on a connection.
LEMMA MessageIs ==
    ASSUME NEW msg \in Message
    PROVE  /\ msg.type \in {"JOIN_REQUEST", "AM_UNJOINED", "JOIN_RESPONSE", "LEAVE"}
           /\ msg.type = "JOIN_RESPONSE" => msg.assigned \in NodeRange /\ msg.succs \in Seq(Info)
           /\ msg.type = "LEAVE" => msg.assigned \in NodeRange
<1>1. CASE msg \in [type : {"JOIN_REQUEST", "AM_UNJOINED"}]
  BY <1>1
<1>2. CASE msg \in [type : {"JOIN_RESPONSE"}, assigned : NodeRange, only : BOOLEAN, succs : Seq(Info)]
  BY <1>2
<1>3. CASE msg \in [type : {"LEAVE"}, assigned : NodeRange]
  BY <1>3
<1>. QED  BY <1>1, <1>2, <1>3 DEF Message

\* The messages that are sent.
LEMMA MessagesTyped ==
    ASSUME NEW n \in Node, NEW m \in Node, NEW r \in NodeRange, NEW list \in Seq(Info), NEW o \in BOOLEAN
    PROVE  /\ JoinResponse(r, o, list) \in Message
           /\ LeaveNotification(r) \in Message
           /\ [type |-> "JOIN_REQUEST"] \in Message /\ [type |-> "AM_UNJOINED"] \in Message
           /\ \A t \in {"GET_PRED", "GET_SUCCLIST", "LINK_BREAK"} : Datagram(t, n, m) \in DatagramMessage
           /\ SuccessorList(n, m, list) \in DatagramMessage
           /\ \A t \in {"NOTIFY", "PING", "PONG"} : HeartBeat(t, n, m, r) \in DatagramMessage
<1>1. /\ JoinResponse(r, o, list) \in Message
      /\ LeaveNotification(r) \in Message
      /\ [type |-> "JOIN_REQUEST"] \in Message /\ [type |-> "AM_UNJOINED"] \in Message
  BY DEF JoinResponse, LeaveNotification, Message
<1>2. \A t \in {"GET_PRED", "GET_SUCCLIST", "LINK_BREAK"} : Datagram(t, n, m) \in DatagramMessage
  BY DEF Datagram, DatagramMessage
<1>3. SuccessorList(n, m, list) \in DatagramMessage
  BY DEF SuccessorList, DatagramMessage
<1>4. \A t \in {"NOTIFY", "PING", "PONG"} : HeartBeat(t, n, m, r) \in DatagramMessage
  BY DEF HeartBeat, DatagramMessage
<1>. QED  BY <1>1, <1>2, <1>3, <1>4

\* The answer to GET_PRED names a predecessor with its range, or neither.
LEMMA PredTyped ==
    ASSUME NEW n \in Node, NEW m \in Node, NEW h, Held(h), h.range \in NodeRange
    PROVE  Pred(n, m, h) \in DatagramMessage
<1>1. CASE HasPred(h)
  <2>1. Predecessor(h) \in Node /\ h.known[Predecessor(h)] \in NodeRange
    BY <1>1, Firsts
  <2>2. Pred(n, m, h) = [type |-> "PRED", from |-> n, to |-> m, pred |-> Predecessor(h),
                         predRange |-> h.known[Predecessor(h)], curRange |-> h.range]
    BY <1>1 DEF Pred
  <2>. QED  BY <2>1, <2>2 DEF DatagramMessage
<1>2. CASE ~HasPred(h)
  <2>1. Pred(n, m, h) = [type |-> "PRED", from |-> n, to |-> m, pred |-> None,
                         predRange |-> None, curRange |-> None]
    BY <1>2 DEF Pred
  <2>. QED  BY <2>1 DEF DatagramMessage
<1>. QED  BY <1>1, <1>2

\* Each action keeps the types.  The predecessors, which go, are not known any more.
LEMMA TypeJoinTimeout ==
    ASSUME TypeInv, NEW n \in Node, JoinTimeout(n)
    PROVE  TypeInv'
<1>. DEFINE h == hub[n]
            g == [h EXCEPT !.attempts = @ + 1]
            k == UnRegister([h EXCEPT !.attempts = @ + 1, !.pred = <<>>])
            l == [h EXCEPT !.status = "DEAD"]
<1>1. h \in Hub /\ Held(h) /\ Placed(h) /\ IsInjective(h.succ) /\ h.succ \in Seq(Node)
  BY HubIs DEF TypeInv, Held, Listing
<1>2. h.rep \in Node
  BY <1>1, HubIs DEF JoinTimeout
<1>3. UNCHANGED <<udp, budget>>
  BY DEF JoinTimeout
<1>4. CASE h.attempts > MaxJoinAttempts
  <2>1. hub' = [hub EXCEPT ![n] = l] /\ UNCHANGED tcp
    <3>1. hub' = [hub EXCEPT ![n].status = "DEAD"] /\ UNCHANGED tcp
      BY <1>4 DEF JoinTimeout
    <3>. QED  BY <3>1
  <2>2. l \in Hub /\ l.succ = h.succ /\ l.pred = h.pred /\ l.known = h.known /\ l.range = h.range /\ l.status = "DEAD"
    BY <1>1 DEF Hub, Status
  <2>. HIDE DEF l
  <2>3. Held(l) /\ Placed(l)
    BY <1>1, <2>2, SameLists DEF Placed
  <2>. QED  BY <1>3, <2>1, <2>3, OneHub DEF TypeInv
<1>5. CASE ~(h.attempts > MaxJoinAttempts)
  <2>1. hub' = [hub EXCEPT ![n] = k] /\ tcp' = Sent(tcp, n, h.rep, [type |-> "JOIN_REQUEST"])
    BY <1>5 DEF JoinTimeout
  <2>2. g \in Hub /\ g.succ = h.succ /\ g.pred = h.pred /\ g.known = h.known /\ g.range = h.range
        /\ g.status = h.status
    <3>1. h.attempts \in 0 .. MaxJoinAttempts + 1 /\ MaxJoinAttempts \in Nat
      BY <1>1, HubIs, RingAssumption
    <3>2. h.attempts + 1 \in 0 .. MaxJoinAttempts + 1
      BY <1>5, <3>1
    <3>. QED  BY <1>1, <3>2 DEF Hub
  <2>3. k = UnRegister([g EXCEPT !.pred = <<>>])
    OBVIOUS
  <2>. HIDE DEF g
  <2>4. Held(g)
    BY <1>1, <2>2, SameLists
  <2>5. Range(<<>>) \subseteq Range(g.pred)
    BY OfNobody
  <2>6. Shortened(g, g.succ, <<>>, UnRegister([g EXCEPT !.pred = <<>>]))
    BY <1>1, <2>2, <2>4, <2>5, OfNobody, WithLists
  <2>. HIDE DEF k
  <2>7. Held(k) /\ Placed(k)
    BY <1>1, <2>2, <2>3, <2>6 DEF Shortened, Same, Placed
  <2>8. [type |-> "JOIN_REQUEST"] \in Message
    BY DEF Message
  <2>9. tcp' \in [Node \X Node -> Seq(Message)]
    BY <1>2, <2>1, <2>8, OneSent DEF TypeInv
  <2>. QED  BY <1>3, <2>1, <2>7, <2>9, OneHub DEF TypeInv
<1>. QED  BY <1>4, <1>5

\* The joiner is added with the half of the range it is given.
LEMMA TypeHandleJoinRequest ==
    ASSUME TypeInv, NEW n \in Node, NEW m \in Node, tcp[<<m, n>>] # <<>>, HandleJoinRequest(n, m)
    PROVE  TypeInv'
<1>. DEFINE h == hub[n]
            kept == [min |-> Middle(h.range), max |-> h.range.max]
            assigned == [min |-> h.range.min, max |-> Middle(h.range)]
            only == Successor(h) = n
            split == [h EXCEPT !.range = kept]
            told == IF only THEN SetSuccessor(split, m, assigned) ELSE split
            k == SetPredecessor(told, m, assigned)
            l == [k EXCEPT !.answered = @ \cup {m}]
            response == JoinResponse(assigned, only, PeerInfoList(n, kept, h))
<1>1. h \in Hub /\ Held(h) /\ Placed(h)
  BY DEF TypeInv, Held, Listing
<1>2. UNCHANGED <<udp, budget>>
  BY DEF HandleJoinRequest
<1>3. Received(m, n) \in [Node \X Node -> Seq(Message)]
  BY OneReceived
<1>4. ASSUME UNCHANGED hub, NEW msg \in Message, tcp' = Received(m, n) \/ tcp' = Sent(Received(m, n), n, m, msg)
      PROVE  TypeInv'
  <2>1. Sent(Received(m, n), n, m, msg) \in [Node \X Node -> Seq(Message)]
    BY <1>3, OneSent
  <2>2. tcp' \in [Node \X Node -> Seq(Message)]
    BY <1>3, <1>4, <2>1
  <2>. QED  BY <1>2, <1>4, <2>2 DEF TypeInv
<1>5. CASE tcp' = Received(m, n) /\ UNCHANGED hub
  <2>1. [type |-> "AM_UNJOINED"] \in Message
    BY DEF Message
  <2>. QED  BY <1>4, <1>5, <2>1
<1>6. CASE tcp' = Sent(Received(m, n), n, m, [type |-> "AM_UNJOINED"]) /\ UNCHANGED hub
  <2>1. [type |-> "AM_UNJOINED"] \in Message
    BY DEF Message
  <2>. QED  BY <1>4, <1>6, <2>1
<1>7. CASE /\ h.status = "JOINED" /\ HasSucc(h)
           /\ tcp' = Sent(Received(m, n), n, m, response)
           /\ \/ hub' = [hub EXCEPT ![n] = l]
              \/ UNCHANGED hub
  <2>1. h.range \in NodeRange
    BY <1>1, <1>7, HubIs DEF Placed
  <2>2. kept \in NodeRange /\ assigned \in NodeRange
    BY <2>1, MiddleIs DEF NodeRange
  <2>3. response \in Message
    <3>1. PeerInfoList(n, kept, h) \in Seq(Info)
      <4>. HIDE DEF kept
      <4>. QED  BY <1>1, <2>2, PeerInfoListIs DEF Names
    <3>. QED  BY <2>2, <3>1 DEF JoinResponse, Message
  <2>. HIDE DEF response, kept, assigned
  <2>4. CASE UNCHANGED hub
    BY <1>4, <1>7, <2>3, <2>4
  <2>5. CASE hub' = [hub EXCEPT ![n] = l]
    <3>1. split \in Hub /\ split.succ = h.succ /\ split.pred = h.pred /\ split.known = h.known /\ split.range = kept
      BY <1>1, <2>2 DEF Hub
    <3>. HIDE DEF split
    <3>2. Held(split)
      BY <1>1, <3>1, SameLists
    <3>3. Held(told) /\ told.range = kept
      BY <2>2, <3>1, <3>2, SetSuccessorIs DEF WithOnlySuccessor, Same
    <3>. HIDE DEF told
    <3>. HIDE DEF k
    <3>4. Held(k) /\ k.range = kept
      <4>1. WithPredecessor(told, m, assigned, k)
        BY <2>2, <3>3, SetPredecessorIs DEF k
      <4>. QED  BY <3>3, <4>1 DEF WithPredecessor, Same
    <3>5. k \in Hub
      BY <3>4 DEF Held, Listing
    <3>6. l \in Hub /\ l.succ = k.succ /\ l.pred = k.pred /\ l.known = k.known /\ l.range = kept
      BY <3>4, <3>5 DEF Hub
    <3>. HIDE DEF l
    <3>7. Held(l) /\ Placed(l)
      BY <2>2, <3>4, <3>6, SameLists, RingAssumption DEF Placed
    <3>8. tcp' \in [Node \X Node -> Seq(Message)]
      BY <1>3, <1>7, <2>3, OneSent
    <3>. QED  BY <1>2, <2>5, <3>7, <3>8, OneHub DEF TypeInv
  <2>. QED  BY <1>7, <2>4, <2>5
<1>. QED  BY <1>5, <1>6, <1>7 DEF HandleJoinRequest

\* Only who was answered changes.
LEMMA TypeForgetJoin ==
    ASSUME TypeInv, NEW n \in Node, NEW m \in Node, ForgetJoin(n, m)
    PROVE  TypeInv'
<1>. DEFINE h == hub[n]
            k == [h EXCEPT !.answered = @ \ {m}]
<1>1. h \in Hub /\ Held(h) /\ Placed(h)
  BY DEF TypeInv, Held, Listing
<1>2. hub' = [hub EXCEPT ![n] = k] /\ UNCHANGED <<udp, tcp, budget>>
  BY DEF ForgetJoin
<1>3. /\ k \in Hub /\ k.succ = h.succ /\ k.pred = h.pred /\ k.known = h.known
      /\ k.range = h.range /\ k.status = h.status
  BY <1>1 DEF Hub
<1>. HIDE DEF k
<1>4. Held(k) /\ Placed(k)
  BY <1>1, <1>3, SameLists DEF Placed
<1>. QED  BY <1>2, <1>4, OneHub DEF TypeInv

\* The successors come from the join response.
LEMMA TypeHandleJoinResponse ==
    ASSUME TypeInv, NEW n \in Node, NEW m \in Node, tcp[<<m, n>>] # <<>>,
           NEW msg \in Message, msg.type = "JOIN_RESPONSE", HandleJoinResponse(n, m, msg)
    PROVE  TypeInv'
<1>. DEFINE h == hub[n]
            g == [h EXCEPT !.range = msg.assigned]
            k == SetSuccessorList(g, n, msg.succs)
            l == [k EXCEPT !.status = "JOINED", !.rep = None]
<1>1. h \in Hub /\ Held(h)
  BY DEF TypeInv, Held, Listing
<1>2. UNCHANGED <<udp, budget>> /\ tcp' \in [Node \X Node -> Seq(Message)]
  BY OneReceived DEF HandleJoinResponse
<1>3. CASE h.range # None
  <2>1. UNCHANGED hub
    BY <1>3 DEF HandleJoinResponse
  <2>. QED  BY <1>2, <2>1 DEF TypeInv
<1>4. CASE h.range = None
  <2>1. hub' = [hub EXCEPT ![n] = l]
    BY <1>4 DEF HandleJoinResponse
  <2>2. msg.assigned \in NodeRange /\ msg.succs \in Seq(Info)
    BY MessageIs
  <2>3. g \in Hub /\ g.succ = h.succ /\ g.pred = h.pred /\ g.known = h.known /\ g.range = msg.assigned
    BY <1>1, <2>2 DEF Hub
  <2>. HIDE DEF g
  <2>4. Held(g)
    BY <1>1, <2>3, SameLists
  <2>. DEFINE q == UnRegister([g EXCEPT !.succ = <<>>])
  <2>. HIDE DEF k, q
  <2>5. Held(k) /\ k.range = msg.assigned
    <3>1. Shortened(g, <<>>, g.pred, q) /\ WithSuccessors(q, Taken(n, msg.succs), k)
      BY <2>2, <2>4, SetSuccessorListIs DEF k, q
    <3>. QED  BY <2>3, <3>1 DEF Shortened, WithSuccessors, Same
  <2>6. k \in Hub
    BY <2>5 DEF Held, Listing
  <2>7. l \in Hub /\ l.succ = k.succ /\ l.pred = k.pred /\ l.known = k.known /\ l.range = k.range
    BY <2>6 DEF Hub, Status
  <2>. HIDE DEF l
  <2>8. Held(l) /\ Placed(l)
    BY <2>2, <2>5, <2>7, SameLists, RingAssumption DEF Placed
  <2>. QED  BY <1>2, <2>1, <2>8, OneHub DEF TypeInv
<1>. QED  BY <1>3, <1>4

\* Only the status changes.
LEMMA TypeHandleAmUnjoined ==
    ASSUME TypeInv, NEW n \in Node, NEW m \in Node, tcp[<<m, n>>] # <<>>, HandleAmUnjoined(n, m)
    PROVE  TypeInv'
<1>. DEFINE h == hub[n]
            k == [h EXCEPT !.status = "UNJOINED"]
<1>1. h \in Hub /\ Held(h) /\ Placed(h)
  BY DEF TypeInv, Held, Listing
<1>2. hub' = [hub EXCEPT ![n] = k]
  <2>1. hub' = [hub EXCEPT ![n].status = "UNJOINED"]
    BY DEF HandleAmUnjoined
  <2>. QED  BY <2>1
<1>3. UNCHANGED <<udp, budget>> /\ tcp' \in [Node \X Node -> Seq(Message)]
  BY OneReceived DEF HandleAmUnjoined
<1>4. /\ k \in Hub /\ k.succ = h.succ /\ k.pred = h.pred /\ k.known = h.known
      /\ k.range = h.range /\ k.status = "UNJOINED"
  BY <1>1 DEF Hub, Status
<1>. HIDE DEF k
<1>5. Held(k) /\ Placed(k)
  BY <1>1, <1>4, SameLists DEF Placed
<1>. QED  BY <1>2, <1>3, <1>5, OneHub DEF TypeInv

\* A node that has a successor asks it.
LEMMA TypeDoSuccListMaintenance ==
    ASSUME TypeInv, NEW n \in Node, DoSuccListMaintenance(n)
    PROVE  TypeInv'
<1>. DEFINE h == hub[n]
            sent == {Datagram("GET_PRED", n, Successor(h)), Datagram("GET_SUCCLIST", n, Successor(h))}
<1>1. Datagrams({}, sent) /\ UNCHANGED <<hub, tcp, budget>> /\ HasSucc(h)
  BY DEF DoSuccListMaintenance
<1>2. Successor(h) \in Node
  BY <1>1, Firsts DEF TypeInv
<1>3. sent \in SUBSET DatagramMessage
  BY <1>2 DEF Datagram, DatagramMessage
<1>. HIDE DEF sent
<1>4. udp' \subseteq DatagramMessage
  BY <1>1, <1>3, MoreDatagrams
<1>. QED  BY <1>1, <1>4 DEF TypeInv

\* The first predecessor is listed, so its range is known.
LEMMA TypeHandleGetPred ==
    ASSUME TypeInv, NEW d \in DatagramMessage, HandleGetPred(d)
    PROVE  TypeInv'
<1>. DEFINE h == hub[d.to]
            sent == IF h.status = "JOINED" THEN {Pred(d.to, d.from, h)} ELSE {}
<1>1. Datagrams({d}, sent) /\ UNCHANGED <<hub, tcp, budget>>
  BY DEF HandleGetPred
<1>2. d.from \in Node /\ d.to \in Node
  BY DatagramIs
<1>3. Held(h) /\ Placed(h) /\ h.range \in NodeRange \cup {None}
  BY <1>2, HubIs DEF TypeInv, Held, Listing
<1>4. sent \in SUBSET DatagramMessage
  BY <1>2, <1>3, PredTyped DEF Placed
<1>. HIDE DEF sent
<1>5. udp' \subseteq DatagramMessage
  BY <1>1, <1>4, MoreDatagrams
<1>. QED  BY <1>1, <1>5 DEF TypeInv

\* The ranges of all successors are known.
LEMMA TypeHandleGetSuccList ==
    ASSUME TypeInv, NEW d \in DatagramMessage, HandleGetSuccList(d)
    PROVE  TypeInv'
<1>. DEFINE h == hub[d.to]
            list == PeerInfoList(d.to, h.range, h)
            sent == IF h.status = "JOINED" /\ HasPred(h) /\ Predecessor(h) = d.from
                    THEN {SuccessorList(d.to, d.from, list)} ELSE {}
<1>1. Datagrams({d}, sent) /\ UNCHANGED <<hub, tcp, budget>>
  BY DEF HandleGetSuccList
<1>2. d.from \in Node /\ d.to \in Node
  BY DatagramIs
<1>3. Held(h) /\ Placed(h) /\ h.range \in NodeRange \cup {None}
  BY <1>2, HubIs DEF TypeInv, Held, Listing
<1>4. h.status = "JOINED" => list \in Seq(Info)
  BY <1>2, <1>3, PeerInfoListIs DEF Placed, Names
<1>. HIDE DEF list
<1>5. sent \in SUBSET DatagramMessage
  BY <1>2, <1>4 DEF SuccessorList, DatagramMessage
<1>. HIDE DEF sent
<1>6. udp' \subseteq DatagramMessage
  BY <1>1, <1>5, MoreDatagrams
<1>. QED  BY <1>1, <1>6 DEF TypeInv

\* An answer that names a predecessor brings the ranges of both: its sender's is replaced
\* while it is the successor, and who is new comes in with its range.
LEMMA TypeHandlePred ==
    ASSUME TypeInv, NEW d \in DatagramMessage, d.type = "PRED", HandlePred(d)
    PROVE  TypeInv'
<1>. DEFINE n == d.to
            h == hub[n]
            k == [h EXCEPT !.known[d.from] = d.curRange]
            newmax == IF d.curRange.min = 0 THEN AbsMax ELSE d.curRange.min
            l == Stretch(k, newmax)
            merged == MergeSuccessor(k, d.pred, d.predRange)
<1>1. d.from \in Node /\ n \in Node
  BY DatagramIs
<1>2. h \in Hub /\ Held(h) /\ Placed(h) /\ h.range \in NodeRange \cup {None}
  BY <1>1, HubIs DEF TypeInv, Held, Listing
<1>3. UNCHANGED <<tcp, budget>>
  BY DEF HandlePred
<1>. USE <1>1
<1>4. ASSUME HasSucc(h) PROVE h.range \in NodeRange
  BY <1>2, <1>4 DEF HasSucc, Placed
<1>5. ASSUME NEW m \in Node, h.range \in NodeRange
      PROVE  Notify(n, m, h.range) \in DatagramMessage
  BY <1>5 DEF Notify, HeartBeat, DatagramMessage
<1>6. ASSUME NEW sent \in SUBSET DatagramMessage, Datagrams({d}, sent), NEW q, Held(q), Placed(q),
             hub' = [hub EXCEPT ![n] = q]
      PROVE  TypeInv'
  <2>1. udp' \subseteq DatagramMessage
    BY <1>6, MoreDatagrams
  <2>. QED  BY <1>3, <1>6, <2>1, OneHub DEF TypeInv
<1>7. ASSUME NEW sent \in SUBSET DatagramMessage, Datagrams({d}, sent), UNCHANGED hub
      PROVE  TypeInv'
  <2>1. udp' \subseteq DatagramMessage
    BY <1>7, MoreDatagrams
  <2>. QED  BY <1>3, <1>7, <2>1 DEF TypeInv
<1>8. ASSUME HasSucc(h), Successor(h) = d.from, d.pred # None
      PROVE  Refreshed(h, d.from, d.curRange, k) /\ d.curRange \in NodeRange /\ Held(k) /\ Placed(k)
             /\ d.pred \in Node /\ d.predRange \in NodeRange /\ k.range = h.range
  <2>1. d.pred \in Node /\ d.predRange \in NodeRange /\ d.curRange \in NodeRange
    BY <1>8, DatagramIs
  <2>2. d.from \in Listed(h)
    BY <1>2, <1>8, Firsts
  <2>3. Refreshed(h, d.from, d.curRange, k)
    BY <1>2, <2>1, <2>2, RefreshedIs
  <2>. HIDE DEF k
  <2>. QED  BY <1>2, <2>1, <2>3 DEF Refreshed, Same, Placed
<1>. HIDE DEF k
<1>9. CASE Datagrams({d}, {}) /\ UNCHANGED hub
  BY <1>7, <1>9
<1>10. CASE HasSucc(h) /\ Datagrams({d}, {Notify(n, d.from, h.range)}) /\ UNCHANGED hub
  BY <1>4, <1>5, <1>7, <1>10
<1>11. CASE /\ HasSucc(h) /\ Successor(h) = d.from /\ d.pred = n
            /\ hub' = [hub EXCEPT ![n] = l] /\ Datagrams({d}, {})
  <2>1. n # None
    BY RingAssumption
  <2>2. d.curRange \in NodeRange /\ Held(k) /\ Placed(k) /\ k.range \in NodeRange
    BY <1>4, <1>8, <1>11, <2>1
  <2>3. newmax \in 0 .. AbsMax
    BY <2>2, RingAssumption DEF NodeRange
  <2>. HIDE DEF newmax
  <2>4. CASE l = k
    BY <1>6, <1>11, <2>2, <2>4
  <2>5. CASE l = [k EXCEPT !.range.max = newmax]
    <3>. DEFINE r == [k.range EXCEPT !.max = newmax]
                q == [k EXCEPT !.range = r]
    <3>1. k \in Hub
      BY <2>2 DEF Held, Listing
    <3>2. r \in NodeRange
      BY <2>2, <2>3 DEF NodeRange
    <3>3. l = q
      BY <2>5
    <3>. HIDE DEF r
    <3>4. q \in Hub /\ q.succ = k.succ /\ q.pred = k.pred /\ q.known = k.known /\ q.range = r
      BY <3>1, <3>2 DEF Hub
    <3>. HIDE DEF q, l
    <3>5. Held(l) /\ Placed(l)
      BY <2>2, <3>2, <3>3, <3>4, SameLists, RingAssumption DEF Placed
    <3>. QED  BY <1>6, <1>11, <3>5
  <2>. QED  BY <2>4, <2>5 DEF Stretch
<1>12. CASE /\ HasSucc(h) /\ Successor(h) = d.from /\ d.pred # None
            /\ hub' = [hub EXCEPT ![n] = merged]
            /\ Datagrams({d}, {Notify(n, Successor(merged), h.range)})
  <2>1. Held(k) /\ d.pred \in Node /\ d.predRange \in NodeRange /\ k.range \in NodeRange /\ k.range = h.range
    BY <1>4, <1>8, <1>12
  <2>. DEFINE q == AddSuccessor(k, d.pred, d.predRange)
  <2>. HIDE DEF q, merged
  <2>2. WithSuccessor(k, d.pred, d.predRange, q) /\ Reordered(q, merged)
    BY <2>1, MergeSuccessorIs DEF q, merged
  <2>3. Held(merged) /\ merged.range = h.range /\ merged.succ # <<>>
    <3>1. Held(merged) /\ merged.range = h.range /\ d.pred \in Range(merged.succ)
      BY <2>1, <2>2 DEF WithSuccessor, Reordered, Same
    <3>. QED  BY <3>1, OfNobody
  <2>4. Placed(merged)
    BY <2>1, <2>3, RingAssumption DEF Placed
  <2>5. Successor(merged) \in Node
    BY <2>3, Firsts DEF HasSucc
  <2>6. Notify(n, Successor(merged), h.range) \in DatagramMessage
    BY <1>5, <2>1, <2>5
  <2>. QED  BY <1>6, <1>12, <2>3, <2>4, <2>6
<1>13. CASE /\ HasSucc(h) /\ Successor(h) = d.from /\ d.pred # None
            /\ hub' = [hub EXCEPT ![n] = k]
            /\ Datagrams({d}, {Notify(n, d.from, h.range)})
  BY <1>4, <1>5, <1>6, <1>8, <1>13
<1>. QED  BY <1>9, <1>10, <1>11, <1>12, <1>13 DEF HandlePred, k

\* Successors come and go with their ranges.
LEMMA TypeHandleSuccList ==
    ASSUME TypeInv, NEW d \in DatagramMessage, d.type = "SUCCLIST", HandleSuccList(d)
    PROVE  TypeInv'
<1>. DEFINE n == d.to
            h == hub[n]
            q == MergeSuccessorList(h, n, d.list)
<1>1. n \in Node /\ d.list \in Seq(Info)
  BY DatagramIs
<1>2. h \in Hub /\ Held(h) /\ Placed(h) /\ h.range \in NodeRange \cup {None}
  BY <1>1, HubIs DEF TypeInv, Held, Listing
<1>3. UNCHANGED <<tcp, budget>> /\ Datagrams({d}, {})
  BY DEF HandleSuccList
<1>4. udp' \subseteq DatagramMessage
  BY <1>3, MoreDatagrams
<1>5. CASE UNCHANGED hub
  BY <1>3, <1>4, <1>5 DEF TypeInv
<1>6. CASE HasSucc(h) /\ hub' = [hub EXCEPT ![n] = q]
  <2>. DEFINE taken == Taken(n, d.list)
              left == Only(h.succ, {taken[i].addr : i \in DOMAIN taken})
              k == UnRegister([h EXCEPT !.succ = left])
              l == AddAll(k, taken)
              s == SortSucc(l)
  <2>1. Shortened(h, left, h.pred, k) /\ WithSuccessors(k, taken, l) /\ q = s /\ Reordered(l, s)
    BY <1>1, <1>2, MergeSuccessorListIs
  <2>. HIDE DEF taken, left, k, l, s, q
  <2>2. Held(q) /\ q.range = h.range
    BY <2>1 DEF Shortened, WithSuccessors, Reordered, Same
  <2>3. Placed(q)
    BY <1>2, <1>6, <2>2 DEF Placed, HasSucc
  <2>. QED  BY <1>1, <1>3, <1>4, <1>6, <2>2, <2>3, OneHub DEF TypeInv
<1>. QED  BY <1>5, <1>6 DEF HandleSuccList

\* A list of none has nobody left.
LEMMA OnlyOfNobody == ASSUME NEW S PROVE Only(<<>>, S) = <<>>
<1>. DEFINE e == <<>>
            o == Only(e, S)
<1>1. e \in Seq(Node) /\ Range(e) = {}
  BY OfNobody
<1>. HIDE DEF e
<1>2. o \in Seq(Node) /\ Range(o) = Range(e) \cap S
  BY <1>1, OnlyIs
<1>. HIDE DEF o
<1>3. Range(o) = {o[i] : i \in 1 .. Len(o)} /\ Len(o) \in Nat
  BY <1>2, RangeIs
<1>4. Len(o) = 0
  <2>1. Len(o) > 0 => o[1] \in Range(o)
    BY <1>3
  <2>. QED  BY <1>1, <1>2, <1>3, <2>1
<1>5. o = <<>>
  BY <1>2, <1>4
<1>. QED  BY <1>5 DEF o, e

\* A node that drops a peer stays where it is.
LEMMA RemovedPlaced ==
    ASSUME NEW h, Held(h), Placed(h), NEW m \in Node
    PROVE  Held(RemovePeer(h, m)) /\ Placed(RemovePeer(h, m))
<1>. DEFINE k == RemovePeer(h, m)
<1>1. CASE m \notin Listed(h)
  BY <1>1 DEF RemovePeer
<1>2. CASE m \in Listed(h)
  <2>1. Bereaved(h, Only(h.succ, Node \ {m}), Only(h.pred, Node \ {m}), k)
    BY <1>2, RemovePeerIs
  <2>. HIDE DEF k
  <2>2. Held(k) /\ k.range = h.range /\ k.status \in {h.status, "DEAD"}
    BY <2>1 DEF Bereaved
  <2>3. h.range = None => k.succ = <<>> /\ k.pred = <<>>
    BY <2>1, OnlyOfNobody DEF Bereaved, Placed
  <2>. QED  BY <2>2, <2>3 DEF Placed, k
<1>. QED  BY <1>1, <1>2

\* A predecessor comes with the range it told; who becomes the only successor is known already.
LEMMA TypeHandleNotifySuccessor ==
    ASSUME TypeInv, NEW d \in DatagramMessage, d.type = "NOTIFY", HandleNotifySuccessor(d)
    PROVE  TypeInv'
<1>. DEFINE n == d.to
            h == hub[n]
            k == SetPredecessor(h, d.from, d.range)
            l == [h EXCEPT !.known[d.from] = d.range]
            q == SetSuccessor(k, d.from, d.range)
<1>1. d.from \in Node /\ n \in Node /\ d.range \in NodeRange
  BY DatagramIs
<1>2. Held(h) /\ Placed(h) /\ h.range \in NodeRange \cup {None}
  BY <1>1, HubIs DEF TypeInv, Held, Listing
<1>3. UNCHANGED <<tcp, budget>> /\ Datagrams({d}, {})
  BY DEF HandleNotifySuccessor
<1>4. udp' \subseteq DatagramMessage
  BY <1>3, MoreDatagrams
<1>5. ASSUME NEW p, Held(p), Placed(p), hub' = [hub EXCEPT ![n] = p] PROVE TypeInv'
  BY <1>1, <1>3, <1>4, <1>5, OneHub DEF TypeInv
<1>6. CASE h.status # "JOINED"
  BY <1>2, <1>5, <1>6 DEF HandleNotifySuccessor
<1>7. CASE h.status = "JOINED"
  <2>1. h.range # None
    BY <1>2, <1>7 DEF Placed
  <2>2. WithPredecessor(h, d.from, d.range, k)
    BY <1>1, <1>2, SetPredecessorIs
  <2>. HIDE DEF k
  <2>3. Held(k) /\ Placed(k)
    BY <2>1, <2>2 DEF WithPredecessor, Same, Placed
  <2>4. WithOnlySuccessor(k, d.from, d.range, q)
    BY <1>1, <2>3, SetSuccessorIs
  <2>. HIDE DEF q
  <2>5. Held(q) /\ Placed(q)
    <3>1. k.range # None
      BY <2>1, <2>2 DEF WithPredecessor, Same
    <3>. QED  BY <2>4, <3>1 DEF WithOnlySuccessor, Same, Placed
  <2>6. CASE HasPred(h) /\ Predecessor(h) = d.from /\ hub' = [hub EXCEPT ![n] = l]
    <3>1. Refreshed(h, d.from, d.range, l)
      BY <1>1, <1>2, <2>6, Firsts, RefreshedIs
    <3>. HIDE DEF l
    <3>2. Held(l) /\ Placed(l)
      BY <1>2, <3>1 DEF Refreshed, Same, Placed
    <3>. QED  BY <1>5, <2>6, <3>2
  <2>7. CASE hub' = [hub EXCEPT ![n] = k] \/ hub' = [hub EXCEPT ![n] = q] \/ hub' = [hub EXCEPT ![n] = h]
    BY <1>2, <1>5, <2>3, <2>5, <2>7
  <2>. QED  BY <1>7, <2>6, <2>7 DEF HandleNotifySuccessor, k, q
<1>. QED  BY <1>6, <1>7

\* A node that has joined has a range to send.
LEMMA TypeSendLivenessPing ==
    ASSUME TypeInv, NEW n \in Node, NEW m \in Node, SendLivenessPing(n, m)
    PROVE  TypeInv'
<1>. DEFINE h == hub[n]
            sent == {HeartBeat("PING", n, m, h.range)}
<1>1. Datagrams({}, sent) /\ UNCHANGED <<hub, tcp>> /\ h.status = "JOINED"
  BY DEF SendLivenessPing
<1>2. h.range \in NodeRange
  BY <1>1, HubIs DEF TypeInv, Held, Listing, Placed
<1>3. sent \in SUBSET DatagramMessage
  BY <1>2 DEF HeartBeat, DatagramMessage
<1>. HIDE DEF sent
<1>4. udp' \subseteq DatagramMessage
  BY <1>1, <1>3, MoreDatagrams
<1>5. budget' \in Budget
  BY DEF SendLivenessPing, TypeInv, Budget
<1>. QED  BY <1>1, <1>4, <1>5 DEF TypeInv

\* A predecessor comes with the range it told; who answers knows its own.
LEMMA TypeHandleLivenessPing ==
    ASSUME TypeInv, NEW d \in DatagramMessage, d.type = "PING", HandleLivenessPing(d)
    PROVE  TypeInv'
<1>. DEFINE n == d.to
            h == hub[n]
            q == AddPredecessor(h, d.from, d.range)
            k == IF HasPred(h) THEN q ELSE h
            sent == IF Contains(k.pred, d.from) THEN {HeartBeat("PONG", d.to, d.from, k.range)} ELSE {}
<1>1. d.from \in Node /\ n \in Node /\ d.range \in NodeRange
  BY DatagramIs
<1>2. Held(h) /\ Placed(h) /\ h.range \in NodeRange \cup {None}
  BY <1>1, HubIs DEF TypeInv, Held, Listing
<1>3. UNCHANGED <<tcp, budget>> /\ Datagrams({d}, sent) /\ hub' = [hub EXCEPT ![n] = k]
  BY DEF HandleLivenessPing
<1>4. WithPredecessor(h, d.from, d.range, q)
  BY <1>1, <1>2, AddPredecessorIs
<1>. HIDE DEF q
<1>5. Held(k) /\ Placed(k) /\ k.range = h.range
  <2>1. CASE HasPred(h)
    <3>1. h.range # None
      BY <1>2, <2>1 DEF HasPred, Placed
    <3>. QED  BY <1>4, <2>1, <3>1 DEF WithPredecessor, Same, Placed
  <2>2. CASE ~HasPred(h)
    BY <1>2, <2>2
  <2>. QED  BY <2>1, <2>2
<1>. HIDE DEF k
<1>6. sent \in SUBSET DatagramMessage
  <2>1. CASE Contains(k.pred, d.from)
    <3>1. k.pred \in Seq(Node)
      BY <1>5, HubIs DEF Held, Listing
    <3>2. Range(k.pred) # {}
      BY <2>1, <3>1, RangeIs
    <3>3. k.pred # <<>>
      BY <3>2, OfNobody
    <3>4. k.range \in NodeRange
      BY <1>2, <1>5, <3>3 DEF Placed
    <3>. QED  BY <1>1, <3>4 DEF HeartBeat, DatagramMessage
  <2>2. CASE ~Contains(k.pred, d.from)
    BY <2>2
  <2>. QED  BY <2>1, <2>2
<1>. HIDE DEF sent
<1>7. udp' \subseteq DatagramMessage
  BY <1>3, <1>6, MoreDatagrams
<1>. QED  BY <1>1, <1>3, <1>5, <1>7, OneHub DEF TypeInv

\* A range is replaced only while its owner is listed.
LEMMA TypeHandleLivenessPong ==
    ASSUME TypeInv, NEW d \in DatagramMessage, d.type = "PONG", HandleLivenessPong(d)
    PROVE  TypeInv'
<1>. DEFINE n == d.to
            h == hub[n]
            q == RemovePeer(h, d.from)
            l == [h EXCEPT !.known[d.from] = d.range]
<1>1. d.from \in Node /\ n \in Node /\ d.range \in NodeRange
  BY DatagramIs
<1>2. Held(h) /\ Placed(h)
  BY <1>1 DEF TypeInv
<1>3. UNCHANGED <<tcp, budget>> /\ Datagrams({d}, {})
  BY DEF HandleLivenessPong
<1>4. udp' \subseteq DatagramMessage
  BY <1>3, MoreDatagrams
<1>5. ASSUME NEW p, Held(p), Placed(p), hub' = [hub EXCEPT ![n] = p] PROVE TypeInv'
  BY <1>1, <1>3, <1>4, <1>5, OneHub DEF TypeInv
<1>6. CASE hub' = [hub EXCEPT ![n] = h]
  BY <1>2, <1>5, <1>6
<1>7. CASE d.from \in Listed(h) /\ hub' = [hub EXCEPT ![n] = q]
  <2>1. Held(q) /\ Placed(q)
    BY <1>1, <1>2, RemovedPlaced
  <2>. QED  BY <1>5, <1>7, <2>1
<1>8. CASE d.from \in Listed(h) /\ hub' = [hub EXCEPT ![n] = l]
  <2>1. Refreshed(h, d.from, d.range, l)
    BY <1>1, <1>2, <1>8, RefreshedIs
  <2>. HIDE DEF l
  <2>2. Held(l) /\ Placed(l)
    BY <1>2, <2>1 DEF Refreshed, Same, Placed
  <2>. QED  BY <1>5, <1>8, <2>2
<1>. QED  BY <1>6, <1>7, <1>8 DEF HandleLivenessPong

\* Who stays on neither list is not known any more.
LEMMA TypeCheckLiveness ==
    ASSUME TypeInv, NEW n \in Node, NEW m \in Node, CheckLiveness(n, m)
    PROVE  TypeInv'
<1>. DEFINE h == hub[n]
            lostSucc == Contains(h.succ, m) /\ ~Alive(m)
            lostPred == Contains(h.pred, m) /\ (~Alive(m) \/ ~Contains(hub[m].succ, n))
            s == IF lostSucc THEN Only(h.succ, Node \ {m}) ELSE h.succ
            p == IF lostPred THEN Only(h.pred, Node \ {m}) ELSE h.pred
            k == UnRegister([h EXCEPT !.succ = s, !.pred = p])
            l == OrDie(k)
<1>1. Held(h) /\ Placed(h) /\ h.succ \in Seq(Node) /\ h.pred \in Seq(Node)
      /\ IsInjective(h.succ) /\ IsInjective(h.pred)
  BY HubIs DEF TypeInv, Held, Listing
<1>2. hub' = [hub EXCEPT ![n] = l] /\ UNCHANGED <<udp, tcp, budget>> /\ h.status = "JOINED"
  BY DEF CheckLiveness
<1>3. s \in Seq(Node) /\ Range(s) \subseteq Range(h.succ) /\ IsInjective(s)
  BY <1>1, OnlyIs
<1>4. p \in Seq(Node) /\ Range(p) \subseteq Range(h.pred) /\ IsInjective(p)
  BY <1>1, OnlyIs
<1>. HIDE DEF s, p
<1>5. Shortened(h, s, p, k)
  BY <1>1, <1>3, <1>4, WithLists
<1>. HIDE DEF k
<1>6. Bereaved(h, s, p, l)
  BY <1>1, <1>5, OrDieIs
<1>. HIDE DEF l
<1>7. Held(l) /\ Placed(l)
  BY <1>1, <1>2, <1>6 DEF Bereaved, Placed
<1>. QED  BY <1>2, <1>7, OneHub DEF TypeInv

\* The ranges that go to the neighbours are known, and then nobody is listed.
LEMMA TypeDoLeaveJoin ==
    ASSUME TypeInv, NEW n \in Node, NEW m \in Node, DoLeaveJoin(n, m)
    PROVE  TypeInv'
<1>. DEFINE h == hub[n]
            rpred == [min |-> h.known[Predecessor(h)].min, max |-> Middle(h.range)]
            rsucc == [min |-> Middle(h.range), max |-> h.known[Successor(h)].max]
            others == Range(h.pred) \ {Predecessor(h), Successor(h), n}
            sent == {Datagram("LINK_BREAK", n, o) : o \in others}
            a == [pred |-> Predecessor(h), range |-> rpred]
            k == [h EXCEPT !.status = "UNJOINED", !.range = None, !.succ = <<>>, !.pred = <<>>,
                           !.away = a, !.rep = m, !.attempts = 0]
            l == UnRegister(k)
<1>1. Held(h) /\ Placed(h) /\ h \in Hub
  BY DEF TypeInv, Held, Listing
<1>2. /\ HasSucc(h) /\ HasPred(h) /\ budget.leave > 0
      /\ budget' = [budget EXCEPT !.leave = @ - 1]
      /\ hub' = [hub EXCEPT ![n] = l]
      /\ Datagrams({}, sent)
      /\ tcp' = Sent(tcp, n, Successor(h), LeaveNotification(rsucc))
  BY DEF DoLeaveJoin
<1>3. /\ Successor(h) \in Node /\ h.known[Successor(h)] \in NodeRange
      /\ Predecessor(h) \in Node /\ h.known[Predecessor(h)] \in NodeRange
  BY <1>1, <1>2, Firsts
<1>4. h.range \in NodeRange /\ Range(h.pred) \in SUBSET Node
  BY <1>1, <1>2, HubIs DEF Placed, HasSucc
<1>5. rpred \in NodeRange /\ rsucc \in NodeRange
  BY <1>3, <1>4, MiddleIs DEF NodeRange
<1>6. LeaveNotification(rsucc) \in Message
  <2>. HIDE DEF rsucc
  <2>. QED  BY <1>5 DEF LeaveNotification, Message
<1>7. sent \in SUBSET DatagramMessage
  BY <1>4 DEF Datagram, DatagramMessage
<1>8. a \in [pred : Node, range : NodeRange]
  BY <1>3, <1>5
<1>. HIDE DEF rpred, rsucc, a, sent, others
<1>9. /\ k \in Hub /\ k.succ = <<>> /\ k.pred = <<>> /\ k.range = None /\ k.status = "UNJOINED"
  <2>1. 0 \in 0 .. MaxJoinAttempts + 1
    BY RingAssumption
  <2>. QED  BY <1>1, <1>8, <2>1, OfNobody DEF Hub, Status
<1>. HIDE DEF k
<1>10. Listing(k)
  <2>1. Listed(k) = {}
    BY <1>9, OfNobody DEF Listed
  <2>. QED  BY <1>9, <2>1, OfNobody DEF Listing
<1>11. UnRegistered(k, l)
  BY <1>10, UnRegisterIs
<1>. HIDE DEF l
<1>12. Held(l) /\ Placed(l)
  BY <1>9, <1>11 DEF UnRegistered, Same, Placed
<1>13. tcp' \in [Node \X Node -> Seq(Message)]
  BY <1>2, <1>3, <1>6, OneSent DEF TypeInv
<1>14. udp' \subseteq DatagramMessage
  BY <1>2, <1>7, MoreDatagrams
<1>15. budget' \in Budget
  BY <1>2 DEF TypeInv, Budget
<1>. QED  BY <1>2, <1>12, <1>13, <1>14, <1>15, OneHub DEF TypeInv

\* The rest of the leave is sent.
LEMMA TypeEndLeave ==
    ASSUME TypeInv, NEW n \in Node, EndLeave(n)
    PROVE  TypeInv'
<1>. DEFINE h == hub[n]
            k == [h EXCEPT !.away = None]
<1>1. h \in Hub /\ Held(h) /\ Placed(h)
  BY DEF TypeInv, Held, Listing
<1>2. /\ h.away # None /\ UNCHANGED <<udp, budget>>
      /\ tcp' = Sent(tcp, n, h.away.pred, LeaveNotification(h.away.range))
      /\ hub' = [hub EXCEPT ![n] = k]
  <2>1. hub' = [hub EXCEPT ![n].away = None]
    BY DEF EndLeave
  <2>. QED  BY <2>1 DEF EndLeave
<1>3. h.away \in [pred : Node, range : NodeRange]
  BY <1>1, <1>2, HubIs
<1>4. LeaveNotification(h.away.range) \in Message
  BY <1>3 DEF LeaveNotification, Message
<1>5. tcp' \in [Node \X Node -> Seq(Message)]
  BY <1>2, <1>3, <1>4, OneSent DEF TypeInv
<1>6. k \in Hub /\ k.succ = h.succ /\ k.pred = h.pred /\ k.known = h.known
      /\ k.range = h.range /\ k.status = h.status
  BY <1>1 DEF Hub
<1>. HIDE DEF k
<1>7. Held(k) /\ Placed(k)
  BY <1>1, <1>6, SameLists DEF Placed
<1>. QED  BY <1>2, <1>5, <1>7, OneHub DEF TypeInv

\* The range is taken over, and who left goes from both lists.
LEMMA TypeHandleLeaveNotification ==
    ASSUME TypeInv, NEW n \in Node, NEW m \in Node, tcp[<<m, n>>] # <<>>,
           NEW msg \in Message, msg.type = "LEAVE", HandleLeaveNotification(n, m, msg)
    PROVE  TypeInv'
<1>. DEFINE h == hub[n]
            g == [h EXCEPT !.range = msg.assigned]
            k == RemovePeer(g, m)
<1>1. h \in Hub /\ Held(h) /\ Placed(h)
  BY DEF TypeInv, Held, Listing
<1>2. UNCHANGED <<udp, budget>> /\ tcp' \in [Node \X Node -> Seq(Message)]
  BY OneReceived DEF HandleLeaveNotification
<1>3. msg.assigned \in NodeRange
  BY MessageIs
<1>4. g \in Hub /\ g.succ = h.succ /\ g.pred = h.pred /\ g.known = h.known
      /\ g.range = msg.assigned /\ g.status = h.status
  BY <1>1, <1>3 DEF Hub
<1>5. hub' = [hub EXCEPT ![n] = h] \/ hub' = [hub EXCEPT ![n] = k]
  BY DEF HandleLeaveNotification
<1>. HIDE DEF g
<1>6. Held(g) /\ Placed(g)
  BY <1>1, <1>3, <1>4, SameLists, RingAssumption DEF Placed
<1>7. Held(k) /\ Placed(k)
  BY <1>6, RemovedPlaced
<1>. HIDE DEF k
<1>8. \E q \in {h, k} : hub' = [hub EXCEPT ![n] = q]
  BY <1>5
<1>. QED  BY <1>1, <1>2, <1>7, <1>8, OneHub DEF TypeInv

\* Who left goes from both lists.
LEMMA TypeHandleLinkBreak ==
    ASSUME TypeInv, NEW d \in DatagramMessage, HandleLinkBreak(d)
    PROVE  TypeInv'
<1>. DEFINE h == hub[d.to]
            k == RemovePeer(h, d.from)
<1>1. d.from \in Node /\ d.to \in Node
  BY DatagramIs
<1>2. Held(k) /\ Placed(k)
  BY <1>1, RemovedPlaced DEF TypeInv
<1>3. hub' = [hub EXCEPT ![d.to] = k] /\ UNCHANGED <<tcp, budget>> /\ Datagrams({d}, {})
  BY DEF HandleLinkBreak
<1>4. udp' \subseteq DatagramMessage
  BY <1>3, MoreDatagrams
<1>. QED  BY <1>1, <1>2, <1>3, <1>4, OneHub DEF TypeInv

\* Faults take datagrams and messages away.
LEMMA TypeFaults ==
    ASSUME TypeInv, NEW n \in Node, NEW d, Lose(d) \/ Crash(n) \/ Discard(n)
    PROVE  TypeInv'
<1>1. CASE Lose(d)
  <2>1. udp' \subseteq DatagramMessage
    BY <1>1, MoreDatagrams DEF Lose
  <2>2. budget' \in Budget
    BY <1>1 DEF Lose, TypeInv, Budget
  <2>. QED  BY <1>1, <2>1, <2>2 DEF TypeInv, Lose
<1>2. CASE Crash(n)
  <2>. DEFINE h == hub[n]
              k == [h EXCEPT !.status = "DEAD"]
  <2>1. hub' = [hub EXCEPT ![n] = k] /\ UNCHANGED <<udp, tcp>>
    <3>1. hub' = [hub EXCEPT ![n].status = "DEAD"]
      BY <1>2 DEF Crash
    <3>. QED  BY <1>2, <3>1 DEF Crash
  <2>2. h \in Hub /\ Held(h) /\ Placed(h)
    BY DEF TypeInv, Held, Listing
  <2>3. k \in Hub /\ k.succ = h.succ /\ k.pred = h.pred /\ k.known = h.known
        /\ k.range = h.range /\ k.status = "DEAD"
    BY <2>2 DEF Hub, Status
  <2>. HIDE DEF k
  <2>4. Held(k) /\ Placed(k)
    BY <2>2, <2>3, SameLists DEF Placed
  <2>5. budget' \in Budget
    BY <1>2 DEF Crash, TypeInv, Budget
  <2>. QED  BY <2>1, <2>4, <2>5, OneHub DEF TypeInv
<1>3. CASE Discard(n)
  <2>1. <<>> \in Seq(Message)
    OBVIOUS
  <2>2. tcp' \in [Node \X Node -> Seq(Message)]
    BY <1>3, <2>1 DEF Discard, TypeInv
  <2>3. udp' \subseteq DatagramMessage
    BY <1>3 DEF Discard, TypeInv
  <2>. QED  BY <1>3, <2>2, <2>3 DEF TypeInv, Discard
<1>. QED  BY <1>1, <1>2, <1>3

\* Every step keeps the types.
LEMMA TypeStep == TypeInv /\ [Next]_vars => TypeInv'
<1>. SUFFICES ASSUME TypeInv, [Next]_vars PROVE TypeInv'
  OBVIOUS
<1>1. ASSUME NEW n \in Node, NEW m \in Node, Receive(m, n) PROVE TypeInv'
  <2>. DEFINE msg == Head(tcp[<<m, n>>])
  <2>1. tcp[<<m, n>>] # <<>> /\ tcp[<<m, n>>] \in Seq(Message)
    BY <1>1 DEF Receive, TypeInv
  <2>2. msg \in Message
    BY <2>1
  <2>. HIDE DEF msg
  <2>3. msg.type \in {"JOIN_REQUEST", "AM_UNJOINED", "JOIN_RESPONSE", "LEAVE"}
    BY <2>2, MessageIs
  <2>4. \/ msg.type = "JOIN_REQUEST" /\ HandleJoinRequest(n, m)
        \/ msg.type = "JOIN_RESPONSE" /\ HandleJoinResponse(n, m, msg)
        \/ msg.type = "AM_UNJOINED" /\ HandleAmUnjoined(n, m)
        \/ msg.type = "LEAVE" /\ HandleLeaveNotification(n, m, msg)
    BY <1>1, <2>3 DEF Receive, msg
  <2>. QED  BY <2>1, <2>2, <2>4, TypeHandleJoinRequest, TypeHandleJoinResponse,
               TypeHandleAmUnjoined, TypeHandleLeaveNotification
<1>2. ASSUME NEW d \in udp, Deliver(d) PROVE TypeInv'
  <2>1. d \in DatagramMessage
    BY DEF TypeInv
  <2>2. d.type \in {"GET_PRED", "GET_SUCCLIST", "LINK_BREAK", "PRED", "SUCCLIST", "NOTIFY", "PING", "PONG"}
    BY <2>1, DatagramIs
  <2>3. \/ HandleGetPred(d) \/ HandleGetSuccList(d) \/ HandleLinkBreak(d)
        \/ d.type = "PRED" /\ HandlePred(d)
        \/ d.type = "SUCCLIST" /\ HandleSuccList(d)
        \/ d.type = "NOTIFY" /\ HandleNotifySuccessor(d)
        \/ d.type = "PING" /\ HandleLivenessPing(d)
        \/ d.type = "PONG" /\ HandleLivenessPong(d)
    BY <1>2, <2>2 DEF Deliver
  <2>. QED  BY <2>1, <2>3, TypeHandleGetPred, TypeHandleGetSuccList, TypeHandleLinkBreak, TypeHandlePred,
               TypeHandleSuccList, TypeHandleNotifySuccessor, TypeHandleLivenessPing, TypeHandleLivenessPong
<1>3. CASE UNCHANGED vars
  <2>1. UNCHANGED <<hub, udp, tcp, budget>>
    BY <1>3 DEF vars
  <2>. QED  BY <2>1 DEF TypeInv
<1>4. ASSUME NEW n \in Node,
             \/ JoinTimeout(n) \/ DoSuccListMaintenance(n) \/ EndLeave(n) \/ Crash(n) \/ Discard(n)
             \/ \E m \in Node : \/ ForgetJoin(n, m) \/ SendLivenessPing(n, m)
                                \/ CheckLiveness(n, m) \/ DoLeaveJoin(n, m)
      PROVE  TypeInv'
  BY <1>4, TypeJoinTimeout, TypeDoSuccListMaintenance, TypeEndLeave, TypeFaults, TypeForgetJoin,
     TypeSendLivenessPing, TypeCheckLiveness, TypeDoLeaveJoin
<1>5. First \in Node
  BY RingAssumption
<1>6. ASSUME NEW d \in udp, Lose(d) PROVE TypeInv'
  BY <1>5, <1>6, TypeFaults
<1>. QED  BY <1>1, <1>2, <1>3, <1>4, <1>6 DEF Next

\* Ring.TypeOK: whatever a ring starts from and whatever fails, what a node holds is well formed:
\* lists hold a peer once, and the range of a peer is known just when it is on a list (Hub.cpp
\* PList::Add, MemberHub::UnRegister); messages carry ranges and peers.
THEOREM RingTypes == Spec => []TypeOK
<1>1. Spec => []TypeInv
  BY TypeInit, TypeStep, PTL DEF Spec
<1>. QED  BY <1>1, TypeInvTypeOK, PTL

-----------------------------------------------------------------------------
(***************************************************************************)
(* A ring that is laid out beforehand.  Where a node's range begins never  *)
(* changes there: it is the node's place on the circle.  Lists hold the    *)
(* nearest first, and nobody who is alive is missing on a list between two *)
(* that are on it; so nobody who is alive is between a node and its first  *)
(* successor, up to which it answers for the values.                       *)
(***************************************************************************)

Value == 0 .. AbsMax - 1

\* How far it is round the circle from a to b: the whole way from a to a.
Way(a, b) == IF b > a THEN b - a ELSE b - a + AbsMax

\* The order of the successors (greater_peer_t) is that of the ways to them.
LEMMA NearerAheadIs ==
    ASSUME NEW me \in Value, NEW a \in Value, NEW b \in Value, a # me, b # me
    PROVE  NearerAhead(a, b, me) <=> Way(me, a) < Way(me, b)
BY RingAssumption DEF NearerAhead, SameSide, Way, Value

\* The tests for "between" (MercuryID.cpp) compare ways too.
LEMMA BetweenIs ==
    ASSUME NEW l \in Value, NEW a \in Value, NEW r \in Value, a # l, a # r, l # r
    PROVE  /\ IsBetween(a, l, r) <=> Way(l, a) < Way(l, r)
           /\ IsBetweenRightInclusive(a, l, r) <=> Way(l, a) < Way(l, r)
BY RingAssumption DEF IsBetween, IsBetweenRightInclusive, Way, Value

\* What is further from x than y is, is behind y.
LEMMA Further ==
    ASSUME NEW x \in Value, NEW y \in Value, NEW a \in Value, NEW b \in Value,
           Way(x, y) < Way(x, a), Way(x, a) < Way(x, b)
    PROVE  Way(y, a) < Way(y, b)
BY RingAssumption DEF Way, Value

\* The values of a range, but for the first one.
LEMMA CellsAre ==
    ASSUME NEW r \in NodeRange, NEW v \in Value, r.min \in Value, v # r.min
    PROVE  v \in Cells(r) <=> r.max # r.min /\ Way(r.min, v) < Way(r.min, r.max)
<1>1. r.max \in 0 .. AbsMax /\ AbsMax \in Nat \ {0}
  BY RingAssumption DEF NodeRange
<1>. QED  BY <1>1 DEF Cells, Wraps, Way, Value

\* Ranges that do not reach one another's beginning have no value in common.
LEMMA NothingShared ==
    ASSUME NEW r \in NodeRange, NEW s \in NodeRange, r.min \in Value, s.min \in Value,
           r.min # s.min, s.min \notin Cells(r), r.min \notin Cells(s)
    PROVE  Cells(r) \cap Cells(s) = {}
<1>. SUFFICES ASSUME NEW v \in Cells(r), v \in Cells(s) PROVE FALSE
  OBVIOUS
<1>1. v \in Value /\ v # r.min /\ v # s.min
  BY DEF Cells, Value
<1>2. Way(r.min, v) < Way(r.min, r.max) /\ r.max # r.min
  BY <1>1, CellsAre
<1>3. Way(s.min, v) < Way(s.min, s.max) /\ s.max # s.min
  BY <1>1, CellsAre
<1>4. ~(Way(r.min, s.min) < Way(r.min, r.max))
  BY <1>2, CellsAre
<1>5. ~(Way(s.min, r.min) < Way(s.min, s.max))
  BY <1>3, CellsAre
<1>. DEFINE x == r.min
            y == s.min
            a == Way(r.min, r.max)
            b == Way(s.min, s.max)
<1>6. a \in Int /\ b \in Int /\ x \in Value /\ y \in Value /\ x # y
  BY RingAssumption DEF Way, Value, NodeRange
<1>7. Way(x, v) < a /\ Way(y, v) < b /\ ~(Way(x, y) < a) /\ ~(Way(y, x) < b) /\ v # x /\ v # y
  BY <1>1, <1>2, <1>3, <1>4, <1>5
<1>. HIDE DEF x, y, a, b
<1>. QED  BY <1>1, <1>6, <1>7, RingAssumption DEF Way, Value

\* Everybody's place, and who is nearer than whom as seen from n.
Position == {pos \in [Node -> Value] : \A n, m \in Node : n # m => pos[n] # pos[m]}

Nearer(pos, n, a, b) == Way(pos[n], pos[a]) < Way(pos[n], pos[b])

\* The nearest first.
InOrder(pos, n, s) == \A i, j \in 1 .. Len(s) : i < j => Nearer(pos, n, s[i], s[j])

\* Whoever is up, and nearer than one on the list, is on the list.
NoGap(pos, n, S, up) == \A m \in S : \A y \in up : Nearer(pos, n, y, m) => y \in S

\* Nobody who is up is nearer than the first successor.
LEMMA NobodyBefore ==
    ASSUME NEW pos \in Position, NEW n \in Node, NEW s \in Seq(Node), s # <<>>,
           NEW up \in SUBSET Node, InOrder(pos, n, s), NoGap(pos, n, Range(s), up)
    PROVE  \A y \in up : ~Nearer(pos, n, y, s[1])
<1>. SUFFICES ASSUME NEW y \in up, Nearer(pos, n, y, s[1]) PROVE FALSE
  OBVIOUS
<1>1. 1 \in 1 .. Len(s) /\ Len(s) \in Nat /\ s[1] \in Node /\ y \in Node
  OBVIOUS
<1>2. Range(s) = {s[i] : i \in 1 .. Len(s)}
  BY RangeIs
<1>3. y \in Range(s)
  BY <1>1, <1>2 DEF NoGap
<1>4. PICK j \in 1 .. Len(s) : s[j] = y
  BY <1>2, <1>3
<1>5. j = 1 \/ Nearer(pos, n, s[1], y)
  BY <1>1, <1>4 DEF InOrder
<1>6. pos[n] \in Value /\ pos[y] \in Value /\ pos[s[1]] \in Value
  BY <1>1 DEF Position
<1>. QED  BY <1>4, <1>5, <1>6, RingAssumption DEF Nearer, Way, Value

\* What n holds, in a ring with these places and where these nodes are up.
Standing(pos, n, h) ==
    /\ h.status \in {"JOINED", "DEAD"} /\ h.range \in NodeRange /\ h.range.min = pos[n]
    /\ h.rep = None /\ h.away = None

\* It may be its own predecessor, but not its own successor.
Knowing(pos, n, h) == n \notin Range(h.succ) /\ \A m \in Listed(h) : h.known[m].min = pos[m]

Sound(pos, n, h, up) ==
    /\ Held(h) /\ Standing(pos, n, h) /\ Knowing(pos, n, h)
    /\ InOrder(pos, n, h.succ) /\ NoGap(pos, n, Range(h.succ), up)
    /\ \A y \in up \ {n} : pos[y] \notin Cells(h.range)

\* Sorting puts the nearest first.
LEMMA SortedByWay ==
    ASSUME NEW pos \in Position, NEW n \in Node, NEW h, Held(h), Standing(pos, n, h), Knowing(pos, n, h)
    PROVE  InOrder(pos, n, SortSucc(h).succ)
<1>. DEFINE k == SortSucc(h)
<1>1. Range(h.succ) \in SUBSET Listed(h) /\ Listed(h) \in SUBSET Node
  BY HubIs DEF Held, Listing, Listed
<1>2. ASSUME NEW a \in Range(h.succ), NEW b \in Range(h.succ)
      PROVE  <<a, b>> \in Ahead(h) <=> Nearer(pos, n, a, b)
  <2>1. a \in Node /\ b \in Node /\ a # n /\ b # n /\ h.known[a].min = pos[a] /\ h.known[b].min = pos[b]
        /\ h.range.min = pos[n]
    BY <1>1 DEF Knowing, Standing
  <2>2. pos[a] \in Value /\ pos[b] \in Value /\ pos[n] \in Value /\ pos[a] # pos[n] /\ pos[b] # pos[n]
    BY <2>1 DEF Position
  <2>3. <<a, b>> \in Ahead(h) <=> NearerAhead(pos[a], pos[b], pos[n])
    BY <2>1 DEF Ahead
  <2>. QED  BY <2>2, <2>3, NearerAheadIs DEF Nearer
<1>3. OrderOf(Ahead(h), Range(h.succ))
  <2>1. \A a \in Range(h.succ) : pos[a] \in Value
    BY <1>1 DEF Position
  <2>2. pos[n] \in Value
    BY DEF Position
  <2>3. \A a, b \in Range(h.succ) : a # b => <<a, b>> \in Ahead(h) \/ <<b, a>> \in Ahead(h)
    <3>1. \A a, b \in Range(h.succ) : a # b => pos[a] # pos[b]
      BY <1>1 DEF Position
    <3>2. \A a, b \in Range(h.succ) : a # b => Nearer(pos, n, a, b) \/ Nearer(pos, n, b, a)
      BY <2>1, <2>2, <3>1, RingAssumption DEF Nearer, Way, Value
    <3>. QED  BY <1>2, <3>2
  <2>4. \A a, b, c \in Range(h.succ) : <<a, b>> \in Ahead(h) /\ <<b, c>> \in Ahead(h) => <<a, c>> \in Ahead(h)
    <3>1. \A a, b, c \in Range(h.succ) : Nearer(pos, n, a, b) /\ Nearer(pos, n, b, c) => Nearer(pos, n, a, c)
      BY <2>1, <2>2, RingAssumption DEF Nearer, Way, Value
    <3>. QED  BY <1>2, <3>1
  <2>. QED  BY <2>3, <2>4 DEF OrderOf
<1>4. h.range # None
  BY RingAssumption DEF Standing
<1>5. Ordered(k.succ, Ahead(h)) /\ Reordered(h, k)
  BY <1>3, <1>4, SortSuccIs
<1>. HIDE DEF k
<1>6. \A i \in 1 .. Len(k.succ) : k.succ[i] \in Range(h.succ)
  <2>1. k.succ \in Seq(Node) /\ Range(k.succ) = Range(h.succ)
    BY <1>5, HubIs DEF Reordered, Held, Listing
  <2>. QED  BY <2>1, RangeIs
<1>7. InOrder(pos, n, k.succ)
  BY <1>2, <1>5, <1>6 DEF Ordered, InOrder
<1>. QED  BY <1>7 DEF k

\* A loop whose i-th round leads from S[i - 1] to S[i] ends in the last of these.
LEMMA LoopLeads ==
    ASSUME NEW T, NEW steps \in Seq([T -> T]), NEW S \in [0 .. Len(steps) -> SUBSET T], NEW b \in S[0],
           \A i \in 1 .. Len(steps) : \A x \in S[i - 1] : steps[i][x] \in S[i]
    PROVE  Loop(b, steps) \in S[Len(steps)]
<1>0. Len(steps) \in Nat /\ 0 \in 0 .. Len(steps)
  OBVIOUS
<1>1. b \in T
  BY <1>0
<1>2. PICK f \in [0 .. Len(steps) -> T] : Rounds(b, steps, f)
  BY <1>1, LoopIs
<1>. DEFINE P == {i \in 0 .. Len(steps) : f[i] \in S[i]}
<1>3. 0 \in P
  BY <1>0, <1>2 DEF Rounds
<1>4. ASSUME NEW i \in 1 .. Len(steps), i - 1 \in P PROVE i \in P
  <2>1. f[i] = steps[i][f[i - 1]] /\ f[i - 1] \in S[i - 1] /\ i \in 0 .. Len(steps)
    BY <1>2, <1>4 DEF Rounds
  <2>. QED  BY <2>1
<1>. HIDE DEF P
<1>5. \A i \in 0 .. Len(steps) : i \in P
  BY <1>0, <1>3, <1>4, EveryRound
<1>6. Len(steps) \in P
  BY <1>0, <1>5
<1>. QED  BY <1>2, <1>6 DEF P, Rounds

\* k has the successors of h, and of the list those up to the last that came in.
Filled(h, list, k) ==
    /\ Held(k) /\ Range(h.succ) \subseteq Range(k.succ)
    /\ \A m \in Range(k.succ) \ Range(h.succ) :
          \E i \in 1 .. Len(list) : /\ list[i].addr = m
                                    /\ \A j \in 1 .. i : list[j].addr \in Range(k.succ)

\* While there is room the peers of a list come in one after the other: none is left out
\* before one that comes in.
LEMMA AddAllFills ==
    ASSUME NEW h, Held(h), NEW list \in Seq(Info)
    PROVE  Filled(h, list, AddAll(h, list))
<1>. DEFINE n == Len(list)
            steps == RoundOfAddAll(list)
            In(i, k) == \A j \in 1 .. i : list[j].addr \in Range(k.succ)
            S == [i \in 0 .. n |-> {k \in Hub : Filled(h, list, k) /\ (Len(k.succ) <= NSuccessorsToKeep => In(i, k))}]
<1>1. n \in Nat /\ Len(steps) = n /\ steps \in Seq([Hub -> Hub]) /\ AddAll(h, list) = Loop(h, steps)
      /\ NSuccessorsToKeep \in Nat
  BY RoundOfAddAllIs, RingAssumption
<1>2. h \in S[0]
  <2>1. h \in Hub /\ Filled(h, list, h)
    BY DEF Filled, Held, Listing
  <2>. QED  BY <1>1, <2>1
<1>3. ASSUME NEW i \in 1 .. n, NEW k \in S[i - 1] PROVE steps[i][k] \in S[i]
  <2>0. i \in 0 .. n /\ i - 1 \in 0 .. n /\ i \in Nat
    BY <1>1
  <2>1. k \in Hub /\ Filled(h, list, k) /\ (Len(k.succ) <= NSuccessorsToKeep => In(i - 1, k))
    BY <2>0
  <2>2. list[i].addr \in Node /\ list[i].range \in NodeRange
    <3>1. list[i] \in Info
      OBVIOUS
    <3>. QED  BY <3>1 DEF Info
  <2>3. Len(k.succ) \in Nat
    BY <2>1, HubIs
  <2>4. steps[i][k] = IF Len(k.succ) > NSuccessorsToKeep THEN k
                      ELSE AddSuccessor(k, list[i].addr, list[i].range)
    BY <2>1, RoundOfAddAllIs
  <2>5. CASE Len(k.succ) > NSuccessorsToKeep
    BY <1>1, <2>0, <2>1, <2>3, <2>4, <2>5
  <2>6. CASE ~(Len(k.succ) > NSuccessorsToKeep)
    <3>. DEFINE m == list[i].addr
                q == AddSuccessor(k, m, list[i].range)
    <3>1. WithSuccessor(k, m, list[i].range, q)
      <4>. HIDE DEF m
      <4>. QED  BY <2>1, <2>2, AddSuccessorIs DEF m, Filled
    <3>. HIDE DEF q
    <3>2. Held(q) /\ q \in Hub /\ Range(q.succ) = Range(k.succ) \cup {m}
      BY <3>1 DEF WithSuccessor, Held, Listing
    <3>3. In(i, q)
      <4>1. In(i - 1, k)
        BY <1>1, <2>1, <2>3, <2>6
      <4>2. ASSUME NEW j \in 1 .. i PROVE list[j].addr \in Range(q.succ)
        <5>1. CASE j = i
          BY <3>2, <5>1
        <5>2. CASE j # i
          <6>1. j \in 1 .. i - 1
            BY <2>0, <5>2
          <6>. QED  BY <3>2, <4>1, <6>1
        <5>. QED  BY <5>1, <5>2
      <4>. QED  BY <4>2
    <3>4. Filled(h, list, q)
      <4>1. Range(h.succ) \subseteq Range(q.succ)
        BY <2>1, <3>2 DEF Filled
      <4>2. ASSUME NEW o \in Range(q.succ) \ Range(h.succ)
            PROVE  \E l \in 1 .. Len(list) : /\ list[l].addr = o
                                             /\ \A j \in 1 .. l : list[j].addr \in Range(q.succ)
        <5>1. CASE o = m
          BY <3>3, <5>1
        <5>2. CASE o # m
          BY <2>1, <3>2, <5>2 DEF Filled
        <5>. QED  BY <5>1, <5>2
      <4>. QED  BY <3>2, <4>1, <4>2 DEF Filled
    <3>5. steps[i][k] = q
      BY <2>4, <2>6 DEF q
    <3>. HIDE DEF In, steps
    <3>. QED  BY <2>0, <3>2, <3>3, <3>4, <3>5
  <2>. QED  BY <2>5, <2>6
<1>4. S \in [0 .. Len(steps) -> SUBSET Hub]
  BY <1>1
<1>5. S[n] = {k \in Hub : Filled(h, list, k) /\ (Len(k.succ) <= NSuccessorsToKeep => In(n, k))}
  BY <1>1
<1>. HIDE DEF S, steps, n
<1>6. Loop(h, steps) \in S[n]
  BY <1>1, <1>2, <1>3, <1>4, LoopLeads
<1>. QED  BY <1>1, <1>5, <1>6

\* The list of successors is this list.
Filling(list, k) ==
    Len(k.succ) = Len(list) /\ \A i \in 1 .. Len(list) : k.succ[i] = list[i].addr

\* A list that is not too long comes in as it is, when there is nobody yet.
LEMMA AddAllFresh ==
    ASSUME NEW h, Held(h), h.succ = <<>>, NEW list \in Seq(Info), Len(list) <= NSuccessorsToKeep,
           \A i, j \in 1 .. Len(list) : list[i].addr = list[j].addr => i = j
    PROVE  Filling(list, AddAll(h, list))
<1>. DEFINE n == Len(list)
            steps == RoundOfAddAll(list)
            In(i, k) == Held(k) /\ Len(k.succ) = i /\ \A j \in 1 .. i : k.succ[j] = list[j].addr
            S == [i \in 0 .. n |-> {k \in Hub : In(i, k)}]
<1>1. n \in Nat /\ Len(steps) = n /\ steps \in Seq([Hub -> Hub]) /\ AddAll(h, list) = Loop(h, steps)
      /\ NSuccessorsToKeep \in Nat
  BY RoundOfAddAllIs, RingAssumption
<1>2. h \in S[0]
  <2>1. h \in Hub /\ In(0, h)
    BY DEF Held, Listing
  <2>. QED  BY <1>1, <2>1
<1>3. ASSUME NEW i \in 1 .. n, NEW k \in S[i - 1] PROVE steps[i][k] \in S[i]
  <2>0. i \in 0 .. n /\ i - 1 \in 0 .. n /\ i \in Nat
    BY <1>1
  <2>1. k \in Hub /\ In(i - 1, k)
    BY <2>0
  <2>2. list[i].addr \in Node /\ list[i].range \in NodeRange
    <3>1. list[i] \in Info
      OBVIOUS
    <3>. QED  BY <3>1 DEF Info
  <2>. DEFINE m == list[i].addr
              q == AddSuccessor(k, m, list[i].range)
  <2>3. steps[i][k] = q
    <3>1. ~(Len(k.succ) > NSuccessorsToKeep)
      BY <1>1, <2>0, <2>1
    <3>. QED  BY <2>1, <3>1, RoundOfAddAllIs
  <2>4. WithSuccessor(k, m, list[i].range, q)
    <3>. HIDE DEF m
    <3>. QED  BY <2>1, <2>2, AddSuccessorIs DEF m
  <2>. HIDE DEF q
  <2>5. m \notin Range(k.succ)
    <3>1. k.succ \in Seq(Node)
      BY <2>1, HubIs
    <3>2. Range(k.succ) = {k.succ[j] : j \in 1 .. Len(k.succ)}
      BY <3>1, RangeIs
    <3>3. \A j \in 1 .. i - 1 : k.succ[j] # m
      BY <2>0, <2>1
    <3>. QED  BY <2>1, <3>2, <3>3
  <2>6. q.succ = Append(k.succ, m) /\ Held(q) /\ q \in Hub
    BY <2>4, <2>5 DEF WithSuccessor, Held, Listing
  <2>7. In(i, q)
    <3>1. k.succ \in Seq(Node) /\ Len(k.succ) = i - 1 /\ m \in Node
      BY <2>1, <2>2, HubIs
    <3>2. Len(q.succ) = i /\ \A j \in 1 .. i : q.succ[j] = IF j = i THEN m ELSE k.succ[j]
      BY <2>0, <2>6, <3>1
    <3>3. ASSUME NEW j \in 1 .. i PROVE q.succ[j] = list[j].addr
      <4>1. CASE j = i
        BY <3>2, <4>1
      <4>2. CASE j # i
        <5>1. j \in 1 .. i - 1
          BY <2>0, <4>2
        <5>. QED  BY <2>1, <3>2, <4>2, <5>1
      <4>. QED  BY <4>1, <4>2
    <3>. QED  BY <2>6, <3>2, <3>3
  <2>. HIDE DEF In, steps
  <2>. QED  BY <2>0, <2>3, <2>6, <2>7
<1>4. S \in [0 .. Len(steps) -> SUBSET Hub]
  BY <1>1
<1>5. S[n] = {k \in Hub : In(n, k)}
  BY <1>1
<1>. HIDE DEF S, steps
<1>6. Loop(h, steps) \in S[n]
  <2>. HIDE DEF n, In
  <2>. QED  BY <1>1, <1>2, <1>3, <1>4, LoopLeads
<1>7. In(n, AddAll(h, list))
  BY <1>1, <1>5, <1>6
<1>. QED  BY <1>7 DEF Filling

\* Fewer are up.
LEMMA SoundWithFewer ==
    ASSUME NEW pos, NEW n, NEW h, NEW up, NEW less \in SUBSET up, Sound(pos, n, h, up)
    PROVE  Sound(pos, n, h, less)
BY DEF Sound, NoGap

\* The range that is known of m begins at m's place, and those of the others as before.
LEMMA KnowingMore ==
    ASSUME NEW pos, NEW n, NEW h, Held(h), Knowing(pos, n, h), NEW m \in Node,
           NEW r, r.min = pos[m], NEW k, Listed(k) \subseteq Listed(h) \cup {m}, n \notin Range(k.succ),
           k.known = [h.known EXCEPT ![m] = r]
    PROVE  Knowing(pos, n, k)
<1>1. h.known \in [Node -> NodeRange \cup {None}] /\ Listed(h) \in SUBSET Node
  BY HubIs DEF Held, Listing
<1>2. \A o \in Node : k.known[o] = IF o = m THEN r ELSE h.known[o]
  BY <1>1
<1>. QED  BY <1>1, <1>2 DEF Knowing

\* A new range of a peer.
LEMMA SoundRefreshed ==
    ASSUME NEW pos, NEW n \in Node, NEW h, NEW up, Sound(pos, n, h, up), NEW m \in Listed(h),
           NEW r \in NodeRange, r.min = pos[m], NEW k, Refreshed(h, m, r, k)
    PROVE  Sound(pos, n, k, up)
<1>1. m \in Node
  BY HubIs DEF Sound, Held, Listing
<1>2. Listed(k) = Listed(h) /\ n \notin Range(k.succ)
  BY DEF Refreshed, Listed, Sound, Knowing
<1>3. Knowing(pos, n, k)
  BY <1>1, <1>2, KnowingMore DEF Sound, Refreshed
<1>. QED  BY <1>3 DEF Sound, Refreshed, Same, Standing

\* A predecessor.
LEMMA SoundPredecessor ==
    ASSUME NEW pos, NEW n \in Node, NEW h, NEW up, Sound(pos, n, h, up), NEW m \in Node,
           NEW r \in NodeRange, r.min = pos[m], NEW k, WithPredecessor(h, m, r, k)
    PROVE  Sound(pos, n, k, up)
<1>1. Listed(k) \subseteq Listed(h) \cup {m} /\ n \notin Range(k.succ)
  BY DEF WithPredecessor, Listed, Sound, Knowing
<1>2. Knowing(pos, n, k)
  BY <1>1, KnowingMore DEF Sound, WithPredecessor
<1>. QED  BY <1>2 DEF Sound, WithPredecessor, Same, Standing

\* The first successor becomes the only one.
LEMMA SoundOnlySuccessor ==
    ASSUME NEW pos \in Position, NEW n \in Node, NEW h, NEW up \in SUBSET Node, Sound(pos, n, h, up),
           HasSucc(h), NEW m, m = Successor(h), NEW r \in NodeRange, r.min = pos[m],
           NEW k, WithOnlySuccessor(h, m, r, k)
    PROVE  Sound(pos, n, k, up)
<1>1. h.succ \in Seq(Node) /\ m = h.succ[1] /\ m \in Listed(h) /\ m \in Node /\ Listed(h) \in SUBSET Node
      /\ m # n
  BY Firsts, HubIs DEF Sound, Held, Listing, Knowing
<1>2. \A y \in up : ~Nearer(pos, n, y, m)
  BY <1>1, NobodyBefore DEF Sound, HasSucc
<1>3. k.succ = <<m>> /\ Held(k) /\ Same(h, k) /\ k.pred = h.pred /\ k.known[m] = r
      /\ \A o \in Node \ {m} : k.known[o] \in {h.known[o], None}
  BY DEF WithOnlySuccessor
<1>4. Range(<<m>>) = {m} /\ Len(<<m>>) = 1
  BY <1>1 DEF Range
<1>5. InOrder(pos, n, k.succ)
  BY <1>3, <1>4 DEF InOrder
<1>6. NoGap(pos, n, Range(k.succ), up)
  BY <1>2, <1>3, <1>4 DEF NoGap
<1>7. Knowing(pos, n, k)
  <2>1. Listed(k) \subseteq Listed(h)
    BY <1>1, <1>3, <1>4 DEF Listed
  <2>2. \A o \in Listed(k) : k.known[o] # None
    BY <1>3 DEF Held, Listing
  <2>3. \A o \in Listed(k) : o \in Node /\ h.known[o].min = pos[o]
    BY <1>1, <2>1 DEF Sound, Knowing
  <2>4. \A o \in Listed(k) \ {m} : k.known[o] = h.known[o]
    BY <1>3, <2>2, <2>3
  <2>. QED  BY <1>1, <1>3, <1>4, <2>3, <2>4 DEF Knowing
<1>. QED  BY <1>3, <1>5, <1>6, <1>7 DEF Sound, Same, Standing

\* Somebody nearer than the first successor becomes one, or its range is told again.
LEMMA SoundMergeSuccessor ==
    ASSUME NEW pos \in Position, NEW n \in Node, NEW h, NEW up \in SUBSET Node, Sound(pos, n, h, up),
           HasSucc(h), NEW m \in Node, m # n, m = Successor(h) \/ Nearer(pos, n, m, Successor(h)),
           NEW r \in NodeRange, r.min = pos[m]
    PROVE  Sound(pos, n, MergeSuccessor(h, m, r), up)
<1>. DEFINE k == AddSuccessor(h, m, r)
            q == MergeSuccessor(h, m, r)
<1>1. Held(h) /\ h.succ \in Seq(Node) /\ Successor(h) = h.succ[1] /\ Successor(h) \in Node /\ h.succ # <<>>
      /\ Listed(h) \in SUBSET Node /\ Range(h.succ) \in SUBSET Node
      /\ Successor(h) \in Range(h.succ)
  BY Firsts, HubIs DEF Sound, Held, Listing, HasSucc
<1>2. WithSuccessor(h, m, r, k) /\ Reordered(k, q)
  BY <1>1, MergeSuccessorIs
<1>3. q = SortSucc(k)
  BY DEF MergeSuccessor
<1>. HIDE DEF k, q
<1>4. Listed(k) \subseteq Listed(h) \cup {m} /\ Listed(q) = Listed(k)
      /\ n \notin Range(k.succ) /\ Range(q.succ) = Range(k.succ)
  BY <1>2 DEF WithSuccessor, Reordered, Listed, Sound, Knowing
<1>5. Knowing(pos, n, k)
  BY <1>2, <1>4, KnowingMore DEF Sound, WithSuccessor
<1>6. Held(k) /\ Standing(pos, n, k)
  BY <1>2 DEF Sound, WithSuccessor, Same, Standing
<1>7. InOrder(pos, n, q.succ)
  BY <1>3, <1>5, <1>6, SortedByWay
<1>8. NoGap(pos, n, Range(q.succ), up)
  <2>1. Range(q.succ) = Range(h.succ) \cup {m}
    BY <1>2 DEF WithSuccessor, Reordered
  <2>2. ASSUME NEW y \in up, Nearer(pos, n, y, m) PROVE y \in Range(h.succ)
    <3>1. Nearer(pos, n, y, Successor(h))
      <4>0. CASE m = Successor(h)
        BY <2>2, <4>0
      <4>1. pos[n] \in Value /\ pos[y] \in Value /\ pos[m] \in Value /\ pos[Successor(h)] \in Value
        BY <1>1 DEF Position
      <4>2. CASE Nearer(pos, n, m, Successor(h))
        BY <2>2, <4>1, <4>2, RingAssumption DEF Nearer, Way, Value
      <4>. QED  BY <4>0, <4>2
    <3>. QED  BY <1>1, <3>1 DEF Sound, NoGap
  <2>3. \A o \in Range(h.succ), y \in up : Nearer(pos, n, y, o) => y \in Range(h.succ)
    BY DEF Sound, NoGap
  <2>. QED  BY <2>1, <2>2, <2>3 DEF NoGap
<1>9. Held(q) /\ Standing(pos, n, q) /\ q.range = h.range
  BY <1>2, <1>6 DEF Reordered, WithSuccessor, Same, Standing
<1>10. Knowing(pos, n, q)
  BY <1>2, <1>4, <1>5 DEF Reordered, Knowing
<1>. QED  BY <1>7, <1>8, <1>9, <1>10 DEF Sound, q

\* A node stretches its range to the place of its first successor.
LEMMA SoundStretch ==
    ASSUME NEW pos \in Position, NEW n \in Node, NEW h, NEW up \in SUBSET Node, Sound(pos, n, h, up),
           HasSucc(h),
           NEW max, max = IF pos[Successor(h)] = 0 THEN AbsMax ELSE pos[Successor(h)]
    PROVE  Sound(pos, n, Stretch(h, max), up)
<1>. DEFINE s == Successor(h)
            r == [h.range EXCEPT !.max = max]
            k == [h EXCEPT !.range = r]
<1>1. /\ Held(h) /\ h \in Hub /\ h.succ \in Seq(Node) /\ s = h.succ[1] /\ s \in Node /\ s # n
      /\ h.range \in NodeRange /\ h.range.min = pos[n] /\ h.succ # <<>>
  BY Firsts, HubIs DEF Sound, Held, Listing, HasSucc, Standing, Knowing
<1>2. Stretch(h, max) = h \/ Stretch(h, max) = k
  BY DEF Stretch
<1>3. pos[n] \in Value /\ pos[s] \in Value /\ pos[n] # pos[s] /\ Value \in SUBSET (0 .. AbsMax)
      /\ AbsMax \in Nat \ {0}
  BY <1>1, RingAssumption DEF Position, Value
<1>4. \A y \in up : ~Nearer(pos, n, y, s)
  BY <1>1, NobodyBefore DEF Sound
<1>5. r \in NodeRange /\ r.min = pos[n] /\ r.max = max
  BY <1>1, <1>3 DEF NodeRange
<1>6. ASSUME NEW y \in up \ {n} PROVE pos[y] \notin Cells(r)
  <2>1. pos[y] \in Value /\ pos[y] # pos[n]
    BY DEF Position
  <2>2. ~(Way(pos[n], pos[y]) < Way(pos[n], pos[s]))
    BY <1>4 DEF Nearer
  <2>3. Way(pos[n], max) = Way(pos[n], pos[s]) \/ max = pos[n]
    BY <1>3 DEF Way, Value
  <2>. HIDE DEF r, s
  <2>4. pos[y] \in Cells(r) => r.max # r.min /\ Way(r.min, pos[y]) < Way(r.min, r.max)
    BY <1>3, <1>5, <2>1, CellsAre
  <2>. QED  BY <1>5, <2>2, <2>3, <2>4
<1>. HIDE DEF r
<1>7. /\ k \in Hub /\ k.range = r /\ k.succ = h.succ /\ k.pred = h.pred /\ k.known = h.known
      /\ k.status = h.status /\ k.rep = h.rep /\ k.away = h.away
  BY <1>1, <1>5 DEF Hub
<1>. HIDE DEF k
<1>8. Held(k) /\ Listed(k) = Listed(h)
  BY <1>1, <1>7, SameLists DEF Listed
<1>9. Sound(pos, n, k, up)
  BY <1>5, <1>6, <1>7, <1>8 DEF Sound, Standing, Knowing
<1>. QED  BY <1>2, <1>9

\* Those that are dropped from the successors are not up.
LEMMA SoundBereaved ==
    ASSUME NEW pos, NEW n \in Node, NEW h, NEW up, Sound(pos, n, h, up), NEW m, NEW s, NEW p,
           \/ s = h.succ
           \/ m \notin up /\ s = Only(h.succ, Node \ {m}),
           Range(p) \subseteq Range(h.pred), NEW k, Bereaved(h, s, p, k)
    PROVE  Sound(pos, n, k, up)
<1>1. Held(h) /\ h.succ \in Seq(Node) /\ Listed(h) \in SUBSET Node
  BY HubIs DEF Sound, Held, Listing
<1>2. /\ Held(k) /\ k.succ = s /\ k.pred = p /\ k.status \in {h.status, "DEAD"} /\ k.range = h.range
      /\ k.rep = h.rep /\ k.away = h.away
      /\ \A o \in Node : k.known[o] \in {h.known[o], None}
  BY DEF Bereaved
<1>3. Range(s) \subseteq Range(h.succ) /\ InOrder(pos, n, s) /\ NoGap(pos, n, Range(s), up)
  <2>1. CASE s = h.succ
    BY <2>1 DEF Sound
  <2>2. CASE m \notin up /\ s = Only(h.succ, Node \ {m})
    <3>1. s \in Seq(Node) /\ Range(s) = Range(h.succ) \cap (Node \ {m}) /\ InOrderOf(s, h.succ)
      BY <1>1, <2>2, OnlyIs
    <3>2. InOrder(pos, n, s)
      BY <3>1 DEF InOrderOf, InOrder, Sound
    <3>3. Range(h.succ) \in SUBSET Node
      BY <1>1, RangeIs
    <3>4. NoGap(pos, n, Range(s), up)
      BY <2>2, <3>1, <3>3 DEF NoGap, Sound
    <3>. QED  BY <3>1, <3>2, <3>4
  <2>. QED  BY <2>1, <2>2
<1>4. Knowing(pos, n, k)
  <2>1. Listed(k) \subseteq Listed(h)
    BY <1>2, <1>3 DEF Listed
  <2>2. \A o \in Listed(k) : k.known[o] = h.known[o]
    BY <1>1, <1>2, <2>1 DEF Held, Listing
  <2>. QED  BY <1>2, <1>3, <2>1, <2>2 DEF Sound, Knowing
<1>. QED  BY <1>2, <1>3, <1>4 DEF Sound, Standing

\* What m tells of itself and its successors: whoever is up and nearer to it than one it
\* names is named before.
ListTold(pos, m, list, up) ==
    /\ list # <<>> /\ list[1].addr = m
    /\ \A i \in 1 .. Len(list) : list[i].range.min = pos[list[i].addr]
    /\ \A i \in 2 .. Len(list) : \A y \in up :
          Nearer(pos, m, y, list[i].addr) => \E j \in 1 .. i - 1 : list[j].addr = y

\* The list of peers that a node tells others.
LEMMA TellsList ==
    ASSUME NEW pos, NEW n \in Node, NEW h, NEW up, Sound(pos, n, h, up)
    PROVE  ListTold(pos, n, PeerInfoList(n, h.range, h), up)
<1>. DEFINE others == Only(h.succ, Node \ {n})
            list == PeerInfoList(n, h.range, h)
<1>1. Held(h) /\ h.range \in NodeRange /\ h.range.min = pos[n] /\ h.succ \in Seq(Node)
      /\ Listed(h) \in SUBSET Node /\ Range(h.succ) \in SUBSET Node
  BY HubIs DEF Sound, Standing, Held, Listing
<1>2. /\ list \in Seq(Info) /\ Len(list) = Len(others) + 1
      /\ list[1] = [addr |-> n, range |-> h.range]
      /\ \A i \in 1 .. Len(others) : list[i + 1] = [addr |-> others[i], range |-> h.known[others[i]]]
  <2>1. Names(n, h.range, h, others, list)
    BY <1>1, PeerInfoListIs
  <2>. HIDE DEF others, list
  <2>. QED  BY <2>1 DEF Names
<1>3. others \in Seq(Node) /\ Range(others) = Range(h.succ) /\ InOrderOf(others, h.succ)
  <2>1. n \notin Range(h.succ)
    BY DEF Sound, Knowing, Listed
  <2>2. others \in Seq(Node) /\ Range(others) = Range(h.succ) \cap (Node \ {n}) /\ InOrderOf(others, h.succ)
    BY <1>1, OnlyIs
  <2>. QED  BY <1>1, <2>1, <2>2
<1>. HIDE DEF others, list
<1>4. Len(others) \in Nat /\ Range(others) = {others[i] : i \in 1 .. Len(others)}
  BY <1>3, RangeIs
<1>5. \A i \in 1 .. Len(others) : others[i] \in Listed(h) /\ list[i + 1].addr = others[i]
                                  /\ list[i + 1].range.min = pos[others[i]]
  <2>1. \A i \in 1 .. Len(others) : others[i] \in Listed(h)
    BY <1>3, <1>4 DEF Listed
  <2>2. \A i \in 1 .. Len(others) : h.known[others[i]].min = pos[others[i]]
    BY <2>1 DEF Sound, Knowing
  <2>3. ASSUME NEW i \in 1 .. Len(others)
        PROVE  list[i + 1].addr = others[i] /\ list[i + 1].range = h.known[others[i]]
    <3>1. list[i + 1] = [addr |-> others[i], range |-> h.known[others[i]]]
      BY <1>2
    <3>. QED  BY <3>1
  <2>. QED  BY <2>1, <2>2, <2>3
<1>6. ASSUME NEW i \in 1 .. Len(list) PROVE list[i].range.min = pos[list[i].addr]
  <2>1. CASE i = 1
    BY <1>1, <1>2, <2>1
  <2>2. CASE i # 1
    <3>1. i - 1 \in 1 .. Len(others) /\ (i - 1) + 1 = i
      BY <1>2, <1>4, <2>2
    <3>. QED  BY <1>5, <3>1
  <2>. QED  BY <2>1, <2>2
<1>7. ASSUME NEW i \in 2 .. Len(list), NEW y \in up, Nearer(pos, n, y, list[i].addr)
      PROVE  \E j \in 1 .. i - 1 : list[j].addr = y
  <2>1. i - 1 \in 1 .. Len(others) /\ (i - 1) + 1 = i /\ i \in Nat
    BY <1>2, <1>4
  <2>2. list[i].addr = others[i - 1] /\ others[i - 1] \in Range(h.succ)
    BY <1>3, <1>4, <1>5, <2>1
  <2>3. y \in Range(h.succ)
    BY <1>7, <2>2 DEF Sound, NoGap
  <2>4. PICK j \in 1 .. Len(others) : others[j] = y
    BY <1>3, <1>4, <2>3
  <2>5. j < i - 1
    <3>1. SUFFICES ASSUME i - 1 <= j PROVE FALSE
      BY <1>4, <2>1
    <3>2. others[i - 1] = y \/ Nearer(pos, n, others[i - 1], y)
      <4>1. CASE i - 1 = j
        BY <2>4, <4>1
      <4>2. CASE i - 1 # j
        <5>1. PICK a \in 1 .. Len(h.succ), b \in 1 .. Len(h.succ) :
                 a < b /\ h.succ[a] = others[i - 1] /\ h.succ[b] = others[j]
          <6>1. i - 1 < j
            BY <1>4, <2>1, <3>1, <4>2
          <6>. QED  BY <1>3, <2>1, <6>1 DEF InOrderOf
        <5>. QED  BY <2>4, <5>1 DEF Sound, InOrder
      <4>. QED  BY <4>1, <4>2
    <3>3. Way(pos[n], pos[y]) < Way(pos[n], pos[others[i - 1]])
      BY <1>7, <2>2 DEF Nearer
    <3>4. pos[n] \in Int /\ pos[y] \in Int /\ pos[others[i - 1]] \in Int /\ AbsMax \in Int
      <4>1. \A o \in Listed(h) : pos[o] \in Int
        <5>1. \A o \in Listed(h) : h.known[o] \in NodeRange
          BY <1>1, HubIs DEF Held, Listing
        <5>. QED  BY <5>1, RingAssumption DEF Sound, Knowing, NodeRange
      <4>2. y \in Listed(h) /\ others[i - 1] \in Listed(h)
        BY <2>2, <2>3 DEF Listed
      <4>3. pos[n] \in Int /\ AbsMax \in Int
        BY <1>1, RingAssumption DEF NodeRange
      <4>. QED  BY <4>1, <4>2, <4>3
    <3>. QED  BY <3>2, <3>3, <3>4 DEF Nearer, Way
  <2>6. j + 1 \in 1 .. i - 1 /\ list[j + 1].addr = y
    BY <1>4, <1>5, <2>1, <2>4, <2>5
  <2>. QED  BY <2>6
<1>8. list # <<>> /\ list[1].addr = n
  BY <1>2, <1>4
<1>. QED  BY <1>6, <1>7, <1>8 DEF ListTold, list

\* What a node takes of the list of its first successor leaves no gap, whoever it has no
\* room for.
LEMMA SoundMergeSuccessorList ==
    ASSUME NEW pos \in Position, NEW n \in Node, NEW h, NEW up \in SUBSET Node, Sound(pos, n, h, up),
           HasSucc(h), NEW list \in Seq(Info), ListTold(pos, Successor(h), list, up)
    PROVE  Sound(pos, n, MergeSuccessorList(h, n, list), up)
<1>. DEFINE s == Successor(h)
            taken == Taken(n, list)
            named == {taken[i].addr : i \in DOMAIN taken}
            left == Only(h.succ, named)
            k == UnRegister([h EXCEPT !.succ = left])
            l == AddAll(k, taken)
            q == SortSucc(l)
<1>1. /\ Held(h) /\ h.succ \in Seq(Node) /\ s = h.succ[1] /\ s \in Node /\ s # n /\ h.succ # <<>>
      /\ s \in Range(h.succ) /\ Range(h.succ) \in SUBSET Node /\ Listed(h) \in SUBSET Node
  BY Firsts, HubIs DEF Sound, Held, Listing, HasSucc, Knowing
<1>2. Shortened(h, left, h.pred, k) /\ WithSuccessors(k, taken, l) /\ Reordered(l, q)
      /\ MergeSuccessorList(h, n, list) = q
  BY <1>1, MergeSuccessorListIs
<1>3. /\ taken \in Seq(Info) /\ Len(taken) <= Len(list) /\ Len(taken) \in Nat /\ Len(list) \in Nat
      /\ \A i \in 1 .. Len(taken) : taken[i] = list[i] /\ taken[i].addr # n
      /\ \A i \in 1 .. Len(taken) : taken[i].addr \in Node
      /\ DOMAIN taken = 1 .. Len(taken)
  <2>1. /\ taken \in Seq(Info) /\ Len(taken) <= Len(list)
        /\ \A i \in 1 .. Len(taken) : taken[i] = list[i] /\ taken[i].addr # n
    BY TakenIs
  <2>. HIDE DEF taken
  <2>2. \A i \in 1 .. Len(taken) : taken[i].addr \in Node
    <3>1. ASSUME NEW i \in 1 .. Len(taken) PROVE taken[i].addr \in Node
      <4>1. taken[i] \in Info
        BY <2>1
      <4>. QED  BY <4>1 DEF Info
    <3>. QED  BY <3>1
  <2>. QED  BY <2>1, <2>2
<1>4. Filled(k, taken, l)
  BY <1>2, <1>3, AddAllFills DEF Shortened
<1>5. left \in Seq(Node) /\ Range(left) = Range(h.succ) \cap named
  BY <1>1, OnlyIs
<1>. HIDE DEF taken, left, k, l, q
<1>6. k.succ = left /\ k.pred = h.pred /\ Held(k) /\ Same(h, k)
      /\ \A m \in Node : k.known[m] \in {h.known[m], None}
  BY <1>2 DEF Shortened
<1>7. Held(l) /\ Same(k, l) /\ l.pred = k.pred /\ Held(q) /\ Same(l, q) /\ q.known = l.known
      /\ Range(q.succ) = Range(l.succ) /\ Range(q.pred) = Range(l.pred) /\ Listed(q) = Listed(l)
  BY <1>2 DEF WithSuccessors, Reordered, Listed
<1>8. Range(l.succ) \subseteq named /\ named \in SUBSET (Node \ {n})
  <2>1. Range(l.succ) \subseteq Range(left) \cup {taken[i].addr : i \in 1 .. Len(taken)}
    BY <1>2, <1>6 DEF WithSuccessors
  <2>. QED  BY <1>3, <1>5, <2>1
<1>9. Knowing(pos, n, l)
  <2>2. n \notin Range(l.succ)
    BY <1>8
  <2>. SUFFICES ASSUME NEW m \in Listed(l) PROVE l.known[m].min = pos[m]
    BY <2>2 DEF Knowing
  <2>1. m \in Node /\ l.known[m] # None
    BY <1>7, HubIs DEF Held, Listing
  <2>3. CASE l.known[m] = k.known[m]
    <3>1. l.known[m] = h.known[m]
      BY <1>6, <2>1, <2>3
    <3>2. m \in Listed(h)
      BY <1>1, <2>1, <3>1 DEF Held
    <3>. QED  BY <3>1, <3>2 DEF Sound, Knowing
  <2>4. CASE \E i \in 1 .. Len(taken) : taken[i].addr = m /\ l.known[m] = taken[i].range
    <3>1. PICK i \in 1 .. Len(taken) : taken[i].addr = m /\ l.known[m] = taken[i].range
      BY <2>4
    <3>2. i \in 1 .. Len(list) /\ list[i].addr = m /\ l.known[m] = list[i].range
      BY <1>3, <3>1
    <3>. QED  BY <3>2 DEF ListTold
  <2>. QED  BY <1>2, <2>1, <2>3, <2>4 DEF WithSuccessors
<1>10. Standing(pos, n, l) /\ l.range = h.range
  BY <1>6, <1>7 DEF Sound, Same, Standing
<1>11. InOrder(pos, n, q.succ)
  BY <1>7, <1>9, <1>10, SortedByWay DEF q
<1>12. ASSUME NEW m \in Range(l.succ), NEW y \in up, Nearer(pos, n, y, m) PROVE y \in Range(l.succ)
  <2>1. \A z \in up : ~Nearer(pos, n, z, s)
    BY <1>1, NobodyBefore DEF Sound
  <2>2. PICK i \in 1 .. Len(taken) : taken[i].addr = m
    BY <1>3, <1>8
  <2>3. i \in 1 .. Len(list) /\ list[i].addr = m /\ m # n /\ m \in Node
    BY <1>3, <2>2
  <2>4. i # 1 /\ i \in 2 .. Len(list)
    <3>1. list[1].addr = s
      BY DEF ListTold
    <3>2. i # 1
      BY <1>12, <2>1, <2>3, <3>1
    <3>. QED  BY <1>3, <2>3, <3>2
  <2>5. 1 \in 1 .. Len(taken) /\ taken[1].addr = s
    <3>1. 1 \in 1 .. Len(taken)
      BY <1>3, <2>2
    <3>. QED  BY <1>3, <3>1 DEF ListTold
  <2>6. s \in Range(left) /\ s \in Range(l.succ)
    <3>1. s \in named
      BY <1>3, <2>5
    <3>. QED  BY <1>1, <1>4, <1>5, <1>6, <3>1 DEF Filled
  <2>7. CASE y = s
    BY <2>6, <2>7
  <2>8. CASE y # s
    <3>1. Nearer(pos, s, y, m)
      <4>1. pos[n] \in Value /\ pos[s] \in Value /\ pos[y] \in Value /\ pos[m] \in Value /\ pos[y] # pos[s]
        BY <1>1, <2>3, <2>8 DEF Position
      <4>2. ~(Way(pos[n], pos[y]) < Way(pos[n], pos[s])) /\ Way(pos[n], pos[y]) < Way(pos[n], pos[m])
        BY <1>12, <2>1 DEF Nearer
      <4>3. Way(pos[n], pos[s]) < Way(pos[n], pos[y])
        BY <4>1, <4>2, RingAssumption DEF Way, Value
      <4>. QED  BY <4>1, <4>2, <4>3, Further DEF Nearer
    <3>2. PICK j \in 1 .. i - 1 : list[j].addr = y
      BY <2>3, <2>4, <3>1 DEF ListTold
    <3>3. j \in 1 .. Len(taken) /\ j <= i /\ taken[j].addr = y
      BY <1>3, <2>2, <3>2
    <3>4. CASE m \in Range(left)
      <4>1. y \in Range(h.succ)
        BY <1>5, <1>12, <3>4 DEF Sound, NoGap
      <4>2. y \in named
        BY <1>3, <3>3
      <4>. QED  BY <1>4, <1>5, <1>6, <4>1, <4>2 DEF Filled
    <3>5. CASE m \notin Range(left)
      <4>1. PICK a \in 1 .. Len(taken) : taken[a].addr = m /\ \A b \in 1 .. a : taken[b].addr \in Range(l.succ)
        BY <1>4, <1>6, <3>5 DEF Filled
      <4>2. a \in 1 .. Len(list) /\ list[a].addr = m
        BY <1>3, <4>1
      <4>3. a # 1
        BY <1>12, <2>1, <4>2 DEF ListTold
      <4>4. a \in 2 .. Len(list)
        BY <1>3, <4>2, <4>3
      <4>5. PICK b \in 1 .. a - 1 : list[b].addr = y
        BY <3>1, <4>2, <4>4 DEF ListTold
      <4>6. b \in 1 .. a /\ taken[b].addr = y
        BY <1>3, <4>1, <4>5
      <4>. QED  BY <4>1, <4>6
    <3>. QED  BY <3>4, <3>5
  <2>. QED  BY <2>7, <2>8
<1>13. NoGap(pos, n, Range(q.succ), up)
  BY <1>7, <1>12 DEF NoGap
<1>14. Standing(pos, n, q) /\ q.range = h.range /\ Knowing(pos, n, q)
  BY <1>7, <1>9, <1>10 DEF Same, Standing, Knowing
<1>. QED  BY <1>2, <1>7, <1>11, <1>13, <1>14 DEF Sound

\* What datagrams tell: places, that is, and lists without gaps.
Told(pos, d, up) ==
    /\ d.from # d.to /\ d.type # "LINK_BREAK"
    /\ d.type \in {"NOTIFY", "PING", "PONG"} => d.range.min = pos[d.from]
    /\ (d.type = "PRED" /\ d.pred # None) =>
          d.predRange.min = pos[d.pred] /\ d.curRange.min = pos[d.from]
    /\ d.type = "SUCCLIST" => ListTold(pos, d.from, d.list, up)

Up == {n \in Node : Alive(n)}

\* The nodes stay at these places, and nobody sends anything but datagrams.
Laid(pos) ==
    /\ \A n \in Node : Sound(pos, n, hub[n], Up)
    /\ \A d \in udp : Told(pos, d, Up)
    /\ \A p \in Node \X Node : tcp[p] = <<>>

StaticInv ==
    (budget.static /\ budget.apart) => budget.leave = 0 /\ \E pos \in Position : Laid(pos)

\* What was told stays true when fewer are up.
LEMMA ToldWithFewer ==
    ASSUME NEW pos, NEW d, NEW up, NEW less \in SUBSET up, Told(pos, d, up)
    PROVE  Told(pos, d, less)
BY DEF Told, ListTold

\* A step that leaves a node sound, and sends what is true.
LEMMA LaidStep ==
    ASSUME TypeInv, NEW pos, Laid(pos), NEW n \in Node, NEW k, Sound(pos, n, k, Up),
           k.status \in {hub[n].status, "DEAD"}, hub' = [hub EXCEPT ![n] = k],
           NEW taken, NEW sent, Datagrams(taken, sent), \A d \in sent : Told(pos, d, Up),
           UNCHANGED tcp
    PROVE  Laid(pos)'
<1>1. \A m \in Node : hub'[m] = IF m = n THEN k ELSE hub[m]
  BY DEF TypeInv
<1>2. Up' \in SUBSET Up
  BY <1>1 DEF Up, Alive
<1>3. ASSUME NEW m \in Node PROVE Sound(pos, m, hub'[m], Up')
  <2>1. Sound(pos, m, hub'[m], Up)
    BY <1>1 DEF Laid
  <2>. QED  BY <1>2, <2>1, SoundWithFewer
<1>4. ASSUME NEW d \in udp' PROVE Told(pos, d, Up')
  <2>1. Told(pos, d, Up)
    BY DEF Datagrams, Laid
  <2>. QED  BY <1>2, <2>1, ToldWithFewer
<1>. QED  BY <1>3, <1>4 DEF Laid

\* A step that leaves a node sound, and sends nothing.
LEMMA LaidQuiet ==
    ASSUME TypeInv, NEW pos, Laid(pos), NEW n \in Node, NEW k, Sound(pos, n, k, Up),
           k.status \in {hub[n].status, "DEAD"}, hub' = [hub EXCEPT ![n] = k],
           udp' \subseteq udp, UNCHANGED tcp
    PROVE  Laid(pos)'
<1>1. \A d \in udp' : Told(pos, d, Up)
  BY DEF Laid
<1>2. \A m \in Node : hub'[m] = IF m = n THEN k ELSE hub[m]
  BY DEF TypeInv
<1>3. Up' \in SUBSET Up
  BY <1>2 DEF Up, Alive
<1>4. ASSUME NEW m \in Node PROVE Sound(pos, m, hub'[m], Up')
  <2>1. Sound(pos, m, hub'[m], Up)
    BY <1>2 DEF Laid
  <2>. QED  BY <1>3, <2>1, SoundWithFewer
<1>5. ASSUME NEW d \in udp' PROVE Told(pos, d, Up')
  BY <1>1, <1>3, ToldWithFewer
<1>. QED  BY <1>4, <1>5 DEF Laid

\* A step that changes no node, and sends what is true.
LEMMA LaidSent ==
    ASSUME NEW pos, Laid(pos), UNCHANGED <<hub, tcp>>,
           NEW taken, NEW sent, Datagrams(taken, sent), \A d \in sent : Told(pos, d, Up)
    PROVE  Laid(pos)'
<1>1. Up' = Up
  BY DEF Up, Alive
<1>2. ASSUME NEW d \in udp' PROVE Told(pos, d, Up)
  BY DEF Datagrams, Laid
<1>. QED  BY <1>1, <1>2 DEF Laid

\* Messages about a node's own range are true.
LEMMA HeartBeatTold ==
    ASSUME NEW pos, NEW n \in Node, NEW m, m # n, NEW r, r.min = pos[n], NEW up,
           NEW t \in {"NOTIFY", "PING", "PONG"}
    PROVE  Told(pos, HeartBeat(t, n, m, r), up)
BY DEF Told, HeartBeat

\* Each action keeps the nodes at their places.  Requests tell nothing.
LEMMA LaidMaintenance ==
    ASSUME TypeInv, NEW pos, Laid(pos), NEW n \in Node, DoSuccListMaintenance(n)
    PROVE  Laid(pos)'
<1>. DEFINE h == hub[n]
            sent == {Datagram("GET_PRED", n, Successor(h)), Datagram("GET_SUCCLIST", n, Successor(h))}
<1>1. Datagrams({}, sent) /\ UNCHANGED <<hub, tcp>> /\ Successor(h) # n
  BY DEF DoSuccListMaintenance
<1>2. \A d \in sent : Told(pos, d, Up)
  BY <1>1 DEF Datagram, Told
<1>. HIDE DEF sent
<1>. QED  BY <1>1, <1>2, LaidSent

\* The answer tells the places of its sender and of a predecessor.
LEMMA LaidGetPred ==
    ASSUME TypeInv, NEW pos, Laid(pos), NEW d \in udp, HandleGetPred(d)
    PROVE  Laid(pos)'
<1>. DEFINE h == hub[d.to]
            sent == IF h.status = "JOINED" THEN {Pred(d.to, d.from, h)} ELSE {}
<1>1. Datagrams({d}, sent) /\ UNCHANGED <<hub, tcp>>
  BY DEF HandleGetPred
<1>2. d.from \in Node /\ d.to \in Node /\ d.from # d.to
  BY DatagramIs DEF TypeInv, Laid, Told
<1>3. Sound(pos, d.to, h, Up) /\ Held(h)
  BY <1>2 DEF Laid, Sound
<1>4. Told(pos, Pred(d.to, d.from, h), Up)
  <2>1. CASE HasPred(h)
    <3>1. h.known[Predecessor(h)].min = pos[Predecessor(h)] /\ h.range.min = pos[d.to]
      BY <1>3, <2>1, Firsts DEF Sound, Knowing, Standing
    <3>2. Pred(d.to, d.from, h) = [type |-> "PRED", from |-> d.to, to |-> d.from, pred |-> Predecessor(h),
                                   predRange |-> h.known[Predecessor(h)], curRange |-> h.range]
      BY <2>1 DEF Pred
    <3>. QED  BY <1>2, <3>1, <3>2 DEF Told
  <2>2. CASE ~HasPred(h)
    <3>1. Pred(d.to, d.from, h) = [type |-> "PRED", from |-> d.to, to |-> d.from, pred |-> None,
                                   predRange |-> None, curRange |-> None]
      BY <2>2 DEF Pred
    <3>. QED  BY <1>2, <3>1 DEF Told
  <2>. QED  BY <2>1, <2>2
<1>5. \A e \in sent : Told(pos, e, Up)
  BY <1>4
<1>. HIDE DEF sent
<1>. QED  BY <1>1, <1>5, LaidSent

\* A list that is told is as free of gaps as the sender's.
LEMMA LaidGetSuccList ==
    ASSUME TypeInv, NEW pos, Laid(pos), NEW d \in udp, HandleGetSuccList(d)
    PROVE  Laid(pos)'
<1>. DEFINE h == hub[d.to]
            list == PeerInfoList(d.to, h.range, h)
            sent == IF h.status = "JOINED" /\ HasPred(h) /\ Predecessor(h) = d.from
                    THEN {SuccessorList(d.to, d.from, list)} ELSE {}
<1>1. Datagrams({d}, sent) /\ UNCHANGED <<hub, tcp>>
  BY DEF HandleGetSuccList
<1>2. d.from \in Node /\ d.to \in Node /\ d.from # d.to
  BY DatagramIs DEF TypeInv, Laid, Told
<1>3. Sound(pos, d.to, h, Up)
  BY <1>2 DEF Laid
<1>4. ListTold(pos, d.to, list, Up)
  BY <1>2, <1>3, TellsList
<1>. HIDE DEF list
<1>5. Told(pos, SuccessorList(d.to, d.from, list), Up)
  BY <1>2, <1>4 DEF Told, SuccessorList
<1>6. \A e \in sent : Told(pos, e, Up)
  BY <1>5
<1>. HIDE DEF sent
<1>. QED  BY <1>1, <1>6, LaidSent

\* Nobody alive is before the first successor, so the range may grow up to it; whoever is named
\* and nearer is dead by now, and comes in as the first one without leaving a gap.
LEMMA LaidPred ==
    ASSUME TypeInv, NEW pos \in Position, Laid(pos), NEW d \in udp, d.type = "PRED", HandlePred(d)
    PROVE  Laid(pos)'
<1>. DEFINE n == d.to
            h == hub[n]
            k == [h EXCEPT !.known[d.from] = d.curRange]
            newmax == IF d.curRange.min = 0 THEN AbsMax ELSE d.curRange.min
            l == Stretch(k, newmax)
            merged == MergeSuccessor(k, d.pred, d.predRange)
<1>1. d \in DatagramMessage /\ d.from \in Node /\ n \in Node /\ d.from # n /\ Told(pos, d, Up)
  BY DatagramIs DEF TypeInv, Laid, Told
<1>2. Sound(pos, n, h, Up) /\ Held(h) /\ h.range.min = pos[n] /\ Up \in SUBSET Node
  BY <1>1 DEF Laid, Sound, Standing, Up
<1>3. UNCHANGED tcp
  BY DEF HandlePred
<1>4. ASSUME NEW m \in Node, m # n PROVE Told(pos, Notify(n, m, h.range), Up)
  BY <1>1, <1>2, <1>4, HeartBeatTold DEF Notify
<1>5. ASSUME HasSucc(h), Successor(h) = d.from, d.pred # None
      PROVE  /\ Sound(pos, n, k, Up) /\ k.status = h.status /\ k.succ = h.succ
             /\ d.pred \in Node /\ d.predRange \in NodeRange /\ d.predRange.min = pos[d.pred]
             /\ d.curRange.min = pos[d.from]
  <2>1. d.pred \in Node /\ d.predRange \in NodeRange /\ d.curRange \in NodeRange
    BY <1>1, <1>5, DatagramIs
  <2>2. d.predRange.min = pos[d.pred] /\ d.curRange.min = pos[d.from]
    BY <1>1, <1>5 DEF Told
  <2>3. d.from \in Listed(h)
    BY <1>2, <1>5, Firsts
  <2>4. Refreshed(h, d.from, d.curRange, k)
    BY <1>2, <2>1, <2>3, RefreshedIs
  <2>. HIDE DEF k
  <2>5. Sound(pos, n, k, Up)
    BY <1>1, <1>2, <2>1, <2>2, <2>3, <2>4, SoundRefreshed
  <2>. QED  BY <2>1, <2>2, <2>4, <2>5 DEF Refreshed, Same
<1>. HIDE DEF k
<1>6. CASE Datagrams({d}, {}) /\ UNCHANGED hub
  BY <1>3, <1>6, LaidSent
<1>7. CASE HasSucc(h) /\ Datagrams({d}, {Notify(n, d.from, h.range)}) /\ UNCHANGED hub
  <2>1. \A e \in {Notify(n, d.from, h.range)} : Told(pos, e, Up)
    BY <1>1, <1>4
  <2>. QED  BY <1>3, <1>7, <2>1, LaidSent
<1>8. CASE /\ HasSucc(h) /\ Successor(h) = d.from /\ d.pred = n
           /\ hub' = [hub EXCEPT ![n] = l] /\ Datagrams({d}, {})
  <2>1. n # None
    BY <1>1, RingAssumption
  <2>2. Sound(pos, n, k, Up) /\ k.succ = h.succ /\ k.status = h.status /\ d.curRange.min = pos[d.from]
    BY <1>5, <1>8, <2>1
  <2>3. HasSucc(k) /\ Successor(k) = d.from
    BY <1>8, <2>2 DEF HasSucc, Successor
  <2>4. newmax = IF pos[Successor(k)] = 0 THEN AbsMax ELSE pos[Successor(k)]
    BY <2>2, <2>3
  <2>. HIDE DEF newmax
  <2>5. Sound(pos, n, l, Up)
    BY <1>1, <1>2, <2>2, <2>3, <2>4, SoundStretch
  <2>6. l.status = h.status
    <3>1. k \in Hub
      BY <2>2 DEF Sound, Held, Listing
    <3>. QED  BY <2>2, <3>1 DEF Stretch, Hub
  <2>. HIDE DEF l
  <2>7. udp' \subseteq udp
    BY <1>8 DEF Datagrams
  <2>. QED  BY <1>1, <1>3, <1>8, <2>5, <2>6, <2>7, LaidQuiet
<1>9. CASE /\ HasSucc(h) /\ Successor(h) = d.from /\ d.pred \notin {None, n}
           /\ IsBetweenRightInclusive(d.predRange.min, h.range.min, d.curRange.min)
           /\ hub' = [hub EXCEPT ![n] = merged]
           /\ Datagrams({d}, {Notify(n, Successor(merged), h.range)})
  <2>1. /\ Sound(pos, n, k, Up) /\ k.succ = h.succ /\ k.status = h.status
        /\ d.pred \in Node /\ d.predRange \in NodeRange /\ d.predRange.min = pos[d.pred]
        /\ d.curRange.min = pos[d.from]
    BY <1>5, <1>9
  <2>2. HasSucc(k) /\ Successor(k) = d.from
    BY <1>9, <2>1 DEF HasSucc, Successor
  <2>3. d.pred = d.from \/ Nearer(pos, n, d.pred, d.from)
    <3>. SUFFICES ASSUME d.pred # d.from PROVE Nearer(pos, n, d.pred, d.from)
      OBVIOUS
    <3>1. /\ pos[n] \in Value /\ pos[d.pred] \in Value /\ pos[d.from] \in Value
          /\ pos[d.pred] # pos[n] /\ pos[d.pred] # pos[d.from] /\ pos[n] # pos[d.from]
      BY <1>1, <1>9, <2>1 DEF Position
    <3>2. IsBetweenRightInclusive(pos[d.pred], pos[n], pos[d.from])
      BY <1>2, <1>9, <2>1
    <3>. QED  BY <3>1, <3>2, BetweenIs DEF Nearer
  <2>4. Sound(pos, n, merged, Up)
    BY <1>1, <1>2, <1>9, <2>1, <2>2, <2>3, SoundMergeSuccessor
  <2>5. merged.status = h.status /\ HasSucc(merged)
    <3>. DEFINE q == AddSuccessor(k, d.pred, d.predRange)
    <3>. HIDE DEF q, merged
    <3>1. Held(k)
      BY <2>1 DEF Sound
    <3>2. WithSuccessor(k, d.pred, d.predRange, q) /\ Reordered(q, merged)
      BY <2>1, <3>1, MergeSuccessorIs DEF q, merged
    <3>3. d.pred \in Range(merged.succ) /\ merged.status = k.status
      BY <3>2 DEF WithSuccessor, Reordered, Same
    <3>. QED  BY <2>1, <3>3, OfNobody DEF HasSucc
  <2>. HIDE DEF merged
  <2>6. Successor(merged) \in Node /\ Successor(merged) # n
    BY <2>4, <2>5, Firsts DEF Sound, Knowing
  <2>7. \A e \in {Notify(n, Successor(merged), h.range)} : Told(pos, e, Up)
    BY <1>4, <2>6
  <2>. QED  BY <1>1, <1>3, <1>9, <2>4, <2>5, <2>7, LaidStep
<1>10. CASE /\ HasSucc(h) /\ Successor(h) = d.from /\ d.pred # None
            /\ hub' = [hub EXCEPT ![n] = k]
            /\ Datagrams({d}, {Notify(n, d.from, h.range)})
  <2>1. Sound(pos, n, k, Up) /\ k.status = h.status
    BY <1>5, <1>10
  <2>2. \A e \in {Notify(n, d.from, h.range)} : Told(pos, e, Up)
    BY <1>1, <1>4
  <2>. QED  BY <1>1, <1>3, <1>10, <2>1, <2>2, LaidStep
<1>. QED  BY <1>6, <1>7, <1>8, <1>9, <1>10 DEF HandlePred, k

\* The list of the first successor leaves no gap behind it, so neither does what it is merged to.
LEMMA LaidSuccList ==
    ASSUME TypeInv, NEW pos \in Position, Laid(pos), NEW d \in udp, d.type = "SUCCLIST",
           Alive(d.to), HandleSuccList(d)
    PROVE  Laid(pos)'
<1>. DEFINE n == d.to
            h == hub[n]
            q == MergeSuccessorList(h, n, d.list)
<1>1. /\ d.from \in Node /\ n \in Node /\ d.list \in Seq(Info) /\ ListTold(pos, d.from, d.list, Up)
      /\ Up \in SUBSET Node
  BY DatagramIs DEF TypeInv, Laid, Told, Up
<1>2. Sound(pos, n, h, Up) /\ Held(h)
  BY <1>1 DEF Laid, Sound
<1>3. Datagrams({d}, {}) /\ udp' \subseteq udp /\ UNCHANGED tcp
  BY DEF HandleSuccList, Datagrams
<1>4. CASE UNCHANGED hub
  BY <1>3, <1>4, LaidSent
<1>5. CASE HasSucc(h) /\ Successor(h) = d.from /\ hub' = [hub EXCEPT ![n] = q]
  <2>1. ListTold(pos, Successor(h), d.list, Up)
    BY <1>1, <1>5
  <2>2. Sound(pos, n, q, Up)
    BY <1>1, <1>2, <1>5, <2>1, SoundMergeSuccessorList
  <2>3. q.status \in {h.status, "DEAD"}
    BY <1>2, <2>2 DEF Sound, Standing, Alive
  <2>. HIDE DEF q
  <2>. QED  BY <1>1, <1>3, <1>5, <2>2, <2>3, LaidQuiet
<1>. QED  BY <1>4, <1>5 DEF HandleSuccList

\* A closer predecessor comes in; who becomes the only successor was the first one already.
LEMMA LaidNotify ==
    ASSUME TypeInv, NEW pos \in Position, Laid(pos), NEW d \in udp, d.type = "NOTIFY",
           HandleNotifySuccessor(d)
    PROVE  Laid(pos)'
<1>. DEFINE n == d.to
            h == hub[n]
            k == SetPredecessor(h, d.from, d.range)
            l == [h EXCEPT !.known[d.from] = d.range]
            q == SetSuccessor(k, d.from, d.range)
<1>1. /\ d.from \in Node /\ n \in Node /\ d.range \in NodeRange /\ d.range.min = pos[d.from]
      /\ d.from # n /\ Up \in SUBSET Node
  BY DatagramIs DEF TypeInv, Laid, Told, Up
<1>2. Sound(pos, n, h, Up) /\ Held(h)
  BY <1>1 DEF Laid, Sound
<1>3. Datagrams({d}, {}) /\ udp' \subseteq udp /\ UNCHANGED tcp
  BY DEF HandleNotifySuccessor, Datagrams
<1>4. CASE hub' = [hub EXCEPT ![n] = h]
  BY <1>1, <1>2, <1>3, <1>4, LaidQuiet
<1>5. WithPredecessor(h, d.from, d.range, k)
  BY <1>1, <1>2, SetPredecessorIs
<1>. HIDE DEF k
<1>6. Sound(pos, n, k, Up) /\ k.status = h.status /\ Held(k)
  BY <1>1, <1>2, <1>5, SoundPredecessor DEF WithPredecessor, Same
<1>7. CASE hub' = [hub EXCEPT ![n] = k]
  BY <1>1, <1>3, <1>6, <1>7, LaidQuiet
<1>8. CASE HasPred(h) /\ Predecessor(h) = d.from /\ hub' = [hub EXCEPT ![n] = l]
  <2>1. d.from \in Listed(h)
    BY <1>2, <1>8, Firsts
  <2>2. Refreshed(h, d.from, d.range, l)
    BY <1>1, <1>2, <2>1, RefreshedIs
  <2>. HIDE DEF l
  <2>3. Sound(pos, n, l, Up) /\ l.status = h.status
    BY <1>1, <1>2, <2>1, <2>2, SoundRefreshed DEF Refreshed, Same
  <2>. QED  BY <1>1, <1>3, <1>8, <2>3, LaidQuiet
<1>9. CASE HasSucc(k) /\ Successor(k) = d.from /\ hub' = [hub EXCEPT ![n] = q]
  <2>1. WithOnlySuccessor(k, d.from, d.range, q)
    BY <1>1, <1>6, SetSuccessorIs
  <2>. HIDE DEF q
  <2>2. Sound(pos, n, q, Up)
    BY <1>1, <1>6, <1>9, <2>1, SoundOnlySuccessor
  <2>3. q.status = h.status
    BY <1>6, <2>1 DEF WithOnlySuccessor, Same
  <2>. QED  BY <1>1, <1>3, <1>9, <2>2, <2>3, LaidQuiet
<1>. QED  BY <1>4, <1>7, <1>8, <1>9 DEF HandleNotifySuccessor, k

\* A ping tells the place of its sender.
LEMMA LaidSendPing ==
    ASSUME TypeInv, NEW pos \in Position, Laid(pos), NEW n \in Node, NEW m \in Node,
           SendLivenessPing(n, m)
    PROVE  Laid(pos)'
<1>. DEFINE e == HeartBeat("PING", n, m, hub[n].range)
<1>1. Datagrams({}, {e}) /\ UNCHANGED <<hub, tcp>> /\ m # n
  BY DEF SendLivenessPing
<1>2. hub[n].range.min = pos[n]
  BY DEF Laid, Sound, Standing
<1>3. Told(pos, e, Up)
  BY <1>1, <1>2, HeartBeatTold
<1>. HIDE DEF e
<1>4. \A f \in {e} : Told(pos, f, Up)
  BY <1>3
<1>. QED  BY <1>1, <1>4, LaidSent

\* So does a pong; predecessors may come in anywhere.
LEMMA LaidPing ==
    ASSUME TypeInv, NEW pos \in Position, Laid(pos), NEW d \in udp, d.type = "PING",
           HandleLivenessPing(d)
    PROVE  Laid(pos)'
<1>. DEFINE n == d.to
            h == hub[n]
            q == AddPredecessor(h, d.from, d.range)
            k == IF HasPred(h) THEN q ELSE h
            e == HeartBeat("PONG", d.to, d.from, k.range)
            sent == IF Contains(k.pred, d.from) THEN {e} ELSE {}
<1>1. /\ d.from \in Node /\ n \in Node /\ d.range \in NodeRange /\ d.range.min = pos[d.from]
      /\ d.from # n /\ Up \in SUBSET Node
  BY DatagramIs DEF TypeInv, Laid, Told, Up
<1>2. Sound(pos, n, h, Up) /\ Held(h)
  BY <1>1 DEF Laid, Sound
<1>3. UNCHANGED tcp /\ Datagrams({d}, sent) /\ hub' = [hub EXCEPT ![n] = k]
  BY DEF HandleLivenessPing
<1>4. WithPredecessor(h, d.from, d.range, q)
  BY <1>1, <1>2, AddPredecessorIs
<1>. HIDE DEF q
<1>5. Sound(pos, n, q, Up) /\ q.status = h.status
  BY <1>1, <1>2, <1>4, SoundPredecessor DEF WithPredecessor, Same
<1>6. Sound(pos, n, k, Up) /\ k.status = h.status
  BY <1>2, <1>5
<1>. HIDE DEF k
<1>7. Told(pos, e, Up)
  <2>1. k.range.min = pos[n]
    BY <1>6 DEF Sound, Standing
  <2>. QED  BY <1>1, <2>1, HeartBeatTold
<1>. HIDE DEF e
<1>8. \A f \in sent : Told(pos, f, Up)
  BY <1>7
<1>. HIDE DEF sent
<1>. QED  BY <1>1, <1>3, <1>6, <1>8, LaidStep

\* The place that is told is the one that is known, so nobody has moved and nobody goes.
LEMMA LaidPong ==
    ASSUME TypeInv, NEW pos \in Position, Laid(pos), NEW d \in udp, d.type = "PONG",
           HandleLivenessPong(d)
    PROVE  Laid(pos)'
<1>. DEFINE n == d.to
            h == hub[n]
            l == [h EXCEPT !.known[d.from] = d.range]
<1>1. /\ d.from \in Node /\ n \in Node /\ d.range \in NodeRange /\ d.range.min = pos[d.from]
      /\ d.from # n /\ Up \in SUBSET Node
  BY DatagramIs DEF TypeInv, Laid, Told, Up
<1>2. Sound(pos, n, h, Up) /\ Held(h)
  BY <1>1 DEF Laid, Sound
<1>3. Datagrams({d}, {}) /\ udp' \subseteq udp /\ UNCHANGED tcp
  BY DEF HandleLivenessPong, Datagrams
<1>4. CASE d.from \notin Listed(h)
  <2>1. hub' = [hub EXCEPT ![n] = h]
    BY <1>4 DEF HandleLivenessPong
  <2>. QED  BY <1>1, <1>2, <1>3, <2>1, LaidQuiet
<1>5. CASE d.from \in Listed(h)
  <2>1. d.range # None /\ d.range.min = h.known[d.from].min
    BY <1>1, <1>2, <1>5, RingAssumption DEF Sound, Knowing
  <2>2. hub' = [hub EXCEPT ![n] = l] \/ hub' = [hub EXCEPT ![n] = h]
    BY <1>5, <2>1 DEF HandleLivenessPong
  <2>3. Refreshed(h, d.from, d.range, l)
    BY <1>1, <1>2, <1>5, RefreshedIs
  <2>. HIDE DEF l
  <2>4. Sound(pos, n, l, Up) /\ l.status = h.status
    BY <1>1, <1>2, <1>5, <2>3, SoundRefreshed DEF Refreshed, Same
  <2>5. \E k \in {h, l} : hub' = [hub EXCEPT ![n] = k]
    BY <2>2
  <2>. QED  BY <1>1, <1>2, <1>3, <2>4, <2>5, LaidQuiet
<1>. QED  BY <1>4, <1>5

\* Who goes from the successors is dead, so nobody alive is missing.
LEMMA LaidCheckLiveness ==
    ASSUME TypeInv, NEW pos \in Position, Laid(pos), NEW n \in Node, NEW m \in Node, CheckLiveness(n, m)
    PROVE  Laid(pos)'
<1>. DEFINE h == hub[n]
            lostSucc == Contains(h.succ, m) /\ ~Alive(m)
            lostPred == Contains(h.pred, m) /\ (~Alive(m) \/ ~Contains(hub[m].succ, n))
            s == IF lostSucc THEN Only(h.succ, Node \ {m}) ELSE h.succ
            p == IF lostPred THEN Only(h.pred, Node \ {m}) ELSE h.pred
            k == UnRegister([h EXCEPT !.succ = s, !.pred = p])
            l == OrDie(k)
<1>1. Held(h) /\ Sound(pos, n, h, Up) /\ h.succ \in Seq(Node) /\ h.pred \in Seq(Node)
      /\ IsInjective(h.succ) /\ IsInjective(h.pred)
  BY HubIs DEF TypeInv, Laid, Held, Listing
<1>2. hub' = [hub EXCEPT ![n] = l] /\ UNCHANGED <<udp, tcp>>
  BY DEF CheckLiveness
<1>3. s \in Seq(Node) /\ Range(s) \subseteq Range(h.succ) /\ IsInjective(s)
  BY <1>1, OnlyIs
<1>4. p \in Seq(Node) /\ Range(p) \subseteq Range(h.pred) /\ IsInjective(p)
  BY <1>1, OnlyIs
<1>5. s = h.succ \/ (m \notin Up /\ s = Only(h.succ, Node \ {m}))
  BY DEF Up
<1>. HIDE DEF s, p
<1>6. Shortened(h, s, p, k)
  BY <1>1, <1>3, <1>4, WithLists
<1>. HIDE DEF k
<1>7. Bereaved(h, s, p, l)
  BY <1>1, <1>6, OrDieIs
<1>. HIDE DEF l
<1>8. Sound(pos, n, l, Up)
  BY <1>1, <1>4, <1>5, <1>7, SoundBereaved
<1>9. udp' \subseteq udp
  BY <1>2
<1>10. l.status \in {h.status, "DEAD"}
  BY <1>7 DEF Bereaved
<1>. QED  BY <1>2, <1>8, <1>9, <1>10, LaidQuiet

\* Who was answered has nothing to do with places.
LEMMA LaidForgetJoin ==
    ASSUME TypeInv, NEW pos \in Position, Laid(pos), NEW n \in Node, NEW m \in Node, ForgetJoin(n, m)
    PROVE  Laid(pos)'
<1>. DEFINE h == hub[n]
            k == [h EXCEPT !.answered = @ \ {m}]
<1>1. h \in Hub /\ Held(h) /\ Sound(pos, n, h, Up)
  BY DEF TypeInv, Held, Listing, Laid
<1>2. hub' = [hub EXCEPT ![n] = k] /\ UNCHANGED <<udp, tcp>>
  <2>1. hub' = [hub EXCEPT ![n].answered = @ \ {m}] /\ UNCHANGED <<udp, tcp>>
    BY DEF ForgetJoin
  <2>. QED  BY <2>1
<1>3. /\ k \in Hub /\ k.succ = h.succ /\ k.pred = h.pred /\ k.known = h.known
      /\ k.range = h.range /\ k.status = h.status /\ k.rep = h.rep /\ k.away = h.away
  BY <1>1 DEF Hub
<1>. HIDE DEF k
<1>4. Sound(pos, n, k, Up)
  <2>1. Held(k) /\ Listed(k) = Listed(h)
    BY <1>1, <1>3, SameLists DEF Listed
  <2>. QED  BY <1>1, <1>3, <2>1 DEF Sound, Standing, Knowing
<1>5. udp' \subseteq udp
  BY <1>2
<1>. QED  BY <1>2, <1>3, <1>4, <1>5, LaidQuiet

\* Nobody gets up again: the fewer are alive, the fewer may be missing on a list.
LEMMA LaidFaults ==
    ASSUME TypeInv, NEW pos \in Position, Laid(pos), NEW n \in Node, NEW d, Lose(d) \/ Crash(n) \/ Discard(n)
    PROVE  Laid(pos)'
<1>1. CASE Lose(d)
  <2>1. Datagrams({d}, {})
    BY <1>1 DEF Lose
  <2>. QED  BY <1>1, <2>1, LaidSent DEF Lose
<1>2. CASE Crash(n)
  <2>. DEFINE h == hub[n]
              k == [h EXCEPT !.status = "DEAD"]
  <2>1. hub' = [hub EXCEPT ![n] = k] /\ UNCHANGED <<udp, tcp>>
    <3>1. hub' = [hub EXCEPT ![n].status = "DEAD"]
      BY <1>2 DEF Crash
    <3>. QED  BY <1>2, <3>1 DEF Crash
  <2>2. h \in Hub /\ Held(h) /\ Sound(pos, n, h, Up)
    BY DEF TypeInv, Held, Listing, Laid
  <2>3. /\ k \in Hub /\ k.succ = h.succ /\ k.pred = h.pred /\ k.known = h.known
        /\ k.range = h.range /\ k.status = "DEAD" /\ k.rep = h.rep /\ k.away = h.away
    BY <2>2 DEF Hub, Status
  <2>. HIDE DEF k
  <2>4. Sound(pos, n, k, Up)
    <3>1. Held(k) /\ Listed(k) = Listed(h)
      BY <2>2, <2>3, SameLists DEF Listed
    <3>. QED  BY <2>2, <2>3, <3>1 DEF Sound, Standing, Knowing
  <2>5. udp' \subseteq udp
    BY <2>1
  <2>. QED  BY <2>1, <2>3, <2>4, <2>5, LaidQuiet
<1>3. CASE Discard(n)
  <2>1. Up' = Up /\ UNCHANGED hub
    BY <1>3 DEF Discard, Up, Alive
  <2>2. udp' \subseteq udp
    BY <1>3 DEF Discard
  <2>3. \A q \in Node \X Node : tcp'[q] = <<>>
    BY <1>3 DEF Discard, Laid
  <2>. QED  BY <2>1, <2>2, <2>3 DEF Laid
<1>. QED  BY <1>1, <1>2, <1>3

\* What kind of ring it is stays as it was, and nobody may leave who might not before.
SameKind ==
    /\ budget'.static = budget.static /\ budget'.apart = budget.apart
    /\ budget.leave = 0 => budget'.leave = 0

\* No step changes what kind of ring it is.
LEMMA KindStays == TypeInv /\ [Next]_vars => SameKind
<1>. SUFFICES ASSUME TypeInv, [Next]_vars PROVE SameKind
  OBVIOUS
<1>1. budget \in Budget
  BY DEF TypeInv
<1>2. CASE UNCHANGED budget
  BY <1>2 DEF SameKind
<1>3. ASSUME NEW n \in Node, NEW m \in Node, Receive(m, n) PROVE SameKind
  <2>. DEFINE msg == Head(tcp[<<m, n>>])
  <2>1. tcp[<<m, n>>] # <<>> /\ tcp[<<m, n>>] \in Seq(Message)
    BY <1>3 DEF Receive, TypeInv
  <2>2. msg.type \in {"JOIN_REQUEST", "AM_UNJOINED", "JOIN_RESPONSE", "LEAVE"}
    BY <2>1, MessageIs
  <2>3. \/ HandleJoinRequest(n, m) \/ HandleJoinResponse(n, m, msg)
        \/ HandleAmUnjoined(n, m) \/ HandleLeaveNotification(n, m, msg)
    BY <1>3, <2>2 DEF Receive
  <2>. HIDE DEF msg
  <2>4. UNCHANGED budget
    BY <2>3 DEF HandleJoinRequest, HandleJoinResponse, HandleAmUnjoined, HandleLeaveNotification
  <2>. QED  BY <1>2, <2>4
<1>4. ASSUME NEW d \in udp, Deliver(d) PROVE SameKind
  <2>1. d.type \in {"GET_PRED", "GET_SUCCLIST", "LINK_BREAK", "PRED", "SUCCLIST", "NOTIFY", "PING", "PONG"}
    BY DatagramIs DEF TypeInv
  <2>2. \/ HandleGetPred(d) \/ HandleGetSuccList(d) \/ HandleLinkBreak(d) \/ HandlePred(d) \/ HandleSuccList(d)
        \/ HandleNotifySuccessor(d) \/ HandleLivenessPing(d) \/ HandleLivenessPong(d)
    BY <1>4, <2>1 DEF Deliver
  <2>3. UNCHANGED budget
    BY <2>2 DEF HandleGetPred, HandleGetSuccList, HandleLinkBreak, HandlePred, HandleSuccList,
                HandleNotifySuccessor, HandleLivenessPing, HandleLivenessPong
  <2>. QED  BY <1>2, <2>3
<1>5. ASSUME NEW d, Lose(d) PROVE SameKind
  BY <1>1, <1>5 DEF Lose, Budget, SameKind
<1>6. ASSUME NEW n \in Node, Crash(n) PROVE SameKind
  BY <1>1, <1>6 DEF Crash, Budget, SameKind
<1>7. ASSUME NEW n \in Node, NEW m \in Node, SendLivenessPing(n, m) PROVE SameKind
  BY <1>1, <1>7 DEF SendLivenessPing, Budget, SameKind
<1>8. ASSUME NEW n \in Node, NEW m \in Node, DoLeaveJoin(n, m) PROVE SameKind
  <2>1. budget.leave > 0 /\ budget' = [budget EXCEPT !.leave = @ - 1]
    BY <1>8 DEF DoLeaveJoin
  <2>. QED  BY <1>1, <2>1 DEF Budget, SameKind
<1>9. ASSUME NEW n \in Node, NEW m \in Node,
             \/ JoinTimeout(n) \/ DoSuccListMaintenance(n) \/ EndLeave(n) \/ Discard(n)
             \/ ForgetJoin(n, m) \/ CheckLiveness(n, m)
      PROVE  SameKind
  <2>1. UNCHANGED budget
    BY <1>9 DEF JoinTimeout, DoSuccListMaintenance, EndLeave, Discard, ForgetJoin, CheckLiveness
  <2>. QED  BY <1>2, <2>1
<1>10. CASE UNCHANGED vars
  BY <1>2, <1>10 DEF vars
<1>11. First \in Node
  BY RingAssumption
<1>. QED  BY <1>3, <1>4, <1>5, <1>6, <1>7, <1>8, <1>9, <1>10, <1>11 DEF Next

\* Every step of a ring that is laid out beforehand, and where nobody leaves.
LEMMA LaidNext ==
    ASSUME TypeInv, NEW pos \in Position, Laid(pos), budget.leave = 0, [Next]_vars
    PROVE  Laid(pos)'
<1>1. ASSUME NEW n \in Node
      PROVE  /\ hub[n].rep = None /\ hub[n].away = None
             /\ \A m \in Node : tcp[<<m, n>>] = <<>>
  BY DEF Laid, Sound, Standing
<1>2. ASSUME NEW n \in Node, NEW m \in Node,
             JoinTimeout(n) \/ EndLeave(n) \/ Receive(m, n) \/ DoLeaveJoin(n, m)
      PROVE  FALSE
  <2>1. ~JoinTimeout(n)
    BY <1>1 DEF JoinTimeout
  <2>2. ~EndLeave(n)
    BY <1>1 DEF EndLeave
  <2>3. ~Receive(m, n)
    BY <1>1 DEF Receive
  <2>4. ~DoLeaveJoin(n, m)
    BY DEF DoLeaveJoin
  <2>. QED  BY <1>2, <2>1, <2>2, <2>3, <2>4
<1>3. ASSUME NEW d \in udp, Deliver(d) PROVE Laid(pos)'
  <2>1. d.type \in {"GET_PRED", "GET_SUCCLIST", "PRED", "SUCCLIST", "NOTIFY", "PING", "PONG"}
    <3>1. d.type \in {"GET_PRED", "GET_SUCCLIST", "LINK_BREAK", "PRED", "SUCCLIST", "NOTIFY", "PING", "PONG"}
      BY DatagramIs DEF TypeInv
    <3>2. d.type # "LINK_BREAK"
      BY DEF Laid, Told
    <3>. QED  BY <3>1, <3>2
  <2>2. \/ HandleGetPred(d) \/ HandleGetSuccList(d)
        \/ d.type = "PRED" /\ HandlePred(d)
        \/ d.type = "SUCCLIST" /\ Alive(d.to) /\ HandleSuccList(d)
        \/ d.type = "NOTIFY" /\ HandleNotifySuccessor(d)
        \/ d.type = "PING" /\ HandleLivenessPing(d)
        \/ d.type = "PONG" /\ HandleLivenessPong(d)
    BY <1>3, <2>1 DEF Deliver
  <2>. QED  BY <2>2, LaidGetPred, LaidGetSuccList, LaidPred, LaidSuccList, LaidNotify, LaidPing, LaidPong
<1>4. CASE UNCHANGED vars
  <2>1. UNCHANGED <<hub, udp, tcp>>
    BY <1>4 DEF vars
  <2>. QED  BY <2>1 DEF Laid, Up, Alive
<1>5. ASSUME NEW n \in Node, NEW m \in Node,
             \/ DoSuccListMaintenance(n) \/ ForgetJoin(n, m) \/ SendLivenessPing(n, m) \/ CheckLiveness(n, m)
      PROVE  Laid(pos)'
  BY <1>5, LaidMaintenance, LaidForgetJoin, LaidSendPing, LaidCheckLiveness
<1>6. First \in Node
  BY RingAssumption
<1>7. ASSUME NEW n \in Node, NEW d, Lose(d) \/ Crash(n) \/ Discard(n) PROVE Laid(pos)'
  BY <1>7, LaidFaults
<1>. QED  BY <1>2, <1>3, <1>4, <1>5, <1>6, <1>7 DEF Next

\* A ring that was laid out beforehand stays so: the places are those of before.
LEMMA StaticStep == TypeInv /\ StaticInv /\ [Next]_vars => StaticInv'
<1>. SUFFICES ASSUME TypeInv, StaticInv, [Next]_vars, budget'.static, budget'.apart
              PROVE  budget'.leave = 0 /\ \E pos \in Position : Laid(pos)'
  BY DEF StaticInv
<1>1. SameKind
  BY KindStays
<1>2. budget.leave = 0 /\ budget'.leave = 0
  BY <1>1 DEF SameKind, StaticInv
<1>3. PICK pos \in Position : Laid(pos)
  BY <1>1 DEF SameKind, StaticInv
<1>4. Laid(pos)'
  BY <1>2, <1>3, LaidNext
<1>. QED  BY <1>2, <1>4

\* Nobody alive reaches another's place, so no two share a value.
LEMMA LaidApart == StaticInv => (budget.static => NoOverlap)
<1>. SUFFICES ASSUME StaticInv, budget.static, budget.apart, NEW n \in Node, NEW m \in Node,
                     n # m, Alive(n), Alive(m)
              PROVE  Share(n) \cap Share(m) = {}
  BY DEF NoOverlap
<1>1. PICK pos \in Position : Laid(pos)
  BY DEF StaticInv
<1>2. Sound(pos, n, hub[n], Up) /\ Sound(pos, m, hub[m], Up) /\ n \in Up /\ m \in Up
  BY <1>1 DEF Laid, Up
<1>. DEFINE r == hub[n].range
            s == hub[m].range
<1>3. r \in NodeRange /\ s \in NodeRange /\ r.min = pos[n] /\ s.min = pos[m]
  BY <1>2 DEF Sound, Standing
<1>4. pos[n] \in Value /\ pos[m] \in Value /\ pos[n] # pos[m]
  BY DEF Position
<1>5. s.min \notin Cells(r) /\ r.min \notin Cells(s)
  BY <1>2, <1>3 DEF Sound
<1>6. Share(n) = Cells(r) /\ Share(m) = Cells(s)
  BY <1>3, RingAssumption DEF Share
<1>. HIDE DEF r, s
<1>7. Cells(r) \cap Cells(s) = {}
  BY <1>3, <1>4, <1>5, NothingShared
<1>. QED  BY <1>6, <1>7

\* Three places: who comes first as seen from each of them.
LEMMA Turned ==
    ASSUME NEW x \in Value, NEW y \in Value, NEW z \in Value, x # y, y # z, z # x,
           Way(x, y) < Way(x, z)
    PROVE  Way(y, z) < Way(y, x) /\ Way(z, x) < Way(z, y)
BY RingAssumption DEF Way, Value

\* The places round the ring, from the i-th on.
LEMMA PlacesOn ==
    ASSUME NEW i \in 1 .. Cardinality(Node)
    PROVE  /\ \A a \in 1 .. Cardinality(Node) - 1 :
                 /\ Place(i + a) \in 1 .. Cardinality(Node) /\ Place(i + a) # i
                 /\ Place(i + a) = IF i + a <= Cardinality(Node) THEN i + a ELSE i + a - Cardinality(Node)
           /\ \A a, b \in 1 .. Cardinality(Node) - 1 : Place(i + a) = Place(i + b) => a = b
           /\ \A m \in (1 .. Cardinality(Node)) \ {i} :
                 \E a \in 1 .. Cardinality(Node) - 1 : m = Place(i + a)
<1>. DEFINE C == Cardinality(Node)
<1>1. C \in Nat \ {0}
  BY Places
<1>2. \A a \in 1 .. C - 1 : Place(i + a) = IF i + a <= C THEN i + a ELSE i + a - C
  <2>. TAKE a \in 1 .. C - 1
  <2>1. Place(i + a) = IF i + a > C THEN (i + a) - C ELSE i + a
    BY Zenon DEF Place
  <2>. QED  BY <1>1, <2>1
<1>0. i \in 1 .. C
  OBVIOUS
<1>. HIDE DEF C
<1>3. ASSUME NEW m \in (1 .. C) \ {i} PROVE \E a \in 1 .. C - 1 : m = Place(i + a)
  <2>1. CASE m > i
    <3>1. m - i \in 1 .. C - 1 /\ i + (m - i) = m /\ m <= C
      BY <1>0, <1>1, <2>1
    <3>2. Place(i + (m - i)) = m
      BY <1>2, <3>1
    <3>. QED  BY <3>1, <3>2
  <2>2. CASE ~(m > i)
    <3>1. m < i
      BY <1>0, <1>1, <2>2
    <3>2. m - i + C \in 1 .. C - 1 /\ ~(i + (m - i + C) <= C) /\ i + (m - i + C) - C = m
      BY <1>0, <1>1, <3>1
    <3>3. Place(i + (m - i + C)) = m
      BY <1>2, <3>2
    <3>. QED  BY <3>2, <3>3
  <2>. QED  BY <2>1, <2>2
<1>4. \A a \in 1 .. C - 1 :
         /\ Place(i + a) \in 1 .. C /\ Place(i + a) # i
         /\ Place(i + a) = IF i + a <= C THEN i + a ELSE i + a - C
  BY <1>0, <1>1, <1>2
<1>5. \A a, b \in 1 .. C - 1 : Place(i + a) = Place(i + b) => a = b
  BY <1>0, <1>1, <1>2
<1>. QED  BY <1>3, <1>4, <1>5 DEF C

\* Where the ranges begin.
Begin(i) == StaticRange[i].min

\* They begin at different values, in the order of the places.
LEMMA BeginIs ==
    /\ \A i \in 1 .. Cardinality(Node) : Begin(i) \in Value
    /\ \A i, j \in 1 .. Cardinality(Node) : i # j => Begin(i) # Begin(j)
    /\ \A i, j, k \in 1 .. Cardinality(Node) :
          i < j /\ j < k => Way(Begin(i), Begin(j)) < Way(Begin(i), Begin(k))
<1>. DEFINE C == Cardinality(Node)
<1>1. C \in Nat \ {0}
  BY Places
<1>2. ASSUME NEW i \in 1 .. C PROVE Begin(i) \in Value
  <2>1. StaticRange[i].min \in 0 .. AbsMax /\ StaticRange[i].min < AbsMax
    BY RingAssumption, StaticRangeAssumption
  <2>. QED  BY <2>1, RingAssumption DEF Begin, Value
<1>3. \A i, j \in 1 .. C : i < j => Begin(i) # Begin(j)
  BY StaticRangeAssumption DEF Begin
<1>4. \A i, j \in 1 .. C : i # j => Begin(i) # Begin(j)
  BY <1>1, <1>3
<1>5. ASSUME NEW i \in 1 .. C, NEW j \in 1 .. C, NEW k \in 1 .. C, i < j, j < k
      PROVE  Way(Begin(i), Begin(j)) < Way(Begin(i), Begin(k))
  <2>1. IsBetween(Begin(j), Begin(i), Begin(k))
    BY <1>5, StaticRangeAssumption DEF Begin
  <2>2. i # j /\ j # k /\ i # k
    BY <1>1, <1>5
  <2>. QED  BY <1>2, <1>4, <2>1, <2>2, BetweenIs
<1>. QED  BY <1>2, <1>4, <1>5 DEF C

\* The further round the ring, the longer the way.
LEMMA WaysRound ==
    ASSUME NEW i \in 1 .. Cardinality(Node), NEW a \in 1 .. Cardinality(Node) - 1,
           NEW b \in 1 .. Cardinality(Node) - 1, a < b
    PROVE  Way(Begin(i), Begin(Place(i + a))) < Way(Begin(i), Begin(Place(i + b)))
<1>. DEFINE C == Cardinality(Node)
            p == Place(i + a)
            q == Place(i + b)
<1>1. C \in Nat \ {0}
  BY Places
<1>2. /\ p \in 1 .. C /\ q \in 1 .. C /\ p # i /\ q # i /\ p # q
      /\ p = IF i + a <= C THEN i + a ELSE i + a - C
      /\ q = IF i + b <= C THEN i + b ELSE i + b - C
  BY <1>1, PlacesOn
<1>. HIDE DEF C, p, q
<1>3. (i < p /\ p < q) \/ (q < i /\ i < p) \/ (p < q /\ q < i)
  BY <1>1, <1>2 DEF C
<1>. DEFINE x == Begin(i)
            y == Begin(p)
            z == Begin(q)
<1>4. x \in Value /\ y \in Value /\ z \in Value /\ x # y /\ y # z /\ z # x
  BY <1>2, BeginIs DEF C
<1>5. Way(x, y) < Way(x, z) \/ Way(z, x) < Way(z, y) \/ Way(y, z) < Way(y, x)
  BY <1>2, <1>3, BeginIs DEF C
<1>. HIDE DEF x, y, z
<1>6. Way(x, y) < Way(x, z)
  BY <1>4, <1>5, Turned
<1>. QED  BY <1>6 DEF x, y, z, p, q

\* Everybody's place in a ring laid out in this order.
StaticPosition(order) ==
    [n \in Node |-> Begin(CHOOSE i \in 1 .. Cardinality(Node) : order[i] = n)]

\* It is where the range at this place begins.
LEMMA StaticPositionIs ==
    ASSUME NEW order \in Order
    PROVE  /\ StaticPosition(order) \in Position
           /\ \A i \in 1 .. Cardinality(Node) : StaticPosition(order)[order[i]] = Begin(i)
<1>. DEFINE index(n) == CHOOSE i \in 1 .. Cardinality(Node) : order[i] = n
<1>1. \A n \in Node : index(n) \in 1 .. Cardinality(Node) /\ order[index(n)] = n
  BY OrderIs
<1>2. \A i \in 1 .. Cardinality(Node) : order[i] \in Node /\ index(order[i]) = i
  BY OrderIs
<1>3. \A n \in Node : StaticPosition(order)[n] = Begin(index(n))
  BY DEF StaticPosition
<1>4. StaticPosition(order) = [n \in Node |-> Begin(index(n))]
  BY DEF StaticPosition
<1>. HIDE DEF index
<1>5. StaticPosition(order) \in [Node -> Value]
  BY <1>1, <1>4, BeginIs
<1>6. \A n, m \in Node : n # m => StaticPosition(order)[n] # StaticPosition(order)[m]
  BY <1>1, <1>3, BeginIs
<1>. QED  BY <1>2, <1>3, <1>5, <1>6 DEF Position

\* Who is at a place, and the range there.
LEMMA InfoAtTells ==
    ASSUME NEW order \in Order, NEW i, Place(i) \in 1 .. Cardinality(Node)
    PROVE  /\ InfoAt(order, i).addr = order[Place(i)]
           /\ InfoAt(order, i).range.min = StaticPosition(order)[InfoAt(order, i).addr]
<1>1. InfoAt(order, i).addr = order[Place(i)] /\ InfoAt(order, i).range = StaticRange[Place(i)]
  BY DEF InfoAt
<1>2. StaticPosition(order)[order[Place(i)]] = Begin(Place(i))
  BY StaticPositionIs
<1>. QED  BY <1>1, <1>2 DEF Begin

\* How many others there are on a list at the start.
Far == IF Kept < Cardinality(Node) THEN Kept ELSE Cardinality(Node) - 1

\* They are on it before the node itself, if that is on it at all.
LEMMA FarIs ==
    /\ Far \in Nat /\ Kept \in Nat /\ Far <= Kept /\ Kept <= Far + 1 /\ Far <= NSuccessorsToKeep
    /\ NSuccessorsToKeep \in Nat
    /\ \A j \in 1 .. Far : j \in 1 .. Kept /\ j \in 1 .. Cardinality(Node) - 1
    /\ \A i \in 1 .. Cardinality(Node) : Kept # Far => Place(i + Kept) = i
<1>1. /\ Cardinality(Node) \in Nat \ {0} /\ Kept \in 1 .. Cardinality(Node) /\ Kept <= NSuccessorsToKeep
      /\ NSuccessorsToKeep \in Nat
  BY Places, RingAssumption
<1>2. \A i \in 1 .. Cardinality(Node) :
         Place(i + Kept) = IF i + Kept <= Cardinality(Node) THEN i + Kept ELSE i + Kept - Cardinality(Node)
  BY <1>1, Places
<1>. QED  BY <1>1, <1>2 DEF Far

\* The successors a node starts with are those at the next places.
LEMMA StaticSuccessorsAre ==
    ASSUME NEW order \in Order, NEW i \in 1 .. Cardinality(Node)
    PROVE  /\ Len(StaticSuccessors(order, i).succ) = Far
           /\ \A j \in 1 .. Far : StaticSuccessors(order, i).succ[j] = order[Place(i + j)]
<1>. DEFINE h == [NewHub EXCEPT !.range = StaticRange[i], !.status = "JOINED"]
            succs == [j \in 1 .. Kept |-> InfoAt(order, i + j)]
            k == UnRegister([h EXCEPT !.succ = <<>>])
            taken == Taken(order[i], succs)
<1>1. /\ succs \in Seq(Info) /\ Len(succs) = Kept /\ Shortened(h, <<>>, <<>>, k)
      /\ \A j \in 1 .. Kept : succs[j] = InfoAt(order, i + j)
  BY StaticSuccessorsIs
<1>2. StaticSuccessors(order, i) = AddAll(k, taken)
  BY DEF StaticSuccessors, SetSuccessorList
<1>3. \A j \in 1 .. Kept : succs[j].addr = order[Place(i + j)] /\ Place(i + j) \in 1 .. Cardinality(Node)
  <2>1. \A j \in 1 .. Kept : Place(i + j) \in 1 .. Cardinality(Node)
    BY Places
  <2>. HIDE DEF succs
  <2>. QED  BY <1>1, <2>1, InfoAtTells
<1>4. /\ taken \in Seq(Info) /\ Len(taken) <= Len(succs) /\ Len(taken) \in Nat
      /\ \A j \in 1 .. Len(taken) : taken[j] = succs[j] /\ taken[j].addr # order[i]
      /\ Len(taken) < Len(succs) =>
            \/ succs[Len(taken) + 1].addr = order[i]
            \/ Len(taken) = NSuccessorsToKeep + 1
  <2>. HIDE DEF succs
  <2>. QED  BY <1>1, TakenIs
<1>. HIDE DEF h, succs, k, taken
<1>0. \A j \in 1 .. Far : j \in 1 .. Cardinality(Node) - 1
  BY FarIs
<1>5. \A j \in 1 .. Far : Place(i + j) # i
  BY <1>0, PlacesOn
<1>6. \A a, b \in 1 .. Far : Place(i + a) = Place(i + b) => a = b
  BY <1>0, PlacesOn
<1>7. Len(taken) = Far
  <2>1. ~(Len(taken) < Far)
    <3>1. SUFFICES ASSUME Len(taken) < Far PROVE FALSE
      OBVIOUS
    <3>2. Len(taken) + 1 \in 1 .. Far /\ Len(taken) + 1 \in 1 .. Kept
      BY <1>4, <3>1, FarIs
    <3>3. succs[Len(taken) + 1].addr # order[i]
      BY <1>3, <1>5, <3>2, OrderIs
    <3>. QED  BY <1>1, <1>4, <3>1, <3>3, FarIs
  <2>2. ~(Far < Len(taken))
    <3>1. SUFFICES ASSUME Far < Len(taken) PROVE FALSE
      OBVIOUS
    <3>2. Kept # Far /\ Kept \in 1 .. Len(taken) /\ Kept \in 1 .. Kept
      BY <1>1, <1>4, <3>1, FarIs
    <3>3. taken[Kept].addr = order[i]
      BY <1>3, <1>4, <3>2, FarIs
    <3>. QED  BY <1>4, <3>2, <3>3
  <2>. QED  BY <1>4, <2>1, <2>2, FarIs
<1>8. \A j \in 1 .. Len(taken) : taken[j].addr = order[Place(i + j)] /\ Place(i + j) \in 1 .. Cardinality(Node)
  BY <1>3, <1>4, <1>7, FarIs
<1>9. Filling(taken, AddAll(k, taken))
  <2>1. Held(k) /\ k.succ = <<>>
    BY <1>1 DEF Shortened
  <2>2. \A a, b \in 1 .. Len(taken) : taken[a].addr = taken[b].addr => a = b
    <3>1. \A a, b \in 1 .. Cardinality(Node) : order[a] = order[b] => a = b
      BY OrderIs
    <3>. QED  BY <1>6, <1>7, <1>8, <3>1
  <2>3. Len(taken) <= NSuccessorsToKeep /\ taken \in Seq(Info)
    BY <1>4, <1>7, FarIs
  <2>. QED  BY <2>1, <2>2, <2>3, AddAllFresh
<1>. QED  BY <1>2, <1>7, <1>8, <1>9 DEF Filling

\* What a node knows at the start of others: nothing but their places.
LEMMA StaticSuccessorsTell ==
    ASSUME NEW order \in Order, NEW i \in 1 .. Cardinality(Node), NEW m \in Node,
           StaticSuccessors(order, i).known[m] # None
    PROVE  StaticSuccessors(order, i).known[m].min = StaticPosition(order)[m]
<1>. DEFINE h == [NewHub EXCEPT !.range = StaticRange[i], !.status = "JOINED"]
            succs == [j \in 1 .. Kept |-> InfoAt(order, i + j)]
            k == UnRegister([h EXCEPT !.succ = <<>>])
            taken == Taken(order[i], succs)
            ss == StaticSuccessors(order, i)
<1>1. /\ succs \in Seq(Info) /\ Len(succs) = Kept /\ Shortened(h, <<>>, <<>>, k)
      /\ \A j \in 1 .. Kept : succs[j] = InfoAt(order, i + j)
      /\ h.known[m] = None /\ WithSuccessors(k, taken, ss)
  BY StaticSuccessorsIs
<1>3. \A j \in 1 .. Kept : Place(i + j) \in 1 .. Cardinality(Node)
  BY Places
<1>. HIDE DEF h, succs, k, taken, ss
<1>4. k.known[m] = None
  BY <1>1 DEF Shortened
<1>5. PICK j \in 1 .. Len(taken) : taken[j].addr = m /\ ss.known[m] = taken[j].range
  BY <1>1, <1>4 DEF WithSuccessors, ss
<1>6. j \in 1 .. Kept /\ taken[j] = succs[j]
  <2>1. Len(taken) <= Len(succs) /\ Len(taken) \in Nat /\ \A a \in 1 .. Len(taken) : taken[a] = succs[a]
    BY <1>1, TakenIs DEF taken
  <2>2. Kept \in Nat
    BY Places
  <2>. QED  BY <1>1, <2>1, <2>2
<1>7. InfoAt(order, i + j).addr = m /\ ss.known[m] = InfoAt(order, i + j).range
  BY <1>1, <1>5, <1>6
<1>8. /\ InfoAt(order, i + j).addr = order[Place(i + j)]
      /\ InfoAt(order, i + j).range.min = StaticPosition(order)[InfoAt(order, i + j).addr]
  BY <1>3, <1>6, InfoAtTells
<1>. QED  BY <1>7, <1>8 DEF ss

\* The same of its predecessors.
LEMMA StaticHubTells ==
    ASSUME NEW order \in Order, NEW i \in 1 .. Cardinality(Node), NEW m \in Node,
           StaticHub(order, i).known[m] # None
    PROVE  StaticHub(order, i).known[m].min = StaticPosition(order)[m]
<1>. DEFINE h == StaticHub(order, i)
            ss == StaticSuccessors(order, i)
<1>1. WithPredecessors(order, i, h)
  BY StaticHubIs
<1>. HIDE DEF h
<1>2. CASE h.known[m] = ss.known[m]
  BY <1>2, StaticSuccessorsTell DEF h
<1>3. CASE h.known[m] # ss.known[m]
  <2>1. PICK j \in 1 .. Kept : [addr |-> m, range |-> h.known[m]] = InfoAt(order, i - j + Cardinality(Node))
    BY <1>1, <1>3 DEF WithPredecessors
  <2>. DEFINE p == i - j + Cardinality(Node)
  <2>2. Place(p) \in 1 .. Cardinality(Node)
    BY Places
  <2>3. InfoAt(order, p).addr = m /\ InfoAt(order, p).range = h.known[m]
    BY <2>1
  <2>. HIDE DEF p
  <2>4. /\ InfoAt(order, p).addr = order[Place(p)]
        /\ InfoAt(order, p).range.min = StaticPosition(order)[InfoAt(order, p).addr]
    BY <2>2, InfoAtTells
  <2>. QED  BY <2>3, <2>4 DEF h
<1>. QED  BY <1>2, <1>3

\* A node's range ends where the next one's begins.
LEMMA StaticRangeReaches ==
    ASSUME NEW i \in 1 .. Cardinality(Node), NEW a \in 1 .. Cardinality(Node) - 1
    PROVE  Begin(Place(i + a)) \notin Cells(StaticRange[i])
<1>. DEFINE r == StaticRange[i]
            x == Begin(i)
            y == Begin(Place(i + 1))
            v == Begin(Place(i + a))
<1>1. Cardinality(Node) \in Nat \ {0} /\ 1 \in 1 .. Cardinality(Node) - 1 /\ a \in Nat
  BY Places
<1>2. /\ Place(i + 1) \in 1 .. Cardinality(Node) /\ Place(i + 1) # i
      /\ Place(i + a) \in 1 .. Cardinality(Node) /\ Place(i + a) # i
      /\ Place(i + 1) = IF i + 1 <= Cardinality(Node) THEN i + 1 ELSE i + 1 - Cardinality(Node)
  BY <1>1, PlacesOn
<1>3. Place(i + 1) = IF i = Cardinality(Node) THEN 1 ELSE i + 1
  BY <1>1, <1>2
<1>4. r.max = y \/ (y = 0 /\ r.max = AbsMax)
  BY <1>3, StaticRangeAssumption DEF Begin
<1>5. r \in NodeRange /\ r.min = x
  BY RingAssumption DEF NodeRange, Begin
<1>6. x \in Value /\ y \in Value /\ v \in Value /\ x # y /\ x # v
  BY <1>2, BeginIs
<1>7. v = y \/ Way(x, y) < Way(x, v)
  <2>1. CASE a = 1
    BY <2>1
  <2>2. CASE a # 1
    <3>1. 1 < a
      BY <1>1, <2>2
    <3>. QED  BY <1>1, <3>1, WaysRound
  <2>. QED  BY <2>1, <2>2
<1>. HIDE DEF r, x, y, v
<1>8. ~(Way(x, v) < Way(x, r.max))
  BY <1>4, <1>6, <1>7, RingAssumption DEF Way, Value
<1>9. v \notin Cells(r)
  BY <1>5, <1>6, <1>8, CellsAre
<1>. QED  BY <1>9 DEF v, r

\* Seen from the i-th place, the order of the places is that of the ways to them.
LEMMA StaticNearer ==
    ASSUME NEW order \in Order, NEW i \in 1 .. Cardinality(Node),
           NEW a \in 1 .. Cardinality(Node) - 1, NEW b \in 1 .. Cardinality(Node) - 1
    PROVE  Nearer(StaticPosition(order), order[i], order[Place(i + a)], order[Place(i + b)]) <=> a < b
<1>. DEFINE pos == StaticPosition(order)
            w(j) == Way(Begin(i), Begin(Place(i + j)))
<1>1. Place(i + a) \in 1 .. Cardinality(Node) /\ Place(i + b) \in 1 .. Cardinality(Node)
  BY PlacesOn
<1>2. /\ pos[order[i]] = Begin(i) /\ pos[order[Place(i + a)]] = Begin(Place(i + a))
      /\ pos[order[Place(i + b)]] = Begin(Place(i + b))
  BY <1>1, StaticPositionIs
<1>3. a \in Nat /\ b \in Nat
  BY Places
<1>4. w(a) \in Int /\ w(b) \in Int
  <2>1. Begin(i) \in Int /\ Begin(Place(i + a)) \in Int /\ Begin(Place(i + b)) \in Int /\ AbsMax \in Int
    BY <1>1, BeginIs, RingAssumption DEF Value
  <2>. QED  BY <2>1 DEF Way
<1>5. (a < b => w(a) < w(b)) /\ (b < a => w(b) < w(a))
  BY WaysRound
<1>6. a = b => w(a) = w(b)
  OBVIOUS
<1>7. Nearer(pos, order[i], order[Place(i + a)], order[Place(i + b)]) <=> w(a) < w(b)
  BY <1>2 DEF Nearer
<1>. HIDE DEF w
<1>8. w(a) < w(b) <=> a < b
  BY <1>3, <1>4, <1>5, <1>6
<1>. QED  BY <1>7, <1>8

\* The successors a node starts with are the nearest nodes.
LEMMA StaticSuccessorsLie ==
    ASSUME NEW order \in Order, NEW i \in 1 .. Cardinality(Node)
    PROVE  LET s == StaticSuccessors(order, i).succ
           IN  /\ InOrder(StaticPosition(order), order[i], s)
               /\ NoGap(StaticPosition(order), order[i], Range(s), Node)
               /\ order[i] \notin Range(s)
<1>. DEFINE s == StaticSuccessors(order, i).succ
            pos == StaticPosition(order)
            n == order[i]
<1>1. Len(s) = Far /\ \A j \in 1 .. Far : s[j] = order[Place(i + j)]
  BY StaticSuccessorsAre
<1>2. Far \in Nat /\ \A j \in 1 .. Far : j \in 1 .. Cardinality(Node) - 1
  BY FarIs
<1>3. s \in Seq(Node)
  BY StaticSuccessorsIs, HubIs DEF Held, Listing
<1>4. Range(s) = {s[j] : j \in 1 .. Far}
  BY <1>1, <1>3, RangeIs
<1>. HIDE DEF s
<1>5. ASSUME NEW a \in 1 .. Far, NEW b \in 1 .. Far, a < b PROVE Nearer(pos, n, s[a], s[b])
  <2>1. a \in 1 .. Cardinality(Node) - 1 /\ b \in 1 .. Cardinality(Node) - 1
    BY <1>2
  <2>2. Nearer(pos, n, order[Place(i + a)], order[Place(i + b)])
    BY <1>5, <2>1, StaticNearer
  <2>. QED  BY <1>1, <2>2
<1>6. ASSUME NEW m \in Range(s), NEW y \in Node, Nearer(pos, n, y, m) PROVE y \in Range(s)
  <2>1. PICK b \in 1 .. Far : m = order[Place(i + b)]
    BY <1>1, <1>4
  <2>2. PICK j \in 1 .. Cardinality(Node) : order[j] = y
    BY OrderIs
  <2>3. CASE j = i
    <3>1. m \in Node /\ pos \in Position /\ n = y
      BY <1>3, <2>2, <2>3, RangeIs, StaticPositionIs
    <3>2. pos[n] \in Value /\ pos[m] \in Value
      BY <3>1 DEF Position
    <3>3. ~(Way(pos[n], pos[n]) < Way(pos[n], pos[m]))
      BY <3>2, RingAssumption DEF Way, Value
    <3>. QED  BY <1>6, <3>1, <3>3 DEF Nearer
  <2>4. CASE j # i
    <3>1. PICK a \in 1 .. Cardinality(Node) - 1 : j = Place(i + a)
      BY <2>4, PlacesOn
    <3>2. b \in 1 .. Cardinality(Node) - 1
      BY <1>2
    <3>3. Nearer(pos, n, order[Place(i + a)], order[Place(i + b)])
      BY <1>6, <2>1, <2>2, <3>1
    <3>4. a < b
      BY <3>2, <3>3, StaticNearer
    <3>5. a \in 1 .. Far
      BY <1>2, <3>4, Places
    <3>. QED  BY <1>1, <1>4, <2>2, <3>1, <3>5
  <2>. QED  BY <2>3, <2>4
<1>7. InOrder(pos, n, s)
  BY <1>1, <1>5 DEF InOrder
<1>8. NoGap(pos, n, Range(s), Node)
  BY <1>6 DEF NoGap
<1>9. n \notin Range(s)
  <2>1. \A j \in 1 .. Far : Place(i + j) \in 1 .. Cardinality(Node) /\ Place(i + j) # i
    BY <1>2, PlacesOn
  <2>. QED  BY <1>1, <1>4, <2>1, OrderIs
<1>. QED  BY <1>7, <1>8, <1>9 DEF s

\* So a node is where it should be at the start.
LEMMA StaticHubSound ==
    ASSUME NEW order \in Order, NEW i \in 1 .. Cardinality(Node)
    PROVE  Sound(StaticPosition(order), order[i], StaticHub(order, i), Node)
<1>. DEFINE h == StaticHub(order, i)
            g == StaticSuccessors(order, i)
            pos == StaticPosition(order)
            n == order[i]
<1>1. WithPredecessors(order, i, h)
  BY StaticHubIs
<1>2. /\ g.range = StaticRange[i] /\ g.status = "JOINED" /\ g.rep = None /\ g.away = None
      /\ StaticRange[i] \in NodeRange
  BY StaticSuccessorsIs DEF Same
<1>3. InOrder(pos, n, g.succ) /\ NoGap(pos, n, Range(g.succ), Node) /\ n \notin Range(g.succ)
  BY StaticSuccessorsLie
<1>4. \A m \in Node : h.known[m] # None => h.known[m].min = pos[m]
  BY StaticHubTells
<1>5. pos[n] = Begin(i)
  BY StaticPositionIs
<1>6. ASSUME NEW y \in Node, y # n PROVE pos[y] \notin Cells(StaticRange[i])
  <2>1. PICK j \in 1 .. Cardinality(Node) : order[j] = y
    BY OrderIs
  <2>2. PICK a \in 1 .. Cardinality(Node) - 1 : j = Place(i + a)
    BY <1>6, <2>1, PlacesOn
  <2>3. pos[y] = Begin(Place(i + a))
    BY <2>1, <2>2, StaticPositionIs
  <2>. QED  BY <2>3, StaticRangeReaches
<1>. HIDE DEF h, g
<1>7. Held(h) /\ Same(g, h) /\ h.succ = g.succ
  BY <1>1 DEF WithPredecessors, g
<1>8. Standing(pos, n, h)
  BY <1>2, <1>5, <1>7 DEF Same, Standing, Begin
<1>9. Knowing(pos, n, h)
  <2>1. \A m \in Listed(h) : m \in Node /\ h.known[m] # None
    BY <1>7, HubIs DEF Held, Listing
  <2>. QED  BY <1>3, <1>4, <1>7, <2>1 DEF Knowing
<1>10. \A y \in Node \ {n} : pos[y] \notin Cells(h.range)
  BY <1>2, <1>6, <1>7 DEF Same
<1>. QED  BY <1>3, <1>7, <1>8, <1>9, <1>10 DEF Sound, h

\* The ring at the start is laid out: by Init, everybody is where its range begins.
LEMMA StaticInit == Init => StaticInv
<1>. SUFFICES ASSUME Init, budget.static, budget.apart
              PROVE  budget.leave = 0 /\ \E pos \in Position : Laid(pos)
  BY DEF StaticInv
<1>1. budget.leave = 0
  BY RingAssumption DEF Init
<1>2. PICK order \in Order : hub = StaticStart(order)
  BY DEF Init, Order
<1>3. StaticPosition(order) \in Position
  BY StaticPositionIs
<1>4. ASSUME NEW n \in Node PROVE Sound(StaticPosition(order), n, hub[n], Node)
  <2>. DEFINE i == CHOOSE j \in 1 .. Cardinality(Node) : order[j] = n
  <2>1. i \in 1 .. Cardinality(Node) /\ order[i] = n
    BY OrderIs
  <2>2. hub[n] = StaticHub(order, i)
    BY <1>2 DEF StaticStart
  <2>. HIDE DEF i
  <2>3. Sound(StaticPosition(order), order[i], StaticHub(order, i), Node)
    BY <2>1, StaticHubSound
  <2>. QED  BY <2>1, <2>2, <2>3
<1>5. \A n \in Node : Sound(StaticPosition(order), n, hub[n], Up)
  BY <1>4 DEF Up, Sound, NoGap
<1>6. udp = {} /\ \A p \in Node \X Node : tcp[p] = <<>>
  BY DEF Init
<1>. QED  BY <1>1, <1>3, <1>4, <1>5, <1>6 DEF Laid

\* In a ring that is laid out beforehand and that nobody leaves to join elsewhere, no two nodes
\* that are alive ever answer for the same value, however many there are, whichever die, and
\* however late or seldom they hear of each other: a range grows up to the first successor only
\* (HandlePred), and no answer makes somebody the first successor who is behind one that is
\* alive (HandlePred, HandleSuccList, HandleNotifySuccessor).
THEOREM StaticRangesApart == Spec => [](budget.static => NoOverlap)
<1>. DEFINE IInv == TypeInv /\ StaticInv
<1>1. Init => IInv
  BY TypeInit, StaticInit
<1>2. IInv /\ [Next]_vars => IInv'
  BY TypeStep, StaticStep
<1>3. IInv => (budget.static => NoOverlap)
  BY LaidApart
<1>. QED  BY <1>1, <1>2, <1>3, PTL DEF Spec
=============================================================================
