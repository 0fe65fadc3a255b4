-------------------------- MODULE BootstrapProofs --------------------------
(***************************************************************************)
(* Who asks the bootstrap server gets into one ring, and the all clear is  *)
(* given when all that are expected are in it, for any nodes, any ident    *)
(* map and any number of crashes, restarts and losses.                     *)
(***************************************************************************)
EXTENDS Bootstrap, FiniteSetTheorems, SequenceTheorems, WellFoundedInduction, TLAPS

\* Finitely many nodes; who is in an ident map has an ident of its own there.
BootstrapAssumption ==
    /\ IsFiniteSet(Node) /\ None \notin Node
    /\ NSuccessorsToKeep \in Nat \ {0}
    /\ \A c \in Scenarios :
          /\ DOMAIN c.ident \subseteq Node /\ c.ident \in [DOMAIN c.ident -> Nat]
          /\ \A m, n \in DOMAIN c.ident : c.ident[m] = c.ident[n] => m = n
          /\ c.nServers \in Nat /\ c.attempts \in [Node -> Nat]
          /\ c.faults \in [crash : Nat, restart : Nat, loss : Nat]

-----------------------------------------------------------------------------
(***************************************************************************)
(* The inductive invariant.                                                *)
(***************************************************************************)

Status == {"NEW", "JOINING", "JOINED", "PLACED", "DEAD"}
Process == [status : Status, asked : Nat, rep : Node \cup {None}, allJoined : BOOLEAN]
Listing == [addr : Node, level : Nat, joined : BOOLEAN]
Response == [type : {"BOOTSTRAP_RESPONSE"}, rep : Node \cup {None}] \cup [type : {"CB_ALLJOINED"}]

TypeOK ==
    /\ conf \in Scenarios
    /\ faults \in [crash : Nat, restart : Nat, loss : Nat]
    /\ conf.faults.restart = 0 => faults.restart = 0
    /\ server \in [list : Seq(Listing), booted : SUBSET Node, allJoined : BOOLEAN]
    /\ node \in [Node -> Process]
    /\ net \in [req : [Node -> Nat], resp : [Node -> Seq(Response)], hbeat : SUBSET Node]

\* A new node knows nobody, places are for static rings, and who joins does so through somebody.
Ways ==
    \A n \in Node :
        /\ node[n].status = "NEW" => node[n].rep = None
        /\ node[n].status = "PLACED" => Static
        /\ node[n].status = "JOINING" => ~Static /\ node[n].rep \in Node

\* An answer that is on its way to n, and what n has been told.
Answers(n) == {i \in DOMAIN net.resp[n] : net.resp[n][i].type = "BOOTSTRAP_RESPONSE"}
Told(n) == node[n].status # "NEW" \/ Answers(n) # {}

\* Who has been told what to do stays in the list while it lives.
Remembered == \A n \in Node : Told(n) /\ node[n].status # "DEAD" => Listed(n) # {}

\* A node that makes a ring of its own, or is going to.
Founder(n) ==
    \/ node[n].status = "JOINED" /\ node[n].rep = None
    \/ node[n].status = "NEW" /\ \E i \in Answers(n) : net.resp[n][i].rep = None

Founders == ~Static => \A m, n \in Node : Founder(m) /\ Founder(n) => m = n

\* A node that is still on its way in, and what nobody says of one.
Pending(n) == node[n].status \in {"NEW", "JOINING"}

Reported ==
    /\ \A n \in net.hbeat : ~Pending(n)
    /\ \A i \in DOMAIN server.list : server.list[i].joined => ~Pending(server.list[i].addr)

\* If no process is started again, the server knows only whom it answered, and what a node
\* that has not been told anything finds first is an answer.
Known ==
    /\ \A n \in server.booted : Told(n)
    /\ \A i \in DOMAIN server.list : Told(server.list[i].addr)
    /\ \A n \in Node : node[n].status = "NEW" /\ net.resp[n] # <<>> => 1 \in Answers(n)

\* Whom a node joins through, as far as it has been decided.
RepOf(n) ==
    IF node[n].status # "NEW" THEN node[n].rep
    ELSE IF Answers(n) # {} THEN net.resp[n][1].rep ELSE None

\* Whoever is joined through was told earlier: no set of nodes is closed under RepOf.
Earlier ==
    ~Static =>
        /\ \A n \in Node : RepOf(n) \in Node => Told(RepOf(n))
        /\ \A S \in SUBSET Node : (\A n \in S : RepOf(n) \in S) => S = {}

Clear == server.allJoined => Cardinality({n \in Node : ~Pending(n)}) >= conf.nServers

IInv ==
    /\ TypeOK /\ Ways /\ Remembered /\ Founders
    /\ conf.faults.restart = 0 => Reported /\ Known /\ Earlier /\ Clear

-----------------------------------------------------------------------------
(***************************************************************************)
(* What the type invariant says, piece by piece.                           *)
(***************************************************************************)

\* What the types say of the server's list and of the nodes.
LEMMA Types ==
    ASSUME TypeOK
    PROVE  /\ server.list \in Seq(Listing) /\ DOMAIN server.list = 1 .. Len(server.list)
           /\ Len(server.list) \in Nat
           /\ \A i \in DOMAIN server.list : server.list[i] \in Listing /\ server.list[i].addr \in Node
           /\ server.booted \subseteq Node /\ server.allJoined \in BOOLEAN
           /\ \A n \in Node : /\ node[n].status \in Status /\ node[n].asked \in Nat
                              /\ node[n].rep \in Node \cup {None} /\ node[n].allJoined \in BOOLEAN
                              /\ net.req[n] \in Nat /\ net.resp[n] \in Seq(Response)
           /\ net.hbeat \subseteq Node
<1>1. server.list \in Seq(Listing) /\ server.booted \subseteq Node /\ server.allJoined \in BOOLEAN
  BY DEF TypeOK
<1>2. \A i \in DOMAIN server.list : server.list[i] \in Listing
  BY <1>1
<1>3. \A e \in Listing : e.addr \in Node
  BY DEF Listing
<1>. QED  BY <1>1, <1>2, <1>3 DEF TypeOK, Process

-----------------------------------------------------------------------------
(***************************************************************************)
(* Lists.                                                                  *)
(***************************************************************************)

\* A set of numbers that is not empty has a least one.
LEMMA LeastNumber ==
    ASSUME NEW T \in SUBSET Nat, T # {}
    PROVE  \E n \in T : \A m \in T : n <= m
<1>. DEFINE R == OpToRel(<, Nat)
<1>1. IsWellFoundedOn(R, Nat)
  BY NatLessThanWellFounded
<1>2. \A m, n \in Nat : <<m, n>> \in R <=> m < n
  BY DEF OpToRel
<1>. HIDE DEF R
<1>3. PICK n \in T : \A m \in T : ~(<<m, n>> \in R)
  BY <1>1, WFMin, Zenon
<1>4. \A m \in T : ~(m < n)
  BY <1>2, <1>3
<1>. QED  BY <1>4

\* The first place of an entry is one (BootstrapNode.cpp:913).
LEMMA MinOK ==
    ASSUME NEW T \in SUBSET Nat, T # {}
    PROVE  Min(T) \in T /\ \A m \in T : Min(T) <= m
BY LeastNumber DEF Min

\* An entry is erased: the others stay, and keep their order.
LEMMA Erased ==
    ASSUME NEW S, NEW s \in Seq(S), NEW i \in DOMAIN s
    PROVE  /\ RemoveAt(s, i) \in Seq(S)
           /\ Len(RemoveAt(s, i)) = Len(s) - 1
           /\ \A k \in DOMAIN RemoveAt(s, i) : \E j \in DOMAIN s : j # i /\ RemoveAt(s, i)[k] = s[j]
           /\ \A j \in DOMAIN s : j # i => \E k \in DOMAIN RemoveAt(s, i) : RemoveAt(s, i)[k] = s[j]
<1>. DEFINE L == Len(s)
            a == SubSeq(s, 1, i - 1)
            b == SubSeq(s, i + 1, L)
            r == RemoveAt(s, i)
<1>1. L \in Nat /\ i \in 1 .. L /\ DOMAIN s = 1 .. L /\ \A j \in 1 .. L : s[j] \in S
  OBVIOUS
<1>2. a \in Seq(S) /\ Len(a) = i - 1 /\ \A j \in 1 .. i - 1 : a[j] = s[j]
  BY <1>1
<1>3. b \in Seq(S) /\ Len(b) = L - i /\ \A j \in 1 .. L - i : b[j] = s[i + j]
  <2>1. CASE i = L
    BY <1>1, <2>1
  <2>2. CASE i < L
    <3>1. i + 1 \in 1 .. L /\ L \in 1 .. L /\ i + 1 <= L /\ (L - (i + 1)) + 1 = L - i
      BY <1>1, <2>2
    <3>2. b \in Seq(S) /\ Len(b) = L - i /\ \A j \in 1 .. L - i : b[j] = s[((i + 1) + j) - 1]
      BY <1>1, <3>1, SubSeqProperties
    <3>3. \A j \in 1 .. L - i : ((i + 1) + j) - 1 = i + j
      BY <1>1
    <3>. QED  BY <3>2, <3>3
  <2>. QED  BY <1>1, <2>1, <2>2
<1>4. r = a \o b
  BY DEF RemoveAt
<1>. HIDE DEF a, b, r, L
<1>5. /\ r \in Seq(S) /\ Len(r) = L - 1
      /\ \A k \in 1 .. L - 1 : r[k] = IF k < i THEN a[k] ELSE b[k - (i - 1)]
  <2>1. /\ r \in Seq(S) /\ Len(r) = Len(a) + Len(b)
        /\ \A k \in 1 .. Len(a) + Len(b) : r[k] = IF k <= Len(a) THEN a[k] ELSE b[k - Len(a)]
    BY <1>2, <1>3, <1>4, ConcatProperties
  <2>2. Len(a) + Len(b) = L - 1 /\ \A k \in 1 .. L - 1 : k <= Len(a) <=> k < i
    BY <1>1, <1>2, <1>3
  <2>. QED  BY <1>2, <2>1, <2>2
<1>6. \A k \in 1 .. L - 1 : r[k] = IF k < i THEN s[k] ELSE s[k + 1]
  <2>. TAKE k \in 1 .. L - 1
  <2>1. CASE k < i
    BY <1>1, <1>2, <1>5, <2>1
  <2>2. CASE ~(k < i)
    <3>. DEFINE j == k - (i - 1)
    <3>1. j \in 1 .. L - i /\ i + j = k + 1
      BY <1>1, <2>2
    <3>2. r[k] = b[j]
      BY <1>5, <2>2
    <3>. QED  BY <1>3, <2>2, <3>1, <3>2
  <2>. QED  BY <2>1, <2>2
<1>7. DOMAIN r = 1 .. L - 1
  BY <1>1, <1>5
<1>8. ASSUME NEW k \in 1 .. L - 1  PROVE \E j \in 1 .. L : j # i /\ r[k] = s[j]
  <2>1. CASE k < i
    BY <1>1, <1>6, <2>1
  <2>2. CASE ~(k < i)
    <3>1. k + 1 \in 1 .. L /\ k + 1 # i
      BY <1>1, <2>2
    <3>. QED  BY <1>6, <2>2, <3>1
  <2>. QED  BY <2>1, <2>2
<1>9. ASSUME NEW j \in 1 .. L, j # i  PROVE \E k \in 1 .. L - 1 : r[k] = s[j]
  <2>1. CASE j < i
    BY <1>1, <1>6, <2>1
  <2>2. CASE ~(j < i)
    <3>1. j - 1 \in 1 .. L - 1 /\ ~(j - 1 < i) /\ (j - 1) + 1 = j
      BY <1>1, <1>9, <2>2
    <3>. QED  BY <1>6, <3>1
  <2>. QED  BY <2>1, <2>2
<1>. QED  BY <1>1, <1>5, <1>7, <1>8, <1>9 DEF r, L

\* Entries are of nodes.
LEMMA ListingOK ==
    ASSUME NEW l \in Seq(Listing), NEW i \in DOMAIN l
    PROVE  l[i] \in Listing /\ l[i].addr \in Node
<1>1. l[i] \in Listing
  OBVIOUS
<1>. QED  BY <1>1 DEF Listing

\* Sorted, the list has the entries it had.
LEMMA SortedOK ==
    ASSUME NEW l \in Seq(Listing), NEW s \in ByLevel(l)
    PROVE  /\ s \in Seq(Listing) /\ Len(s) = Len(l)
           /\ \A i \in DOMAIN l : \E j \in DOMAIN l : s[i] = l[j]
           /\ \A j \in DOMAIN l : \E i \in DOMAIN l : s[i] = l[j]
<1>1. PICK p \in Bijection(DOMAIN l, DOMAIN l) : s = [i \in DOMAIN l |-> l[p[i]]]
  BY DEF ByLevel
<1>2. /\ \A i \in DOMAIN l : p[i] \in DOMAIN l
      /\ \A j \in DOMAIN l : \E i \in DOMAIN l : p[i] = j
  BY Zenon DEF Bijection, Injection, Surjection
<1>3. DOMAIN l = 1 .. Len(l) /\ Len(l) \in Nat /\ \A i \in 1 .. Len(l) : l[i] \in Listing
  OBVIOUS
<1>4. \A i \in 1 .. Len(l) : s[i] = l[p[i]] /\ s[i] \in Listing
  BY <1>1, <1>2, <1>3
<1>5. s \in Seq(Listing) /\ Len(s) = Len(l)
  BY <1>1, <1>3, <1>4
<1>6. \A i \in DOMAIN l : s[i] = l[p[i]]
  BY <1>3, <1>4
<1>7. \A j \in DOMAIN l : \E i \in DOMAIN l : s[i] = l[j]
  <2>. TAKE j \in DOMAIN l
  <2>1. PICK i \in DOMAIN l : p[i] = j
    BY <1>2
  <2>2. s[i] = l[p[i]]
    BY <1>6
  <2>. QED  BY <2>1, <2>2
<1>8. \A i \in DOMAIN l : \E j \in DOMAIN l : s[i] = l[j]
  BY <1>2, <1>6, Zenon
<1>. QED  BY <1>5, <1>7, <1>8

\* A representative is in the list, and the list keeps its addresses.
LEMMA ChosenOK ==
    ASSUME NEW l \in Seq(Listing), NEW c \in ChooseRepresentative(l)
    PROVE  /\ c.list \in Seq(Listing) /\ Len(c.list) = Len(l)
           /\ \A i \in DOMAIN l : \E j \in DOMAIN l :
                 c.list[i].addr = l[j].addr /\ c.list[i].joined = l[j].joined
           /\ \A j \in DOMAIN l : \E i \in DOMAIN l : c.list[i].addr = l[j].addr
           /\ \/ l = <<>> /\ c.rep = None
              \/ \E j \in DOMAIN l : c.rep = l[j].addr
<1>1. CASE l = <<>>
  <2>1. c = [rep |-> None, list |-> l]
    BY <1>1 DEF ChooseRepresentative
  <2>. QED  BY <1>1, <2>1
<1>2. CASE l # <<>> /\ conf.policy = "random"
  <2>1. PICK e \in Range(l) : c = [rep |-> e.addr, list |-> l]
    BY <1>2 DEF ChooseRepresentative
  <2>. QED  BY <2>1 DEF Range
<1>3. CASE l # <<>> /\ conf.policy # "random"
  <2>1. PICK s \in ByLevel(l) : c = [rep |-> s[1].addr, list |-> [s EXCEPT ![1].level = @ + 1]]
    BY <1>3 DEF ChooseRepresentative
  <2>2. /\ s \in Seq(Listing) /\ Len(s) = Len(l)
        /\ \A i \in DOMAIN l : \E j \in DOMAIN l : s[i] = l[j]
        /\ \A j \in DOMAIN l : \E i \in DOMAIN l : s[i] = l[j]
    BY SortedOK
  <2>3. /\ 1 \in DOMAIN l /\ DOMAIN l = 1 .. Len(l) /\ DOMAIN s = 1 .. Len(l) /\ Len(l) \in Nat
        /\ \A i \in 1 .. Len(l) : s[i] \in Listing
    BY <1>3, <2>2
  <2>. DEFINE k == s[1].level + 1
              e == [s[1] EXCEPT !.level = k]
              t == [s EXCEPT ![1] = e]
  <2>4. k \in Nat
    <3>1. s[1] \in Listing
      BY <2>3
    <3>. QED  BY <3>1 DEF Listing
  <2>5. c.rep = s[1].addr /\ c.list = t
    BY <2>1
  <2>. HIDE DEF k
  <2>6. e \in Listing /\ e.addr = s[1].addr /\ e.joined = s[1].joined
    <3>1. s[1] \in Listing
      BY <2>3
    <3>. QED  BY <2>4, <3>1 DEF Listing
  <2>. HIDE DEF e
  <2>7. \A i \in 1 .. Len(l) : t[i] \in Listing /\ t[i].addr = s[i].addr /\ t[i].joined = s[i].joined
    BY <2>2, <2>3, <2>6
  <2>8. t \in Seq(Listing) /\ Len(t) = Len(l)
    BY <2>2, <2>3, <2>6
  <2>. HIDE DEF t
  <2>9. \E j \in DOMAIN l : c.rep = l[j].addr
    <3>1. PICK j \in DOMAIN l : s[1] = l[j]
      BY <2>2, <2>3
    <3>. QED  BY <2>5, <3>1
  <2>10. \A i \in DOMAIN l : \E j \in DOMAIN l :
            c.list[i].addr = l[j].addr /\ c.list[i].joined = l[j].joined
    <3>. TAKE i \in DOMAIN l
    <3>1. PICK j \in DOMAIN l : s[i] = l[j]
      BY <2>2
    <3>2. t[i].addr = s[i].addr /\ t[i].joined = s[i].joined
      BY <2>3, <2>7
    <3>. QED  BY <2>5, <3>1, <3>2
  <2>11. \A j \in DOMAIN l : \E i \in DOMAIN l : c.list[i].addr = l[j].addr
    <3>. TAKE j \in DOMAIN l
    <3>1. PICK i \in DOMAIN l : s[i] = l[j]
      BY <2>2
    <3>2. t[i].addr = s[i].addr
      BY <2>3, <2>7
    <3>. QED  BY <2>5, <3>1, <3>2
  <2>. QED  BY <2>5, <2>8, <2>9, <2>10, <2>11
<1>. QED  BY <1>1, <1>2, <1>3

-----------------------------------------------------------------------------
(***************************************************************************)
(* A request is answered.                                                  *)
(***************************************************************************)

\* The list after n was answered: n is in it anew, and nobody else has come or gone.
Relists(n, list) ==
    /\ \A i \in DOMAIN list :
          \/ list[i].addr = n /\ ~list[i].joined
          \/ \E j \in DOMAIN server.list :
                list[i].addr = server.list[j].addr /\ list[i].joined = server.list[j].joined
    /\ \A m \in Node : m = n \/ Listed(m) # {} => \E i \in DOMAIN list : list[i].addr = m

\* Whom n is sent to: somebody in the list, or nobody when there are no others.
Leads(n, rep) ==
    \/ rep = None /\ \A m \in Node \ {n} : Listed(m) = {}
    \/ \E j \in DOMAIN server.list : rep = server.list[j].addr

\* A new entry for n at the end of a list of others (BootstrapNode.cpp:929-945).
LEMMA AppendedOK ==
    ASSUME NEW n \in Node, NEW l \in Seq(Listing), NEW k \in Nat,
           server.list \in Seq(Listing),
           \A i \in DOMAIN l : \E j \in DOMAIN server.list :
              l[i].addr = server.list[j].addr /\ l[i].joined = server.list[j].joined,
           \A j \in DOMAIN server.list :
              server.list[j].addr # n => \E i \in DOMAIN l : l[i].addr = server.list[j].addr
    PROVE  Append(l, Entry(n, k)) \in Seq(Listing) /\ Relists(n, Append(l, Entry(n, k)))
<1>. DEFINE e == Entry(n, k)
            a == Append(l, e)
<1>1. e \in Listing /\ e.addr = n /\ ~e.joined
  BY DEF Entry, Listing
<1>. HIDE DEF e
<1>2. /\ a \in Seq(Listing) /\ DOMAIN a = 1 .. Len(l) + 1 /\ a[Len(l) + 1] = e
      /\ DOMAIN l = 1 .. Len(l) /\ Len(l) \in Nat /\ \A i \in 1 .. Len(l) : a[i] = l[i]
  BY <1>1
<1>. HIDE DEF a
<1>3. ASSUME NEW i \in DOMAIN a
      PROVE  \/ a[i].addr = n /\ ~a[i].joined
             \/ \E j \in DOMAIN server.list :
                   a[i].addr = server.list[j].addr /\ a[i].joined = server.list[j].joined
  <2>1. CASE i = Len(l) + 1
    BY <1>1, <1>2, <2>1
  <2>2. CASE i # Len(l) + 1
    <3>1. i \in DOMAIN l /\ a[i] = l[i]
      BY <1>2, <2>2
    <3>. QED  BY <3>1
  <2>. QED  BY <2>1, <2>2
<1>4. ASSUME NEW m \in Node, m = n \/ Listed(m) # {}
      PROVE  \E i \in DOMAIN a : a[i].addr = m
  <2>1. CASE m = n
    <3>1. Len(l) + 1 \in DOMAIN a
      BY <1>2
    <3>. QED  BY <1>1, <1>2, <2>1, <3>1
  <2>2. CASE m # n
    <3>1. PICK j \in DOMAIN server.list : server.list[j].addr = m
      BY <1>4, <2>2 DEF Listed
    <3>2. PICK i \in DOMAIN l : l[i].addr = m
      BY <2>2, <3>1
    <3>3. i \in DOMAIN a /\ a[i] = l[i]
      BY <1>2
    <3>. QED  BY <3>2, <3>3
  <2>. QED  BY <2>1, <2>2
<1>. QED  BY <1>2, <1>3, <1>4, Zenon DEF Relists, a, e

\* A request is answered with a representative that leads in, or none, and lists who asked.
LEMMA RequestOK ==
    ASSUME TypeOK, NEW n \in Node, HandleBootstrapRequest(n)
    PROVE  \E rep \in Node \cup {None}, list \in Seq(Listing) :
              /\ server' = [server EXCEPT !.list = list, !.booted = @ \cup {n}]
              /\ net' = Answer(n, BootstrapResponse(rep))
              /\ Relists(n, list) /\ Leads(n, rep)
<1>. DEFINE s == server.list
            others == IF Listed(n) = {} THEN s ELSE RemoveAt(s, Min(Listed(n)))
<1>1. s \in Seq(Listing) /\ DOMAIN s = 1 .. Len(s) /\ \A i \in DOMAIN s : s[i].addr \in Node
  BY Types
<1>2. /\ others \in Seq(Listing)
      /\ \A i \in DOMAIN others : \E j \in DOMAIN s : others[i] = s[j]
      /\ \A j \in DOMAIN s : s[j].addr # n => \E i \in DOMAIN others : others[i] = s[j]
  <2>1. CASE Listed(n) = {}
    BY <1>1, <2>1
  <2>2. CASE Listed(n) # {}
    <3>. DEFINE i == Min(Listed(n))
    <3>1. i \in DOMAIN s /\ s[i].addr = n
      <4>1. Listed(n) \in SUBSET Nat
        BY <1>1 DEF Listed
      <4>2. i \in Listed(n)
        BY <2>2, <4>1, MinOK
      <4>. QED  BY <4>2 DEF Listed
    <3>3. others = RemoveAt(s, i)
      BY <2>2
    <3>. HIDE DEF i, others
    <3>2. /\ RemoveAt(s, i) \in Seq(Listing)
          /\ \A k \in DOMAIN RemoveAt(s, i) : \E j \in DOMAIN s : j # i /\ RemoveAt(s, i)[k] = s[j]
          /\ \A j \in DOMAIN s : j # i => \E k \in DOMAIN RemoveAt(s, i) : RemoveAt(s, i)[k] = s[j]
      <4>. HIDE DEF s
      <4>. QED  BY <1>1, <3>1, Erased
    <3>4. ASSUME NEW j \in DOMAIN s, s[j].addr # n
          PROVE  \E k \in DOMAIN others : others[k] = s[j]
      BY <3>1, <3>2, <3>3, <3>4
    <3>. QED  BY <3>2, <3>3, <3>4
  <2>. QED  BY <2>1, <2>2
<1>3. PICK c \in ChooseRepresentative(others) :
        /\ server' = [server EXCEPT
               !.list = Append(c.list, Entry(n, IF c.list = <<>> THEN 0 ELSE c.list[1].level)),
               !.booted = @ \cup {n}]
        /\ net' = Answer(n, BootstrapResponse(c.rep))
  BY DEF HandleBootstrapRequest
<1>. HIDE DEF others, s
<1>4. /\ c.list \in Seq(Listing) /\ Len(c.list) = Len(others)
      /\ \A i \in DOMAIN others : \E j \in DOMAIN others :
            c.list[i].addr = others[j].addr /\ c.list[i].joined = others[j].joined
      /\ \A j \in DOMAIN others : \E i \in DOMAIN others : c.list[i].addr = others[j].addr
      /\ \/ others = <<>> /\ c.rep = None
         \/ \E j \in DOMAIN others : c.rep = others[j].addr
  BY <1>2, ChosenOK
<1>. DEFINE k == IF c.list = <<>> THEN 0 ELSE c.list[1].level
<1>5. k \in Nat
  <2>1. CASE c.list = <<>>
    BY <2>1
  <2>2. CASE c.list # <<>>
    <3>1. c.list[1] \in Listing
      BY <1>4, <2>2
    <3>. QED  BY <2>2, <3>1 DEF Listing
  <2>. QED  BY <2>1, <2>2
<1>6. DOMAIN c.list = DOMAIN others
  BY <1>2, <1>4
<1>7. ASSUME NEW i \in DOMAIN c.list
      PROVE  \E j \in DOMAIN s : c.list[i].addr = s[j].addr /\ c.list[i].joined = s[j].joined
  <2>1. PICK h \in DOMAIN others : c.list[i].addr = others[h].addr /\ c.list[i].joined = others[h].joined
    BY <1>4, <1>6
  <2>2. PICK j \in DOMAIN s : others[h] = s[j]
    BY <1>2
  <2>. QED  BY <2>1, <2>2
<1>8. ASSUME NEW j \in DOMAIN s, s[j].addr # n
      PROVE  \E i \in DOMAIN c.list : c.list[i].addr = s[j].addr
  <2>1. PICK h \in DOMAIN others : others[h] = s[j]
    BY <1>2, <1>8
  <2>2. PICK i \in DOMAIN others : c.list[i].addr = others[h].addr
    BY <1>4
  <2>. QED  BY <1>6, <2>1, <2>2
<1>. HIDE DEF k
<1>9. Append(c.list, Entry(n, k)) \in Seq(Listing) /\ Relists(n, Append(c.list, Entry(n, k)))
  BY <1>1, <1>4, <1>5, <1>7, <1>8, AppendedOK DEF s
<1>10. Leads(n, c.rep) /\ c.rep \in Node \cup {None}
  <2>1. CASE others = <<>> /\ c.rep = None
    <3>1. \A j \in DOMAIN s : s[j].addr = n
      BY <1>2, <2>1
    <3>2. \A m \in Node \ {n} : Listed(m) = {}
      BY <3>1 DEF Listed, s
    <3>. QED  BY <2>1, <3>2 DEF Leads
  <2>2. CASE \E j \in DOMAIN others : c.rep = others[j].addr
    <3>1. PICK h \in DOMAIN others : c.rep = others[h].addr
      BY <2>2
    <3>2. PICK j \in DOMAIN s : others[h] = s[j]
      BY <1>2
    <3>. QED  BY <1>1, <3>1, <3>2 DEF Leads, s
  <2>. QED  BY <1>4, <2>1, <2>2
<1>. QED  BY <1>3, <1>9, <1>10 DEF k

\* An answer at the end of a queue of them.
LEMMA AnswerOK ==
    ASSUME TypeOK, NEW n \in Node, net.req[n] > 0, NEW rep \in Node \cup {None},
           node' = node, net' = Answer(n, BootstrapResponse(rep))
    PROVE  /\ net' \in [req : [Node -> Nat], resp : [Node -> Seq(Response)], hbeat : SUBSET Node]
           /\ net'.hbeat = net.hbeat
           /\ \A m \in Node : m # n => Answers(m)' = Answers(m) /\ net'.resp[m] = net.resp[m]
           /\ DOMAIN net'.resp[n] = 1 .. Len(net.resp[n]) + 1
           /\ Answers(n)' = Answers(n) \cup {Len(net.resp[n]) + 1}
           /\ \A i \in DOMAIN net.resp[n] : net'.resp[n][i] = net.resp[n][i]
           /\ net'.resp[n][Len(net.resp[n]) + 1].rep = rep
<1>. DEFINE br == BootstrapResponse(rep)
            k == net.req[n] - 1
            q == Append(net.resp[n], br)
<1>1. net.resp[n] \in Seq(Response) /\ net.req[n] \in Nat /\ net.hbeat \subseteq Node
  BY Types
<1>2. br \in Response /\ br.type = "BOOTSTRAP_RESPONSE" /\ br.rep = rep
  BY DEF BootstrapResponse, Response
<1>3. k \in Nat
  BY <1>1
<1>4. net' = [net EXCEPT !.req[n] = k, !.resp[n] = q]
  BY DEF Answer
<1>. HIDE DEF br, k
<1>5. /\ q \in Seq(Response) /\ DOMAIN q = 1 .. Len(net.resp[n]) + 1
      /\ q[Len(net.resp[n]) + 1] = br /\ DOMAIN net.resp[n] = 1 .. Len(net.resp[n])
      /\ \A i \in DOMAIN net.resp[n] : q[i] = net.resp[n][i]
  BY <1>1, <1>2
<1>. HIDE DEF q
<1>6. /\ net' \in [req : [Node -> Nat], resp : [Node -> Seq(Response)], hbeat : SUBSET Node]
      /\ net'.hbeat = net.hbeat /\ net'.resp[n] = q
      /\ \A m \in Node : m # n => net'.resp[m] = net.resp[m]
  <2>1. net \in [req : [Node -> Nat], resp : [Node -> Seq(Response)], hbeat : SUBSET Node]
    BY DEF TypeOK
  <2>. DEFINE rq == [net.req EXCEPT ![n] = k]
              rs == [net.resp EXCEPT ![n] = q]
  <2>2. rq \in [Node -> Nat]
    BY <1>3, <2>1
  <2>3. rs \in [Node -> Seq(Response)] /\ rs[n] = q /\ \A m \in Node : m # n => rs[m] = net.resp[m]
    BY <1>5, <2>1
  <2>4. net' = [req |-> rq, resp |-> rs, hbeat |-> net.hbeat]
    BY <1>4, <2>1
  <2>. HIDE DEF rq, rs
  <2>. QED  BY <1>1, <2>2, <2>3, <2>4
<1>7. \A m \in Node : m # n => Answers(m)' = Answers(m)
  BY <1>6 DEF Answers
<1>8. Answers(n)' = {i \in DOMAIN q : q[i].type = "BOOTSTRAP_RESPONSE"}
  BY <1>6 DEF Answers
<1>9. Answers(n)' = Answers(n) \cup {Len(net.resp[n]) + 1}
  BY <1>1, <1>2, <1>5, <1>8 DEF Answers
<1>. QED  BY <1>2, <1>5, <1>6, <1>7, <1>9

\* Whoever is told where to join was not named by anybody before.
LEMMA EarlierServed ==
    ASSUME NEW T \in SUBSET Node, NEW f, NEW g, NEW n \in Node \ T,
           \A m \in Node \ {n} : g[m] = f[m],
           \A m \in Node : f[m] \in Node => f[m] \in T,
           g[n] \in Node => g[n] \in T,
           \A S \in SUBSET Node : (\A m \in S : f[m] \in S) => S = {}
    PROVE  \A S \in SUBSET Node : (\A m \in S : g[m] \in S) => S = {}
<1>. SUFFICES ASSUME NEW S \in SUBSET Node, \A m \in S : g[m] \in S
              PROVE  S = {}
  OBVIOUS
<1>1. CASE n \notin S
  <2>1. \A m \in S : f[m] \in S
    BY <1>1
  <2>. QED  BY <2>1
<1>2. CASE n \in S
  <2>. DEFINE U == S \ {n}
  <2>1. g[n] \in U
    BY <1>2
  <2>2. \A m \in U : f[m] \in S /\ f[m] # n
    OBVIOUS
  <2>3. U \in SUBSET Node /\ \A m \in U : f[m] \in U
    BY <2>2
  <2>. QED  BY <2>1, <2>3
<1>. QED  BY <1>1, <1>2

\* A node that is listed and told where to join keeps the invariant.
LEMMA ServedInv ==
    ASSUME BootstrapAssumption, IInv, NEW n \in Node, net.req[n] > 0,
           NEW rep \in Node \cup {None}, NEW list \in Seq(Listing),
           UNCHANGED <<conf, faults, node>>,
           server' = [server EXCEPT !.list = list, !.booted = @ \cup {n}],
           net' = Answer(n, BootstrapResponse(rep)),
           Relists(n, list), Static \/ Leads(n, rep)
    PROVE  IInv'
<1>. DEFINE b == server.booted \cup {n}
            r == net.resp[n]
<1>0. TypeOK
  BY DEF IInv
<1>1. r \in Seq(Response) /\ DOMAIN r = 1 .. Len(r) /\ Len(r) \in Nat /\ b \subseteq Node
  BY <1>0, Types
<1>2. /\ net' \in [req : [Node -> Nat], resp : [Node -> Seq(Response)], hbeat : SUBSET Node]
      /\ net'.hbeat = net.hbeat
      /\ \A m \in Node : m # n => Answers(m)' = Answers(m) /\ net'.resp[m] = net.resp[m]
      /\ DOMAIN net'.resp[n] = 1 .. Len(r) + 1
      /\ Answers(n)' = Answers(n) \cup {Len(r) + 1}
      /\ \A i \in DOMAIN r : net'.resp[n][i] = r[i]
      /\ net'.resp[n][Len(r) + 1].rep = rep
  BY <1>0, AnswerOK
<1>3. server'.list = list /\ server'.booted = b /\ server'.allJoined = server.allJoined
  BY <1>0 DEF TypeOK
<1>. HIDE DEF b
<1>4. TypeOK'
  BY <1>0, <1>1, <1>2 DEF TypeOK, b
<1>. HIDE DEF r
<1>5. Ways' /\ \A m \in Node : Pending(m)' = Pending(m)
  BY DEF IInv, Ways, Static, Pending
<1>6. \A m \in Node : Told(m)' <=> Told(m) \/ m = n
  BY <1>2 DEF Told
<1>7. \A m \in Node : m = n \/ Listed(m) # {} => Listed(m)' # {}
  <2>. TAKE m \in Node
  <2>. HAVE m = n \/ Listed(m) # {}
  <2>1. PICK i \in DOMAIN list : list[i].addr = m
    BY DEF Relists
  <2>. QED  BY <1>3, <2>1 DEF Listed
<1>8. Remembered'
  BY <1>6, <1>7 DEF IInv, Remembered
<1>9. Founders'
  <2>. SUFFICES ASSUME ~Static, NEW k \in Node, NEW m \in Node, Founder(k)', Founder(m)'
                PROVE  k = m
    BY DEF Founders, Static
  <2>1. \A i \in Node : i # n /\ Founder(i)' => Founder(i)
    BY <1>2 DEF Founder
  <2>2. Founder(n)' => Founder(n) \/ rep = None
    <3>. SUFFICES ASSUME Founder(n)', rep # None  PROVE Founder(n)
      OBVIOUS
    <3>1. CASE node[n].status = "JOINED" /\ node[n].rep = None
      BY <3>1 DEF Founder
    <3>2. CASE node[n].status = "NEW" /\ \E i \in Answers(n)' : net'.resp[n][i].rep = None
      <4>1. PICK i \in Answers(n)' : net'.resp[n][i].rep = None
        BY <3>2
      <4>2. i \in Answers(n)
        BY <1>2, <4>1
      <4>3. i \in DOMAIN r /\ r[i].rep = None
        BY <1>2, <4>1, <4>2 DEF Answers, r
      <4>. QED  BY <3>2, <4>2, <4>3 DEF Founder, r
    <3>. QED  BY <3>1, <3>2 DEF Founder
  <2>3. CASE rep # None
    BY <2>1, <2>2, <2>3 DEF IInv, Founders
  <2>4. CASE rep = None
    <3>1. \A i \in Node \ {n} : Listed(i) = {}
      <4>1. \A j \in DOMAIN server.list : server.list[j].addr \in Node
        BY <1>0, Types
      <4>. QED  BY <2>4, <4>1 DEF Leads, BootstrapAssumption
    <3>2. \A i \in Node \ {n} : ~Founder(i)
      BY <3>1 DEF IInv, Remembered, Founder, Told
    <3>. QED  BY <2>1, <3>2
  <2>. QED  BY <2>3, <2>4
<1>10. ASSUME conf.faults.restart = 0  PROVE Reported' /\ Known' /\ Earlier' /\ Clear'
  <2>0. Reported /\ Known /\ Earlier /\ Clear
    BY <1>10 DEF IInv
  <2>1. Reported'
    <3>1. ASSUME NEW i \in DOMAIN list, list[i].joined  PROVE ~Pending(list[i].addr)
      <4>1. PICK j \in DOMAIN server.list :
              list[i].addr = server.list[j].addr /\ list[i].joined = server.list[j].joined
        BY <3>1 DEF Relists
      <4>. QED  BY <2>0, <3>1, <4>1 DEF Reported
    <3>2. \A i \in DOMAIN list : list[i].addr \in Node
      BY ListingOK
    <3>. QED  BY <1>0, <1>2, <1>3, <1>5, <2>0, <3>1, <3>2, Types DEF Reported
  <2>2. Known'
    <3>1. ASSUME NEW i \in DOMAIN list  PROVE Told(list[i].addr) \/ list[i].addr = n
      <4>1. CASE list[i].addr = n
        BY <4>1
      <4>2. CASE list[i].addr # n
        <5>1. PICK j \in DOMAIN server.list : list[i].addr = server.list[j].addr
          BY <4>2 DEF Relists
        <5>. QED  BY <2>0, <5>1 DEF Known
      <4>. QED  BY <4>1, <4>2
    <3>2. \A i \in DOMAIN list : list[i].addr \in Node
      BY ListingOK
    <3>3. \A m \in server.booted : m \in Node /\ Told(m)
      BY <1>0, <2>0, Types DEF Known
    <3>4. node[n].status = "NEW" => 1 \in Answers(n)'
      <4>1. CASE r = <<>>
        BY <1>1, <1>2, <4>1
      <4>2. CASE r # <<>>
        BY <1>2, <2>0, <4>2 DEF Known, r
      <4>. QED  BY <4>1, <4>2
    <3>5. \A m \in Node : node'[m].status = "NEW" /\ net'.resp[m] # <<>> => 1 \in Answers(m)'
      BY <1>2, <2>0, <3>4 DEF Known
    <3>6. \A m \in b : Told(m)'
      BY <1>6, <3>3 DEF b
    <3>7. \A i \in DOMAIN list : Told(list[i].addr)'
      BY <1>6, <3>1, <3>2
    <3>. QED  BY <1>3, <3>5, <3>6, <3>7 DEF Known
  <2>3. Earlier'
    <3>. SUFFICES ASSUME ~Static
                  PROVE  /\ \A m \in Node : RepOf(m)' \in Node => Told(RepOf(m))'
                         /\ \A S \in SUBSET Node : (\A m \in S : RepOf(m)' \in S) => S = {}
      BY DEF Earlier, Static
    <3>0. /\ \A m \in Node : RepOf(m) \in Node => Told(RepOf(m))
          /\ \A S \in SUBSET Node : (\A m \in S : RepOf(m) \in S) => S = {}
      BY <2>0 DEF Earlier
    <3>1. \A m \in Node : m # n => RepOf(m)' = RepOf(m)
      BY <1>2 DEF RepOf
    <3>2. CASE Told(n)
      <4>1. RepOf(n)' = RepOf(n)
        <5>1. CASE node[n].status # "NEW"
          BY <5>1 DEF RepOf
        <5>2. CASE node[n].status = "NEW"
          <6>1. Answers(n) # {} /\ r # <<>>
            BY <1>1, <3>2, <5>2 DEF Told, Answers, r
          <6>2. 1 \in DOMAIN r
            BY <1>1, <6>1
          <6>3. net'.resp[n][1] = net.resp[n][1] /\ Answers(n)' # {}
            BY <1>2, <6>2 DEF r
          <6>. QED  BY <5>2, <6>1, <6>3 DEF RepOf
        <5>. QED  BY <5>1, <5>2
      <4>2. \A m \in Node : RepOf(m)' = RepOf(m)
        BY <3>1, <4>1
      <4>. QED  BY <1>6, <3>0, <4>2, Zenon
    <3>3. CASE ~Told(n)
      <4>1. node[n].status = "NEW" /\ Answers(n) = {} /\ r = <<>>
        BY <2>0, <3>3 DEF Told, Known, r
      <4>2. RepOf(n)' = rep
        <5>1. Len(r) + 1 = 1
          BY <4>1
        <5>. QED  BY <1>2, <4>1, <5>1 DEF RepOf
      <4>3. rep \in Node => Told(rep)
        <5>1. CASE rep = None
          BY <5>1 DEF BootstrapAssumption
        <5>2. CASE \E j \in DOMAIN server.list : rep = server.list[j].addr
          BY <2>0, <5>2 DEF Known
        <5>. QED  BY <5>1, <5>2 DEF Leads
      <4>. DEFINE f == [m \in Node |-> RepOf(m)]
                  g == [m \in Node |-> RepOf(m)']
                  T == {m \in Node : Told(m)}
      <4>4. /\ T \in SUBSET Node /\ n \in Node \ T
            /\ \A m \in Node \ {n} : g[m] = f[m]
            /\ \A m \in Node : f[m] \in Node => f[m] \in T
            /\ g[n] \in Node => g[n] \in T
            /\ \A S \in SUBSET Node : (\A m \in S : f[m] \in S) => S = {}
        <5>1. \A m \in Node : f[m] = RepOf(m) /\ g[m] = RepOf(m)'
          OBVIOUS
        <5>2. \A m \in Node : m \in T <=> Told(m)
          OBVIOUS
        <5>. HIDE DEF f, g, T
        <5>3. \A S \in SUBSET Node : (\A m \in S : f[m] \in S) => S = {}
          <6>. TAKE S \in SUBSET Node
          <6>. HAVE \A m \in S : f[m] \in S
          <6>1. \A m \in S : RepOf(m) \in S
            BY <5>1
          <6>. QED  BY <3>0, <6>1, Zenon
        <5>. QED  BY <3>0, <3>1, <3>3, <4>2, <4>3, <5>1, <5>2, <5>3 DEF T
      <4>5. \A S \in SUBSET Node : (\A m \in S : g[m] \in S) => S = {}
        <5>. HIDE DEF f, g, T
        <5>. QED  BY <4>4, EarlierServed
      <4>6. \A m \in Node : RepOf(m)' \in Node => Told(RepOf(m))'
        <5>. TAKE m \in Node
        <5>. HAVE RepOf(m)' \in Node
        <5>1. Told(RepOf(m)')
          BY <3>0, <3>1, <4>2, <4>3
        <5>. QED  BY <1>6, <5>1
      <4>7. \A S \in SUBSET Node : (\A m \in S : RepOf(m)' \in S) => S = {}
        <5>. TAKE S \in SUBSET Node
        <5>. HAVE \A m \in S : RepOf(m)' \in S
        <5>1. \A m \in S : g[m] \in S
          OBVIOUS
        <5>. HIDE DEF g
        <5>. QED  BY <4>5, <5>1
      <4>. QED  BY <4>6, <4>7
    <3>. QED  BY <3>2, <3>3
  <2>4. Clear'
    <3>1. {m \in Node : ~Pending(m)}' = {m \in Node : ~Pending(m)}
      BY <1>5
    <3>. QED  BY <1>3, <2>0, <3>1 DEF Clear
  <2>. QED  BY <2>1, <2>2, <2>3, <2>4
<1>. QED  BY <1>4, <1>5, <1>8, <1>9, <1>10 DEF IInv

-----------------------------------------------------------------------------
(***************************************************************************)
(* Everything but an answer: nobody new is told where to join.             *)
(***************************************************************************)

Moves ==
    /\ \A m \in Node : (Pending(m)' => Pending(m)) /\ (Told(m) => Told(m)')
    /\ \A m \in Node : RepOf(m)' \in Node => RepOf(m)' = RepOf(m)
    /\ \A m \in Node : node'[m].status = "NEW" /\ net'.resp[m] # <<>> => 1 \in Answers(m)'
    /\ \A m \in net'.hbeat : ~Pending(m)
    /\ \A i \in DOMAIN server'.list : LET e == server'.list[i] IN
          Told(e.addr) /\ (e.joined => ~Pending(e.addr))
    /\ server'.booted = server.booted
    /\ server'.allJoined => \/ server.allJoined
                            \/ Cardinality({m \in Node : ~Pending(m)}) >= conf.nServers

\* What is known of reported and joined nodes is kept when nodes only go on, and none starts again.
LEMMA MovesInv ==
    ASSUME BootstrapAssumption, TypeOK, TypeOK', conf' = conf,
           Reported, Known, Earlier, Clear, Moves
    PROVE  Reported' /\ Known' /\ Earlier' /\ Clear'
<1>1. /\ \A i \in DOMAIN server'.list : server'.list[i].addr \in Node
      /\ net'.hbeat \subseteq Node /\ server'.booted \subseteq Node
      /\ server.allJoined \in BOOLEAN
  BY Types, ListingOK DEF TypeOK
<1>2. Reported'
  <2>1. \A m \in net'.hbeat : ~Pending(m)'
    BY <1>1 DEF Moves
  <2>2. \A i \in DOMAIN server'.list : server'.list[i].joined => ~Pending(server.list[i].addr)'
    BY <1>1 DEF Moves
  <2>. QED  BY <2>1, <2>2 DEF Reported
<1>3. Known'
  <2>1. \A m \in server'.booted : Told(m)'
    BY <1>1 DEF Moves, Known
  <2>2. \A i \in DOMAIN server'.list : Told(server.list[i].addr)'
    BY <1>1 DEF Moves
  <2>. QED  BY <2>1, <2>2 DEF Known, Moves
<1>4. Earlier'
  <2>. SUFFICES ASSUME ~Static
                PROVE  /\ \A m \in Node : RepOf(m)' \in Node => Told(RepOf(m))'
                       /\ \A S \in SUBSET Node : (\A m \in S : RepOf(m)' \in S) => S = {}
    BY DEF Earlier, Static
  <2>0. /\ \A m \in Node : RepOf(m) \in Node => Told(RepOf(m))
        /\ \A S \in SUBSET Node : (\A m \in S : RepOf(m) \in S) => S = {}
        /\ \A m \in Node : RepOf(m)' \in Node => RepOf(m)' = RepOf(m)
        /\ \A m \in Node : Told(m) => Told(m)'
    BY Zenon DEF Earlier, Moves
  <2>1. ASSUME NEW m \in Node, RepOf(m)' \in Node  PROVE Told(RepOf(m))'
    <3>1. RepOf(m)' = RepOf(m) /\ RepOf(m) \in Node /\ Told(RepOf(m))
      BY <2>0, <2>1
    <3>2. PICK k \in Node : k = RepOf(m)
      BY <3>1
    <3>3. Told(k)'
      BY <2>0, <3>1, <3>2
    <3>. QED  BY <3>1, <3>2, <3>3
  <2>2. ASSUME NEW S \in SUBSET Node, \A m \in S : RepOf(m)' \in S  PROVE S = {}
    <3>1. \A m \in S : RepOf(m) \in S
      BY <2>0, <2>2
    <3>. QED  BY <2>0, <3>1, Zenon
  <2>. QED  BY <2>1, <2>2
<1>5. Clear'
  <2>. DEFINE A == {m \in Node : ~Pending(m)}
              B == {m \in Node : ~Pending(m)'}
  <2>1. A \subseteq B
    BY DEF Moves
  <2>2. IsFiniteSet(B) /\ Cardinality(A) <= Cardinality(B) /\ Cardinality(A) \in Nat /\ Cardinality(B) \in Nat
    <3>1. IsFiniteSet(B)
      BY FS_Subset DEF BootstrapAssumption
    <3>2. IsFiniteSet(A) /\ Cardinality(A) <= Cardinality(B)
      BY <2>1, <3>1, FS_Subset
    <3>. QED  BY <3>1, <3>2, FS_CardinalityType
  <2>3. conf.nServers \in Nat
    BY DEF BootstrapAssumption, TypeOK
  <2>4. {m \in Node : ~Pending(m)}' = B
    OBVIOUS
  <2>5. server'.allJoined => Cardinality(A) >= conf.nServers
    BY DEF Moves, Clear
  <2>. HIDE DEF A, B
  <2>6. server'.allJoined => Cardinality(B) >= conf.nServers
    BY <2>2, <2>3, <2>5
  <2>. QED  BY <2>4, <2>6 DEF Clear
<1>. QED  BY <1>2, <1>3, <1>4, <1>5

\* A step that tells nobody anything, and takes nobody off the list, keeps the invariant.
LEMMA QuietInv ==
    ASSUME BootstrapAssumption, IInv, TypeOK', Ways', conf' = conf,
           \A m \in Node : Told(m)' /\ node'[m].status # "DEAD" => Told(m) /\ node[m].status # "DEAD",
           \A m \in Node : node'[m].status # "DEAD" /\ Listed(m) # {} => Listed(m)' # {},
           \A m \in Node : Founder(m)' => Founder(m) \/ Static,
           conf.faults.restart = 0 => Moves
    PROVE  IInv'
<1>1. Remembered'
  BY DEF IInv, Remembered
<1>2. Founders'
  BY DEF IInv, Founders, Static
<1>3. conf.faults.restart = 0 => Reported' /\ Known' /\ Earlier' /\ Clear'
  BY MovesInv DEF IInv
<1>. QED  BY <1>1, <1>2, <1>3 DEF IInv

\* The server alone moves, and nobody is told anything.
LEMMA ServerInv ==
    ASSUME BootstrapAssumption, IInv, TypeOK', UNCHANGED <<conf, node>>, net'.resp = net.resp,
           \A m \in Node : node[m].status # "DEAD" /\ Listed(m) # {} => Listed(m)' # {},
           conf.faults.restart = 0 =>
              /\ \A m \in net'.hbeat : ~Pending(m)
              /\ \A i \in DOMAIN server'.list : LET e == server'.list[i] IN
                    Told(e.addr) /\ (e.joined => ~Pending(e.addr)),
           server'.booted = server.booted, server'.allJoined = server.allJoined
    PROVE  IInv'
<1>1. \A m \in Node : /\ Answers(m)' = Answers(m) /\ (Told(m)' <=> Told(m))
                      /\ (Founder(m)' <=> Founder(m)) /\ RepOf(m)' = RepOf(m)
                      /\ (Pending(m)' <=> Pending(m))
  BY DEF Answers, Told, Founder, RepOf, Pending
<1>2. Ways'
  BY DEF IInv, Ways, Static
<1>3. conf.faults.restart = 0 => Moves
  <2>. HAVE conf.faults.restart = 0
  <2>1. \A m \in Node : node'[m].status = "NEW" /\ net'.resp[m] # <<>> => 1 \in Answers(m)'
    BY <1>1 DEF IInv, Known
  <2>. QED  BY <1>1, <2>1 DEF Moves
<1>. QED  BY <1>1, <1>2, <1>3, QuietInv

\* A heartbeat that comes is of a node that had joined.
LEMMA HeartbeatReceivedInv ==
    ASSUME BootstrapAssumption, IInv, NEW n \in Node, HandleHeartbeat(n)
    PROVE  IInv'
<1>. DEFINE s == server.list
            yes == TRUE
            e == [Entry(n, 0) EXCEPT !.joined = yes]
            t == server'.list
<1>0. TypeOK
  BY DEF IInv
<1>1. /\ s \in Seq(Listing) /\ DOMAIN s = 1 .. Len(s) /\ Len(s) \in Nat
      /\ \A i \in DOMAIN s : s[i] \in Listing /\ s[i].addr \in Node
      /\ server.booted \subseteq Node /\ net.hbeat \subseteq Node
  BY <1>0, Types
<1>2. /\ n \in net.hbeat /\ UNCHANGED <<conf, faults, node>>
      /\ net' = [net EXCEPT !.hbeat = @ \ {n}]
      /\ \/ Listed(n) # {} /\ server' = [server EXCEPT !.list[Min(Listed(n))].joined = yes]
         \/ Listed(n) = {} /\ server' = [server EXCEPT !.list = Append(@, e)]
  BY Zenon DEF HandleHeartbeat
<1>3. yes \in BOOLEAN
  OBVIOUS
<1>. HIDE DEF yes
<1>4. e \in Listing /\ e.addr = n
  BY <1>3 DEF Entry, Listing
<1>. HIDE DEF e
<1>5. /\ t \in Seq(Listing) /\ server' = [server EXCEPT !.list = t]
      /\ \A i \in DOMAIN t : \/ t[i].addr = n
                             \/ i \in DOMAIN s /\ t[i] = s[i]
      /\ \A i \in DOMAIN s : i \in DOMAIN t /\ t[i].addr = s[i].addr
  <2>1. CASE Listed(n) # {}
    <3>. DEFINE i == Min(Listed(n))
    <3>1. i \in DOMAIN s /\ s[i].addr = n
      <4>1. Listed(n) \in SUBSET Nat
        BY <1>1 DEF Listed
      <4>2. i \in Listed(n)
        BY <2>1, <4>1, MinOK
      <4>. QED  BY <4>2 DEF Listed
    <3>2. server' = [server EXCEPT !.list[i].joined = yes]
      BY <1>2, <2>1
    <3>. HIDE DEF i
    <3>. DEFINE d == [s[i] EXCEPT !.joined = yes]
                u == [s EXCEPT ![i] = d]
    <3>3. server' = [server EXCEPT !.list = u] /\ t = u
      BY <1>0, <3>2 DEF TypeOK
    <3>4. d \in Listing /\ d.addr = n
      <4>1. s[i] \in Listing
        BY <1>1, <3>1
      <4>. QED  BY <1>3, <3>1, <4>1 DEF Listing
    <3>. HIDE DEF d
    <3>5. u \in Seq(Listing) /\ DOMAIN u = DOMAIN s /\ \A k \in DOMAIN s : u[k] = IF k = i THEN d ELSE s[k]
      BY <1>1, <3>1, <3>4
    <3>. HIDE DEF u, s, t
    <3>. QED  BY <3>1, <3>3, <3>4, <3>5
  <2>2. CASE Listed(n) = {}
    <3>. DEFINE u == Append(s, e)
    <3>1. server' = [server EXCEPT !.list = u] /\ t = u
      BY <1>0, <1>2, <2>2 DEF TypeOK
    <3>2. /\ u \in Seq(Listing) /\ DOMAIN u = 1 .. Len(s) + 1 /\ u[Len(s) + 1] = e
          /\ \A k \in DOMAIN s : u[k] = s[k]
      BY <1>1, <1>4
    <3>. HIDE DEF u, t
    <3>. QED  BY <1>1, <1>4, <3>1, <3>2
  <2>. QED  BY <2>1, <2>2
<1>. HIDE DEF s, t
<1>6. /\ server'.list = t /\ server'.booted = server.booted /\ server'.allJoined = server.allJoined
      /\ net'.resp = net.resp /\ net'.hbeat = net.hbeat \ {n}
  BY <1>0, <1>2, <1>5 DEF TypeOK
<1>7. TypeOK'
  BY <1>0, <1>1, <1>2, <1>5 DEF TypeOK
<1>8. \A m \in Node : Listed(m) # {} => Listed(m)' # {}
  <2>. TAKE m \in Node
  <2>. HAVE Listed(m) # {}
  <2>1. PICK i \in DOMAIN s : s[i].addr = m
    BY DEF Listed, s
  <2>2. i \in DOMAIN t /\ t[i].addr = m
    BY <1>5, <2>1
  <2>. QED  BY <1>6, <2>2 DEF Listed
<1>9. ASSUME conf.faults.restart = 0
      PROVE  /\ \A m \in net'.hbeat : ~Pending(m)
             /\ \A i \in DOMAIN t : Told(t[i].addr) /\ (t[i].joined => ~Pending(t[i].addr))
  <2>1. Reported /\ Known
    BY <1>9 DEF IInv
  <2>2. ~Pending(n) /\ Told(n)
    BY <1>2, <2>1 DEF Reported, Pending, Told
  <2>3. ASSUME NEW i \in DOMAIN t
        PROVE  Told(t[i].addr) /\ (t[i].joined => ~Pending(t[i].addr))
    <3>1. CASE t[i].addr = n
      BY <2>2, <3>1
    <3>2. CASE i \in DOMAIN s /\ t[i] = s[i]
      BY <2>1, <3>2 DEF Reported, Known, s
    <3>. QED  BY <1>5, <3>1, <3>2
  <2>. QED  BY <1>6, <2>1, <2>3 DEF Reported
<1>. QED  BY <1>2, <1>6, <1>7, <1>8, <1>9, ServerInv

\* Only the dead have no heartbeat left that refreshes them.
LEMMA CleanupInv ==
    ASSUME BootstrapAssumption, IInv, CleanupState
    PROVE  IInv'
<1>. DEFINE s == server.list
<1>0. TypeOK
  BY DEF IInv
<1>1. /\ s \in Seq(Listing) /\ DOMAIN s = 1 .. Len(s) /\ Len(s) \in Nat
      /\ \A i \in DOMAIN s : s[i].addr \in Node
      /\ net.hbeat \subseteq Node
  BY <1>0, Types
<1>2. PICK i \in DOMAIN s : Stale(i) /\ server' = [server EXCEPT !.list = RemoveAt(@, i)]
  BY DEF CleanupState
<1>3. UNCHANGED <<conf, faults, node, net>>
  BY DEF CleanupState
<1>. DEFINE t == RemoveAt(s, i)
<1>4. /\ t \in Seq(Listing)
      /\ \A k \in DOMAIN t : \E j \in DOMAIN s : j # i /\ t[k] = s[j]
      /\ \A j \in DOMAIN s : j # i => \E k \in DOMAIN t : t[k] = s[j]
  <2>. HIDE DEF s
  <2>. QED  BY <1>1, Erased
<1>5. server' = [server EXCEPT !.list = t]
  BY <1>2
<1>. HIDE DEF t
<1>6. server'.list = t /\ server'.booted = server.booted /\ server'.allJoined = server.allJoined
  BY <1>0, <1>5 DEF TypeOK
<1>7. TypeOK'
  BY <1>0, <1>3, <1>4, <1>5 DEF TypeOK
<1>8. ASSUME NEW m \in Node, node[m].status # "DEAD", Listed(m) # {}
      PROVE  Listed(m)' # {}
  <2>1. PICK j \in DOMAIN s : s[j].addr = m
    BY <1>8 DEF Listed
  <2>2. \E k \in DOMAIN s : k # i /\ s[k].addr = m
    <3>1. CASE j # i
      BY <2>1, <3>1
    <3>2. CASE j = i
      <4>1. PICK k \in 1 .. i - 1 : s[k].addr = m
        BY <1>2, <1>8, <2>1, <3>2 DEF Stale
      <4>2. k \in DOMAIN s /\ k # i
        BY <1>1
      <4>. QED  BY <4>1, <4>2
    <3>. QED  BY <3>1, <3>2
  <2>3. PICK k \in DOMAIN s : k # i /\ s[k].addr = m
    BY <2>2
  <2>4. PICK h \in DOMAIN t : t[h] = s[k]
    BY <1>4, <2>3
  <2>. QED  BY <1>6, <2>3, <2>4 DEF Listed
<1>9. ASSUME conf.faults.restart = 0
      PROVE  /\ \A m \in net'.hbeat : ~Pending(m)
             /\ \A k \in DOMAIN t : Told(t[k].addr) /\ (t[k].joined => ~Pending(t[k].addr))
  <2>1. Reported /\ Known
    BY <1>9 DEF IInv
  <2>2. ASSUME NEW k \in DOMAIN t
        PROVE  Told(t[k].addr) /\ (t[k].joined => ~Pending(t[k].addr))
    <3>1. PICK j \in DOMAIN s : t[k] = s[j]
      BY <1>4
    <3>. QED  BY <2>1, <3>1 DEF Reported, Known
  <2>. QED  BY <1>3, <2>1, <2>2 DEF Reported
<1>. QED  BY <1>3, <1>6, <1>7, <1>8, <1>9, ServerInv

-----------------------------------------------------------------------------
(***************************************************************************)
(* One node moves.                                                         *)
(***************************************************************************)

\* A client that goes on as it was told keeps the invariant.
LEMMA ClientInv ==
    ASSUME BootstrapAssumption, IInv, TypeOK', NEW n \in Node, NEW g \in Process,
           UNCHANGED <<conf, server>>, node' = [node EXCEPT ![n] = g],
           \A m \in Node \ {n} : net'.resp[m] = net.resp[m],
           net'.hbeat = net.hbeat,
           g.status = "NEW" => g.rep = None,
           g.status = "PLACED" => Static,
           g.status = "JOINING" => ~Static /\ g.rep \in Node,
           Told(n)' /\ g.status # "DEAD" => Told(n) /\ node[n].status # "DEAD",
           Founder(n)' => Founder(n) \/ Static,
           conf.faults.restart = 0 =>
              /\ Pending(n)' => Pending(n)
              /\ Told(n) => Told(n)'
              /\ RepOf(n)' \in Node => RepOf(n)' = RepOf(n)
              /\ g.status = "NEW" /\ net'.resp[n] # <<>> => 1 \in Answers(n)'
    PROVE  IInv'
<1>0. TypeOK
  BY DEF IInv
<1>1. node'[n] = g /\ \A m \in Node \ {n} : node'[m] = node[m]
  BY <1>0 DEF TypeOK
<1>2. \A m \in Node \ {n} :
        /\ Answers(m)' = Answers(m) /\ (Told(m)' <=> Told(m))
        /\ (Founder(m)' <=> Founder(m)) /\ RepOf(m)' = RepOf(m)
        /\ (Pending(m)' <=> Pending(m))
  BY <1>1 DEF Answers, Told, Founder, RepOf, Pending
<1>3. Ways'
  BY <1>1 DEF IInv, Ways, Static
<1>4. ASSUME conf.faults.restart = 0  PROVE Moves
  <2>0. Reported /\ Known
    BY <1>4 DEF IInv
  <2>1. \A m \in Node : node'[m].status = "NEW" /\ net'.resp[m] # <<>> => 1 \in Answers(m)'
    BY <1>1, <1>2, <1>4, <2>0 DEF Known
  <2>2. \A m \in Node : /\ (Pending(m)' => Pending(m)) /\ (Told(m) => Told(m)')
                        /\ (RepOf(m)' \in Node => RepOf(m)' = RepOf(m))
    BY <1>2, <1>4
  <2>. QED  BY <2>0, <2>1, <2>2 DEF Moves, Reported, Known
<1>5. \A m \in Node : Listed(m)' = Listed(m)
  BY DEF Listed
<1>6. \A m \in Node : Told(m)' /\ node'[m].status # "DEAD" => Told(m) /\ node[m].status # "DEAD"
  BY <1>1, <1>2
<1>7. \A m \in Node : Founder(m)' => Founder(m) \/ Static
  BY <1>2
<1>. QED  BY <1>3, <1>4, <1>5, <1>6, <1>7, QuietInv

\* One process changes, and the messages with it.
LEMMA MovedOK ==
    ASSUME TypeOK, NEW n \in Node, NEW g \in Process, node' = [node EXCEPT ![n] = g],
           UNCHANGED <<conf, server>>,
           faults' \in [crash : Nat, restart : Nat, loss : Nat],
           conf.faults.restart = 0 => faults'.restart = 0,
           net' \in [req : [Node -> Nat], resp : [Node -> Seq(Response)], hbeat : SUBSET Node]
    PROVE  TypeOK' /\ node'[n] = g
<1>1. node \in [Node -> Process]
  BY DEF TypeOK
<1>2. node' \in [Node -> Process] /\ node'[n] = g
  BY <1>1
<1>3. /\ conf' \in Scenarios /\ (conf'.faults.restart = 0 => faults'.restart = 0)
      /\ server' \in [list : Seq(Listing), booted : SUBSET Node, allJoined : BOOLEAN]
  BY DEF TypeOK
<1>. QED  BY <1>2, <1>3 DEF TypeOK

\* Nothing happens to the messages, or to the faults that may come.
LEMMA SameOK ==
    ASSUME TypeOK
    PROVE  /\ net \in [req : [Node -> Nat], resp : [Node -> Seq(Response)], hbeat : SUBSET Node]
           /\ faults \in [crash : Nat, restart : Nat, loss : Nat]
           /\ conf.faults.restart = 0 => faults.restart = 0
BY DEF TypeOK

\* The first message of a queue is taken away.
LEMMA TakenOK ==
    ASSUME TypeOK, NEW n \in Node, net.resp[n] # <<>>,
           net' = [net EXCEPT !.resp[n] = Tail(@)]
    PROVE  /\ net' \in [req : [Node -> Nat], resp : [Node -> Seq(Response)], hbeat : SUBSET Node]
           /\ net'.hbeat = net.hbeat
           /\ \A m \in Node \ {n} : net'.resp[m] = net.resp[m]
           /\ Head(net.resp[n]) \in Response /\ Head(net.resp[n]) = net.resp[n][1]
           /\ 1 \in DOMAIN net.resp[n]
           /\ \A i \in DOMAIN net'.resp[n] :
                 i + 1 \in DOMAIN net.resp[n] /\ net'.resp[n][i] = net.resp[n][i + 1]
<1>. DEFINE r == net.resp[n]
            q == Tail(r)
            rs == [net.resp EXCEPT ![n] = q]
<1>1. /\ r \in Seq(Response) /\ net.hbeat \subseteq Node
      /\ net \in [req : [Node -> Nat], resp : [Node -> Seq(Response)], hbeat : SUBSET Node]
  BY Types DEF TypeOK
<1>2. /\ q \in Seq(Response) /\ Head(r) \in Response /\ Head(r) = r[1] /\ 1 \in DOMAIN r
      /\ \A i \in DOMAIN q : i + 1 \in DOMAIN r /\ q[i] = r[i + 1]
  BY <1>1
<1>. HIDE DEF q
<1>3. rs \in [Node -> Seq(Response)] /\ rs[n] = q /\ \A m \in Node \ {n} : rs[m] = net.resp[m]
  BY <1>1, <1>2
<1>4. net' = [req |-> net.req, resp |-> rs, hbeat |-> net.hbeat]
  BY <1>1 DEF q
<1>. HIDE DEF rs, r
<1>. DEFINE rq == net.req
            hb == net.hbeat
<1>a. rq \in [Node -> Nat] /\ hb \in SUBSET Node
  BY <1>1
<1>b. net' = [req |-> rq, resp |-> rs, hbeat |-> hb]
  BY <1>4
<1>. HIDE DEF rq, hb
<1>5. /\ net' \in [req : [Node -> Nat], resp : [Node -> Seq(Response)], hbeat : SUBSET Node]
      /\ net'.hbeat = hb /\ net'.resp = rs
  <2>. DEFINE rec == [req |-> rq, resp |-> rs, hbeat |-> hb]
  <2>1. /\ rec \in [req : [Node -> Nat], resp : [Node -> Seq(Response)], hbeat : SUBSET Node]
        /\ rec.hbeat = hb /\ rec.resp = rs
    BY <1>3, <1>a
  <2>. HIDE DEF rec
  <2>2. net' = rec
    BY <1>b DEF rec
  <2>. QED  BY <2>1, <2>2
<1>6. \A i \in DOMAIN rs[n] : i + 1 \in DOMAIN r /\ rs[n][i] = r[i + 1]
  BY <1>2, <1>3
<1>. QED  BY <1>2, <1>3, <1>5, <1>6 DEF hb, r

\* A client that is told a representative joins through it; the first founds.
LEMMA ResponseInv ==
    ASSUME BootstrapAssumption, IInv, NEW n \in Node, HandleBootstrapResponse(n)
    PROVE  IInv'
<1>. DEFINE h == node[n]
            rep == Head(net.resp[n]).rep
            g == IF h.status # "NEW" THEN h ELSE StartJoin(h, rep)
<1>0. TypeOK
  BY DEF IInv
<1>1. /\ net.resp[n] # <<>> /\ Head(net.resp[n]).type = "BOOTSTRAP_RESPONSE"
      /\ node' = [node EXCEPT ![n] = g] /\ UNCHANGED <<conf, faults, server>>
      /\ net' = [net EXCEPT !.resp[n] = Tail(@)]
  BY <1>0 DEF HandleBootstrapResponse, TypeOK
<1>2. /\ net' \in [req : [Node -> Nat], resp : [Node -> Seq(Response)], hbeat : SUBSET Node]
      /\ net'.hbeat = net.hbeat
      /\ \A m \in Node \ {n} : net'.resp[m] = net.resp[m]
      /\ Head(net.resp[n]) \in Response /\ Head(net.resp[n]) = net.resp[n][1]
      /\ 1 \in DOMAIN net.resp[n]
      /\ \A i \in DOMAIN net'.resp[n] :
            i + 1 \in DOMAIN net.resp[n] /\ net'.resp[n][i] = net.resp[n][i + 1]
  BY <1>0, <1>1, TakenOK
<1>3. rep \in Node \cup {None} /\ 1 \in Answers(n) /\ net.resp[n][1].rep = rep
  BY <1>1, <1>2 DEF Response, Answers
<1>4. h \in Process
  BY <1>0 DEF TypeOK
<1>. HIDE DEF rep
<1>5. CASE h.status = "NEW"
  <2>1. g = StartJoin(h, rep)
    BY <1>5
  <2>2. /\ g \in Process /\ g.rep = rep
        /\ g.status = IF Static THEN "PLACED" ELSE IF rep = None THEN "JOINED" ELSE "JOINING"
    BY <1>3, <1>4, <2>1 DEF StartJoin, Process, Status
  <2>. HIDE DEF g
  <2>3. TypeOK' /\ node'[n] = g
    BY <1>0, <1>1, <1>2, <2>2 DEF TypeOK
  <2>4. Told(n) /\ Told(n)' /\ Pending(n) /\ RepOf(n)' = rep /\ RepOf(n) = rep
    BY <1>3, <1>5, <2>2, <2>3 DEF Told, Pending, RepOf
  <2>5. Founder(n)' => Founder(n)
    BY <1>3, <1>5, <2>2, <2>3 DEF Founder
  <2>6. /\ g.status # "NEW" /\ (g.status = "PLACED" => Static)
        /\ (g.status = "JOINING" => ~Static /\ g.rep \in Node)
    BY <1>3, <2>2
  <2>7. Told(n)' /\ g.status # "DEAD" => Told(n) /\ node[n].status # "DEAD"
    BY <1>5, <2>4
  <2>8. /\ Pending(n)' => Pending(n)
        /\ Told(n) => Told(n)'
        /\ RepOf(n)' \in Node => RepOf(n)' = RepOf(n)
        /\ g.status = "NEW" /\ net'.resp[n] # <<>> => 1 \in Answers(n)'
    BY <2>4, <2>6
  <2>9. Founder(n)' => Founder(n) \/ Static
    BY <2>5
  <2>. HIDE DEF h
  <2>. QED  BY <1>1, <1>2, <2>2, <2>3, <2>6, <2>7, <2>8, <2>9, ClientInv
<1>6. CASE h.status # "NEW"
  <2>1. g = h
    BY <1>6
  <2>. HIDE DEF g
  <2>3. TypeOK' /\ node'[n] = h
    BY <1>0, <1>1, <1>2, <1>4, <2>1 DEF TypeOK
  <2>4. /\ Told(n) /\ Told(n)' /\ (Pending(n)' <=> Pending(n)) /\ RepOf(n)' = RepOf(n)
        /\ (Founder(n)' <=> Founder(n))
    BY <1>6, <2>3 DEF Told, Pending, RepOf, Founder
  <2>5. Ways
    BY DEF IInv
  <2>6. /\ (h.status = "PLACED" => Static)
        /\ (h.status = "JOINING" => ~Static /\ h.rep \in Node)
    BY <2>5 DEF Ways
  <2>. QED  BY <1>1, <1>2, <1>4, <1>6, <2>1, <2>3, <2>4, <2>6, ClientInv
<1>. QED  BY <1>5, <1>6

\* The all clear is heard by those that joined.
LEMMA AllJoinedInv ==
    ASSUME BootstrapAssumption, IInv, NEW n \in Node, HandleAllJoined(n)
    PROVE  IInv'
<1>. DEFINE h == node[n]
            yes == TRUE
            st == IF h.status = "PLACED" THEN "JOINED" ELSE h.status
            g == IF h.status = "DEAD" THEN h ELSE [h EXCEPT !.allJoined = yes, !.status = st]
<1>0. TypeOK
  BY DEF IInv
<1>1. /\ net.resp[n] # <<>> /\ Head(net.resp[n]).type = "CB_ALLJOINED"
      /\ node' = [node EXCEPT ![n] = g] /\ UNCHANGED <<conf, faults, server>>
      /\ net' = [net EXCEPT !.resp[n] = Tail(@)]
  BY DEF HandleAllJoined
<1>2. /\ net' \in [req : [Node -> Nat], resp : [Node -> Seq(Response)], hbeat : SUBSET Node]
      /\ net'.hbeat = net.hbeat
      /\ \A m \in Node \ {n} : net'.resp[m] = net.resp[m]
      /\ Head(net.resp[n]) = net.resp[n][1]
      /\ \A i \in DOMAIN net'.resp[n] :
            i + 1 \in DOMAIN net.resp[n] /\ net'.resp[n][i] = net.resp[n][i + 1]
  BY <1>0, <1>1, TakenOK
<1>3. 1 \notin Answers(n)
  BY <1>1, <1>2 DEF Answers
<1>4. h \in Process /\ yes \in BOOLEAN
  BY <1>0 DEF TypeOK
<1>. HIDE DEF yes
<1>5. st \in Status
  BY <1>4 DEF Process, Status
<1>6. /\ g \in Process /\ g.rep = h.rep
      /\ (g.status = h.status \/ (h.status = "PLACED" /\ g.status = "JOINED"))
  <2>1. CASE h.status = "DEAD"
    BY <1>4, <2>1
  <2>2. CASE h.status # "DEAD"
    <3>1. g = [h EXCEPT !.allJoined = yes, !.status = st]
      BY <2>2
    <3>. HIDE DEF g
    <3>2. g \in Process /\ g.rep = h.rep /\ g.status = st
      <4>. HIDE DEF st
      <4>. QED  BY <1>4, <1>5, <3>1 DEF Process
    <3>. QED  BY <3>2
  <2>. QED  BY <2>1, <2>2
<1>. HIDE DEF g, st
<1>7. TypeOK' /\ node'[n] = g
  BY <1>0, <1>1, <1>2, <1>6 DEF TypeOK
<1>8. Ways /\ (conf.faults.restart = 0 => Known)
  BY DEF IInv
<1>9. ASSUME NEW i \in Answers(n)'
      PROVE  i + 1 \in Answers(n) /\ net'.resp[n][i] = net.resp[n][i + 1]
  <2>1. i \in DOMAIN net'.resp[n] /\ net'.resp[n][i].type = "BOOTSTRAP_RESPONSE"
    BY DEF Answers
  <2>. QED  BY <1>2, <2>1 DEF Answers
<1>10. Told(n)' => Told(n)
  BY <1>6, <1>7, <1>9 DEF Told
<1>11. Founder(n)' => Founder(n) \/ Static
  <2>1. CASE h.status = "PLACED"
    <3>1. Static
      BY <1>8, <2>1 DEF Ways
    <3>. QED  BY <3>1
  <2>2. CASE h.status # "PLACED"
    <3>1. g.status = h.status
      BY <1>6, <2>2
    <3>. QED  BY <1>6, <1>7, <1>9, <3>1 DEF Founder
  <2>. QED  BY <2>1, <2>2
<1>12. /\ (g.status = "NEW" => g.rep = None)
       /\ (g.status = "PLACED" => Static)
       /\ (g.status = "JOINING" => ~Static /\ g.rep \in Node)
  BY <1>6, <1>8 DEF Ways
<1>13. ASSUME conf.faults.restart = 0
       PROVE  h.status # "NEW"
  BY <1>1, <1>3, <1>8, <1>13 DEF Known
<1>14. conf.faults.restart = 0 =>
         /\ Pending(n)' => Pending(n)
         /\ Told(n) => Told(n)'
         /\ RepOf(n)' \in Node => RepOf(n)' = RepOf(n)
         /\ g.status = "NEW" /\ net'.resp[n] # <<>> => 1 \in Answers(n)'
  BY <1>6, <1>7, <1>13 DEF Pending, Told, RepOf
<1>15. g.status # "DEAD" => h.status # "DEAD"
  BY <1>6
<1>. QED  BY <1>1, <1>2, <1>6, <1>7, <1>10, <1>11, <1>12, <1>14, <1>15, ClientInv

\* A request more or less, with a process that remembers what it was told.
LEMMA RequestsOK ==
    ASSUME TypeOK, NEW n \in Node, NEW k \in Nat, net' = [net EXCEPT !.req[n] = k]
    PROVE  /\ net' \in [req : [Node -> Nat], resp : [Node -> Seq(Response)], hbeat : SUBSET Node]
           /\ net'.hbeat = net.hbeat /\ net'.resp = net.resp
<1>1. net \in [req : [Node -> Nat], resp : [Node -> Seq(Response)], hbeat : SUBSET Node]
  BY DEF TypeOK
<1>. DEFINE rq == [net.req EXCEPT ![n] = k]
            rec == [req |-> rq, resp |-> net.resp, hbeat |-> net.hbeat]
<1>2. rq \in [Node -> Nat]
  BY <1>1
<1>3. net' = rec
  BY <1>1
<1>. HIDE DEF rq
<1>4. /\ rec \in [req : [Node -> Nat], resp : [Node -> Seq(Response)], hbeat : SUBSET Node]
      /\ rec.hbeat = net.hbeat /\ rec.resp = net.resp
  BY <1>1, <1>2
<1>. HIDE DEF rec
<1>. QED  BY <1>3, <1>4

\* A client that hears nothing asks again.
LEMMA RequestTimeoutInv ==
    ASSUME BootstrapAssumption, IInv, NEW n \in Node, RequestTimeout(n)
    PROVE  IInv'
<1>. DEFINE h == node[n]
            a == h.asked + 1
            k == net.req[n] + 1
<1>0. TypeOK /\ Ways
  BY DEF IInv
<1>1. h \in Process /\ h.status = "NEW" /\ h.rep = None /\ UNCHANGED <<conf, faults, server>>
  BY <1>0 DEF TypeOK, Ways, RequestTimeout
<1>2. a \in Nat /\ k \in Nat
  BY <1>0, Types
<1>3. conf.faults.restart = 0 => Known
  BY DEF IInv
<1>4. CASE /\ node' = [node EXCEPT ![n].asked = a]
           /\ net' = [net EXCEPT !.req[n] = k]
  <2>. DEFINE g == [h EXCEPT !.asked = a]
  <2>. HIDE DEF a, k
  <2>1. g \in Process /\ g.status = "NEW" /\ g.rep = None
    BY <1>1, <1>2 DEF Process
  <2>2. node' = [node EXCEPT ![n] = g]
    BY <1>0, <1>4 DEF TypeOK
  <2>. HIDE DEF g
  <2>3. /\ net' \in [req : [Node -> Nat], resp : [Node -> Seq(Response)], hbeat : SUBSET Node]
        /\ net'.hbeat = net.hbeat /\ net'.resp = net.resp
    BY <1>0, <1>2, <1>4, RequestsOK
  <2>4. TypeOK' /\ node'[n] = g
    BY <1>0, <1>1, <2>1, <2>2, <2>3 DEF TypeOK
  <2>5. Answers(n)' = Answers(n)
    BY <2>3 DEF Answers
  <2>6. /\ (Told(n)' <=> Told(n)) /\ (Founder(n)' <=> Founder(n)) /\ RepOf(n)' = RepOf(n)
        /\ (Pending(n)' <=> Pending(n))
    BY <1>1, <2>1, <2>3, <2>4, <2>5 DEF Told, Founder, RepOf, Pending
  <2>7. conf.faults.restart = 0 => (net'.resp[n] # <<>> => 1 \in Answers(n)')
    BY <1>1, <1>3, <2>3, <2>5 DEF Known
  <2>. QED  BY <1>1, <2>1, <2>2, <2>3, <2>4, <2>6, <2>7, ClientInv
<1>5. CASE /\ net.resp[n] = <<>>
           /\ node' = [node EXCEPT ![n].status = "DEAD"]
           /\ UNCHANGED net
  <2>. DEFINE g == [h EXCEPT !.status = "DEAD"]
  <2>1. g \in Process /\ g.status = "DEAD" /\ g.rep = None
    BY <1>1 DEF Process, Status
  <2>2. node' = [node EXCEPT ![n] = g]
    BY <1>0, <1>5 DEF TypeOK
  <2>. HIDE DEF g
  <2>3. TypeOK' /\ node'[n] = g
    BY <1>0, <1>1, <1>5, <2>1, <2>2, MovedOK, SameOK
  <2>4. /\ Told(n)' /\ ~Founder(n)' /\ RepOf(n)' = None /\ ~Pending(n)'
    BY <2>1, <2>3 DEF Told, Founder, RepOf, Pending
  <2>5. None \notin Node
    BY DEF BootstrapAssumption
  <2>. QED  BY <1>1, <1>5, <2>1, <2>2, <2>3, <2>4, <2>5, ClientInv
<1>6. \/ node' = [node EXCEPT ![n].asked = a] /\ net' = [net EXCEPT !.req[n] = k]
      \/ /\ net.resp[n] = <<>> /\ node' = [node EXCEPT ![n].status = "DEAD"]
         /\ UNCHANGED net
  <2>1. CASE node[n].asked < conf.attempts[n]
    BY <2>1 DEF RequestTimeout
  <2>2. CASE ~(node[n].asked < conf.attempts[n])
    BY <2>2 DEF RequestTimeout
  <2>. QED  BY <2>1, <2>2
<1>. QED  BY <1>4, <1>5, <1>6

\* Who joins does so through a member, or founds.
LEMMA JoinInv ==
    ASSUME BootstrapAssumption, IInv, NEW n \in Node, Join(n)
    PROVE  IInv'
<1>. DEFINE h == node[n]
            st == node[h.rep].status
            g == [h EXCEPT !.status = st]
<1>0. TypeOK /\ Ways
  BY DEF IInv
<1>1. /\ h \in Process /\ h.status = "JOINING" /\ h.rep \in Node /\ UNCHANGED <<conf, faults, server, net>>
      /\ st \in {"JOINED", "DEAD"} /\ node' = [node EXCEPT ![n].status = st]
  BY <1>0 DEF TypeOK, Ways, Join
<1>. HIDE DEF st
<1>2. g \in Process /\ g.status = st /\ g.rep = h.rep
  BY <1>1 DEF Process, Status
<1>3. node' = [node EXCEPT ![n] = g]
  BY <1>0, <1>1 DEF TypeOK
<1>. HIDE DEF g
<1>4. TypeOK' /\ node'[n] = g
  BY <1>0, <1>1, <1>2, <1>3, MovedOK, SameOK
<1>5. None \notin Node
  BY DEF BootstrapAssumption
<1>6. /\ Told(n) /\ Told(n)' /\ ~Founder(n)' /\ RepOf(n)' = RepOf(n) /\ ~Pending(n)'
  BY <1>1, <1>2, <1>4, <1>5 DEF Told, Founder, RepOf, Pending
<1>. QED  BY <1>1, <1>2, <1>3, <1>4, <1>6, ClientInv

\* The dead are waited for, but lead nobody in a circle.
LEMMA CrashInv ==
    ASSUME BootstrapAssumption, IInv, NEW n \in Node, Crash(n)
    PROVE  IInv'
<1>. DEFINE h == node[n]
            g == [h EXCEPT !.status = "DEAD"]
            k == faults.crash - 1
<1>0. TypeOK /\ Ways
  BY DEF IInv
<1>1. /\ h \in Process /\ UNCHANGED <<conf, server, net>> /\ (h.status = "NEW" => h.rep = None)
      /\ node' = [node EXCEPT ![n].status = "DEAD"] /\ faults' = [faults EXCEPT !.crash = k]
  BY <1>0 DEF TypeOK, Ways, Crash
<1>2. k \in Nat /\ faults \in [crash : Nat, restart : Nat, loss : Nat]
  BY <1>0 DEF TypeOK, Crash
<1>. HIDE DEF k
<1>3. g \in Process /\ g.status = "DEAD" /\ g.rep = h.rep
  BY <1>1 DEF Process, Status
<1>4. node' = [node EXCEPT ![n] = g]
  BY <1>0, <1>1 DEF TypeOK
<1>. HIDE DEF g
<1>5. faults' \in [crash : Nat, restart : Nat, loss : Nat] /\ faults'.restart = faults.restart
  BY <1>1, <1>2
<1>6. TypeOK' /\ node'[n] = g
  BY <1>0, <1>1, <1>3, <1>4, <1>5, MovedOK, SameOK
<1>7. None \notin Node
  BY DEF BootstrapAssumption
<1>8. Told(n)' /\ ~Founder(n)' /\ RepOf(n)' = h.rep /\ ~Pending(n)'
  BY <1>3, <1>6 DEF Told, Founder, RepOf, Pending
<1>9. RepOf(n)' \in Node => RepOf(n)' = RepOf(n)
  BY <1>1, <1>7, <1>8 DEF RepOf
<1>. QED  BY <1>1, <1>3, <1>4, <1>6, <1>8, <1>9, ClientInv

\* A node that starts again has forgotten what it was told.
LEMMA RestartInv ==
    ASSUME BootstrapAssumption, IInv, NEW n \in Node, Restart(n)
    PROVE  IInv'
<1>. DEFINE no == FALSE
            g == NewNode
            k == faults.restart - 1
            q == <<>>
            rq == [net.req EXCEPT ![n] = 0]
            rs == [net.resp EXCEPT ![n] = q]
            hb == net.hbeat
            rec == [req |-> rq, resp |-> rs, hbeat |-> hb]
<1>0. TypeOK
  BY DEF IInv
<1>1. /\ UNCHANGED <<conf, server>> /\ faults.restart > 0
      /\ node' = [node EXCEPT ![n] = g] /\ faults' = [faults EXCEPT !.restart = k]
      /\ net' = [net EXCEPT !.req[n] = 0, !.resp[n] = q]
  BY DEF Restart
<1>2. k \in Nat /\ faults \in [crash : Nat, restart : Nat, loss : Nat] /\ conf.faults.restart # 0
  BY <1>0, <1>1 DEF TypeOK
<1>. HIDE DEF k
<1>3. g \in Process /\ g.status = "NEW" /\ g.rep = None
  <2>1. NewNode = [status |-> "NEW", asked |-> 0, rep |-> None, allJoined |-> no]
    BY DEF NewNode
  <2>2. no \in BOOLEAN
    OBVIOUS
  <2>. HIDE DEF no
  <2>. QED  BY <2>1, <2>2 DEF Process, Status
<1>. HIDE DEF g
<1>5. faults' \in [crash : Nat, restart : Nat, loss : Nat]
  BY <1>1, <1>2
<1>6. rq \in [Node -> Nat] /\ hb \in SUBSET Node
  BY <1>0 DEF TypeOK
<1>7. rs \in [Node -> Seq(Response)] /\ rs[n] = q /\ \A m \in Node \ {n} : rs[m] = net.resp[m]
  <2>1. net.resp \in [Node -> Seq(Response)] /\ q \in Seq(Response)
    BY <1>0 DEF TypeOK
  <2>. HIDE DEF q
  <2>. QED  BY <2>1
<1>8. net' = rec
  BY <1>0, <1>1 DEF TypeOK
<1>. HIDE DEF rq, rs, hb
<1>9. /\ rec \in [req : [Node -> Nat], resp : [Node -> Seq(Response)], hbeat : SUBSET Node]
      /\ rec.hbeat = hb /\ rec.resp = rs
  BY <1>6, <1>7
<1>. HIDE DEF rec
<1>10. TypeOK' /\ node'[n] = g
  BY <1>0, <1>1, <1>2, <1>3, <1>5, <1>8, <1>9 DEF TypeOK
<1>11. Answers(n)' = {}
  <2>1. DOMAIN q = {}
    OBVIOUS
  <2>. HIDE DEF q
  <2>. QED  BY <1>7, <1>8, <1>9, <2>1 DEF Answers
<1>12. ~Told(n)' /\ ~Founder(n)'
  BY <1>3, <1>10, <1>11 DEF Told, Founder
<1>13. net'.hbeat = net.hbeat /\ \A m \in Node \ {n} : net'.resp[m] = net.resp[m]
  BY <1>7, <1>8, <1>9 DEF hb
<1>. HIDE DEF q
<1>. QED  BY <1>1, <1>2, <1>3, <1>10, <1>12, <1>13, ClientInv

-----------------------------------------------------------------------------
(***************************************************************************)
(* Heartbeats on their way.                                                *)
(***************************************************************************)

\* Heartbeats on their way change nothing else of the net.
LEMMA HeartbeatsOK ==
    ASSUME TypeOK, NEW hb \in SUBSET Node, net' = [net EXCEPT !.hbeat = hb]
    PROVE  /\ net' \in [req : [Node -> Nat], resp : [Node -> Seq(Response)], hbeat : SUBSET Node]
           /\ net'.hbeat = hb /\ net'.resp = net.resp
BY DEF TypeOK

\* Only who has joined sends heartbeats.
LEMMA HeartbeatInv ==
    ASSUME BootstrapAssumption, IInv, NEW n \in Node, Heartbeat(n)
    PROVE  IInv'
<1>. DEFINE hb == net.hbeat \cup {n}
<1>0. TypeOK
  BY DEF IInv
<1>1. hb \in SUBSET Node
  BY <1>0, Types
<1>2. UNCHANGED <<conf, faults, server, node>> /\ net' = [net EXCEPT !.hbeat = hb] /\ ~Pending(n)
  BY DEF Heartbeat, Pending
<1>. HIDE DEF hb
<1>3. /\ net' \in [req : [Node -> Nat], resp : [Node -> Seq(Response)], hbeat : SUBSET Node]
      /\ net'.hbeat = hb /\ net'.resp = net.resp
  BY <1>0, <1>1, <1>2, HeartbeatsOK
<1>4. TypeOK' /\ \A m \in Node : Listed(m)' = Listed(m)
  BY <1>0, <1>2, <1>3 DEF TypeOK, Listed
<1>5. conf.faults.restart = 0 =>
        /\ \A m \in net'.hbeat : ~Pending(m)
        /\ \A i \in DOMAIN server'.list : LET e == server'.list[i] IN
              Told(e.addr) /\ (e.joined => ~Pending(e.addr))
  BY <1>2, <1>3 DEF IInv, Reported, Known, hb
<1>. QED  BY <1>2, <1>3, <1>4, <1>5, ServerInv

\* What is lost was not yet acted on.
LEMMA LoseInv ==
    ASSUME BootstrapAssumption, IInv, NEW n \in Node, Lose(n)
    PROVE  IInv'
<1>. DEFINE hb == net.hbeat \ {n}
            k == faults.loss - 1
<1>0. TypeOK
  BY DEF IInv
<1>1. hb \in SUBSET Node
  BY <1>0, Types
<1>2. UNCHANGED <<conf, server, node>> /\ net' = [net EXCEPT !.hbeat = hb] /\ faults' = [faults EXCEPT !.loss = k]
  BY DEF Lose
<1>3. k \in Nat /\ faults \in [crash : Nat, restart : Nat, loss : Nat]
  BY <1>0 DEF TypeOK, Lose
<1>. HIDE DEF hb, k
<1>4. faults' \in [crash : Nat, restart : Nat, loss : Nat] /\ faults'.restart = faults.restart
  BY <1>2, <1>3
<1>5. /\ net' \in [req : [Node -> Nat], resp : [Node -> Seq(Response)], hbeat : SUBSET Node]
      /\ net'.hbeat = hb /\ net'.resp = net.resp
  BY <1>0, <1>1, <1>2, HeartbeatsOK
<1>6. TypeOK' /\ \A m \in Node : Listed(m)' = Listed(m)
  BY <1>0, <1>2, <1>4, <1>5 DEF TypeOK, Listed
<1>7. conf.faults.restart = 0 =>
        /\ \A m \in net'.hbeat : ~Pending(m)
        /\ \A i \in DOMAIN server'.list : LET e == server'.list[i] IN
              Told(e.addr) /\ (e.joined => ~Pending(e.addr))
  BY <1>2, <1>5 DEF IInv, Reported, Known, hb
<1>. QED  BY <1>2, <1>5, <1>6, <1>7, ServerInv

-----------------------------------------------------------------------------
(***************************************************************************)
(* The all clear.                                                          *)
(***************************************************************************)

\* Who has been answered and whose entry is joined is not on its way in any more.
LEMMA BootedAreIn ==
    ASSUME BootstrapAssumption, IInv, conf.faults.restart = 0,
           \A e \in Range(server.list) : e.joined
    PROVE  /\ server.booted \subseteq {n \in Node : ~Pending(n)}
           /\ Cardinality({n \in Node : ~Pending(n)}) >= Cardinality(server.booted)
<1>. DEFINE A == {n \in Node : ~Pending(n)}
<1>0. TypeOK /\ Remembered /\ Reported /\ Known
  BY DEF IInv
<1>1. ASSUME NEW n \in server.booted  PROVE n \in A
  <2>1. n \in Node /\ Told(n)
    BY <1>0, Types DEF Known
  <2>2. CASE node[n].status = "DEAD"
    BY <2>1, <2>2 DEF Pending
  <2>3. CASE node[n].status # "DEAD"
    <3>1. PICK i \in DOMAIN server.list : server.list[i].addr = n
      BY <1>0, <2>1, <2>3 DEF Remembered, Listed
    <3>2. server.list[i].joined
      BY DEF Range
    <3>. QED  BY <1>0, <2>1, <3>1, <3>2 DEF Reported
  <2>. QED  BY <2>2, <2>3
<1>2. IsFiniteSet(A)
  BY FS_Subset DEF BootstrapAssumption
<1>3. server.booted \subseteq A
  BY <1>1
<1>. HIDE DEF A
<1>4. IsFiniteSet(server.booted) /\ Cardinality(server.booted) <= Cardinality(A)
  BY <1>2, <1>3, FS_Subset
<1>5. Cardinality(server.booted) \in Nat /\ Cardinality(A) \in Nat
  BY <1>2, <1>4, FS_CardinalityType
<1>. QED  BY <1>3, <1>4, <1>5 DEF A

\* The server counts nodes that joined, were placed or died.
LEMMA AllClearInv ==
    ASSUME BootstrapAssumption, IInv, CheckAllJoined
    PROVE  IInv'
<1>. DEFINE yes == TRUE
            cb == [type |-> "CB_ALLJOINED"]
            q(m) == Append(net.resp[m], cb)
            rs == [m \in Node |-> IF m \in server.booted THEN q(m) ELSE net.resp[m]]
            rec == [req |-> net.req, resp |-> rs, hbeat |-> net.hbeat]
<1>0. TypeOK
  BY DEF IInv
<1>1. /\ UNCHANGED <<conf, faults, node>> /\ server' = [server EXCEPT !.allJoined = yes]
      /\ \A e \in Range(server.list) : e.joined
      /\ Cardinality(server.booted) >= conf.nServers
      /\ net' = [net EXCEPT !.resp = rs]
  BY DEF CheckAllJoined
<1>2. /\ server' \in [list : Seq(Listing), booted : SUBSET Node, allJoined : BOOLEAN]
      /\ server'.list = server.list /\ server'.booted = server.booted
  <2>1. yes \in BOOLEAN
    OBVIOUS
  <2>. HIDE DEF yes
  <2>. QED  BY <1>0, <1>1, <2>1 DEF TypeOK
<1>. HIDE DEF yes
<1>3. cb \in Response /\ cb.type # "BOOTSTRAP_RESPONSE"
  BY DEF Response
<1>. HIDE DEF cb
<1>4. ASSUME NEW m \in Node
      PROVE  /\ rs[m] \in Seq(Response)
             /\ (m \notin server.booted => rs[m] = net.resp[m])
             /\ \A i \in DOMAIN net.resp[m] : i \in DOMAIN rs[m] /\ rs[m][i] = net.resp[m][i]
             /\ \A i \in DOMAIN rs[m] : rs[m][i].type = "BOOTSTRAP_RESPONSE" =>
                                           i \in DOMAIN net.resp[m] /\ rs[m][i] = net.resp[m][i]
  <2>1. net.resp[m] \in Seq(Response) /\ rs[m] = IF m \in server.booted THEN q(m) ELSE net.resp[m]
    BY <1>0, Types
  <2>2. CASE m \in server.booted
    <3>1. /\ q(m) \in Seq(Response) /\ DOMAIN net.resp[m] = 1 .. Len(net.resp[m])
          /\ DOMAIN q(m) = 1 .. Len(net.resp[m]) + 1 /\ q(m)[Len(net.resp[m]) + 1] = cb
          /\ \A i \in 1 .. Len(net.resp[m]) : q(m)[i] = net.resp[m][i]
          /\ Len(net.resp[m]) \in Nat
      BY <1>3, <2>1
    <3>. HIDE DEF q, rs
    <3>. QED  BY <1>3, <2>1, <2>2, <3>1
  <2>3. CASE m \notin server.booted
    <3>. HIDE DEF q, rs
    <3>. QED  BY <2>1, <2>3
  <2>. QED  BY <2>2, <2>3
<1>5. rs \in [Node -> Seq(Response)]
  <2>1. \A m \in Node : rs[m] \in Seq(Response)
    BY <1>4
  <2>. QED  BY <2>1
<1>6. net' = rec
  BY <1>0, <1>1 DEF TypeOK
<1>. HIDE DEF q, rs
<1>7. /\ rec \in [req : [Node -> Nat], resp : [Node -> Seq(Response)], hbeat : SUBSET Node]
      /\ rec.resp = rs /\ rec.hbeat = net.hbeat
  BY <1>0, <1>5 DEF TypeOK
<1>. HIDE DEF rec
<1>8. TypeOK'
  BY <1>0, <1>1, <1>2, <1>6, <1>7 DEF TypeOK
<1>9. ASSUME NEW m \in Node
      PROVE  /\ Answers(m)' = Answers(m)
             /\ \A i \in Answers(m) : net'.resp[m][i] = net.resp[m][i]
  BY <1>4, <1>6, <1>7 DEF Answers
<1>10. ASSUME NEW m \in Node
       PROVE  (Told(m)' <=> Told(m)) /\ (Founder(m)' <=> Founder(m)) /\ (Pending(m)' <=> Pending(m))
  BY <1>1, <1>9 DEF Told, Founder, Pending
<1>11. \A m \in Node : Listed(m)' = Listed(m)
  BY <1>2 DEF Listed
<1>12. Ways'
  BY <1>1 DEF IInv, Ways, Static
<1>13. ASSUME conf.faults.restart = 0  PROVE Moves
  <2>0. Reported /\ Known /\ TypeOK
    BY <1>13 DEF IInv
  <2>1. ASSUME NEW m \in Node, node'[m].status = "NEW", net'.resp[m] # <<>>
        PROVE  1 \in Answers(m)'
    <3>1. CASE m \in server.booted
      <4>1. Answers(m) # {}
        BY <1>1, <2>0, <2>1, <3>1 DEF Known, Told
      <4>2. net.resp[m] # <<>>
        BY <4>1 DEF Answers
      <4>. QED  BY <1>1, <1>9, <2>0, <2>1, <4>2 DEF Known
    <3>2. CASE m \notin server.booted
      <4>1. net'.resp[m] = net.resp[m]
        BY <1>4, <1>6, <1>7, <3>2
      <4>. QED  BY <1>1, <1>9, <2>0, <2>1, <4>1 DEF Known
    <3>. QED  BY <3>1, <3>2
  <2>2. ASSUME NEW m \in Node  PROVE RepOf(m)' = RepOf(m)
    <3>1. CASE node[m].status # "NEW" \/ Answers(m) = {}
      BY <1>1, <1>9, <3>1 DEF RepOf
    <3>2. CASE node[m].status = "NEW" /\ Answers(m) # {}
      <4>1. net.resp[m] # <<>>
        BY <3>2 DEF Answers
      <4>2. 1 \in Answers(m)
        BY <2>0, <3>2, <4>1 DEF Known
      <4>. QED  BY <1>1, <1>9, <3>2, <4>2 DEF RepOf
    <3>. QED  BY <3>1, <3>2
  <2>3. \A m \in net'.hbeat : ~Pending(m)
    BY <1>6, <1>7, <2>0 DEF Reported
  <2>4. \A i \in DOMAIN server'.list : LET e == server'.list[i] IN
          Told(e.addr) /\ (e.joined => ~Pending(e.addr))
    BY <1>2, <2>0 DEF Reported, Known
  <2>5. Cardinality({n \in Node : ~Pending(n)}) >= conf.nServers
    <3>1. Cardinality({n \in Node : ~Pending(n)}) >= Cardinality(server.booted)
      BY <1>1, <1>13, BootedAreIn
    <3>2. IsFiniteSet({n \in Node : ~Pending(n)}) /\ IsFiniteSet(server.booted)
      <4>1. server.booted \subseteq Node
        BY <1>0, Types
      <4>. QED  BY <4>1, FS_Subset DEF BootstrapAssumption
    <3>3. Cardinality({n \in Node : ~Pending(n)}) \in Nat /\ Cardinality(server.booted) \in Nat
      BY <3>2, FS_CardinalityType
    <3>4. conf.nServers \in Nat
      BY <1>0 DEF BootstrapAssumption, TypeOK
    <3>. QED  BY <1>1, <3>1, <3>3, <3>4
  <2>. QED  BY <1>2, <1>10, <2>1, <2>2, <2>3, <2>4, <2>5 DEF Moves
<1>. QED  BY <1>1, <1>8, <1>10, <1>11, <1>12, <1>13, QuietInv

-----------------------------------------------------------------------------
(***************************************************************************)
(* The ring of an ident map.                                               *)
(***************************************************************************)

Increasing(order, f) == \A i, j \in DOMAIN order : i < j => f[order[i]] < f[order[j]]

\* The least value comes before the others.
LEMMA PutFirst ==
    ASSUME NEW E, NEW f \in [E -> Nat], NEW d \in E,
           \A e \in E \ {d} : f[d] < f[e],
           NEW k \in Nat \ {0}, NEW o \in Bijection(1 .. k - 1, E \ {d}), Increasing(o, f)
    PROVE  \E p \in Bijection(1 .. k, E) : Increasing(p, f)
<1>. DEFINE F == E \ {d}
            p == [i \in 1 .. k |-> IF i = 1 THEN d ELSE o[i - 1]]
<1>1. /\ o \in [1 .. k - 1 -> F] /\ DOMAIN o = 1 .. k - 1
      /\ \A a, b \in 1 .. k - 1 : o[a] = o[b] => a = b
      /\ \A e \in F : \E i \in 1 .. k - 1 : o[i] = e
  BY DEF Bijection, Injection, Surjection, IsInjective
<1>2. p[1] = d /\ DOMAIN p = 1 .. k /\ \A i \in 1 .. k : i # 1 => i - 1 \in 1 .. k - 1 /\ p[i] = o[i - 1]
  OBVIOUS
<1>3. \A i \in 1 .. k : i # 1 => p[i] \in F
  BY <1>1, <1>2
<1>4. p \in [1 .. k -> E]
  BY <1>1
<1>. HIDE DEF p
<1>5. ASSUME NEW a \in 1 .. k, NEW b \in 1 .. k, p[a] = p[b]  PROVE a = b
  <2>1. CASE a = 1 \/ b = 1
    BY <1>2, <1>3, <1>5, <2>1
  <2>2. CASE a # 1 /\ b # 1
    <3>1. a - 1 \in 1 .. k - 1 /\ b - 1 \in 1 .. k - 1 /\ o[a - 1] = o[b - 1]
      BY <1>2, <1>5, <2>2
    <3>2. a - 1 = b - 1
      BY <1>1, <3>1
    <3>. QED  BY <3>2
  <2>. QED  BY <2>1, <2>2
<1>6. ASSUME NEW e \in E  PROVE \E i \in 1 .. k : p[i] = e
  <2>1. CASE e = d
    BY <1>2, <2>1
  <2>2. CASE e # d
    <3>1. PICK i \in 1 .. k - 1 : o[i] = e
      BY <1>1, <2>2
    <3>2. i + 1 \in 1 .. k /\ i + 1 # 1 /\ (i + 1) - 1 = i
      OBVIOUS
    <3>. QED  BY <1>2, <3>1, <3>2
  <2>. QED  BY <2>1, <2>2
<1>7. ASSUME NEW a \in 1 .. k, NEW b \in 1 .. k, a < b  PROVE f[p[a]] < f[p[b]]
  <2>1. b # 1
    BY <1>7
  <2>2. CASE a = 1
    BY <1>2, <1>3, <2>1, <2>2
  <2>3. CASE a # 1
    <3>1. a - 1 \in 1 .. k - 1 /\ b - 1 \in 1 .. k - 1 /\ a - 1 < b - 1
      BY <1>7, <2>1, <2>3
    <3>2. f[o[a - 1]] < f[o[b - 1]]
      BY <1>1, <3>1 DEF Increasing
    <3>. QED  BY <1>2, <2>1, <2>3, <3>2
  <2>. QED  BY <2>2, <2>3
<1>8. p \in Bijection(1 .. k, E)
  BY <1>2, <1>4, <1>5, <1>6 DEF Bijection, Injection, Surjection, IsInjective
<1>9. Increasing(p, f)
  BY <1>2, <1>7 DEF Increasing
<1>. QED  BY <1>8, <1>9

\* Different numbers can be put in order.
LEMMA OrderExists ==
    ASSUME NEW D, IsFiniteSet(D), NEW f \in [D -> Nat],
           \A m, n \in D : f[m] = f[n] => m = n
    PROVE  \E o \in Bijection(1 .. Cardinality(D), D) : Increasing(o, f)
<1>. DEFINE Ordered(E) == \E o \in Bijection(1 .. Cardinality(E), E) : Increasing(o, f)
            T == {k \in Nat : \E E \in SUBSET D : Cardinality(E) = k /\ ~Ordered(E)}
<1>. SUFFICES ASSUME ~Ordered(D)  PROVE FALSE
  OBVIOUS
<1>1. T # {}
  <2>1. Cardinality(D) \in Nat
    BY FS_CardinalityType
  <2>. HIDE DEF Ordered
  <2>. QED  BY <2>1
<1>2. PICK k \in T : \A l \in T : k <= l
  <2>1. T \in SUBSET Nat
    OBVIOUS
  <2>. HIDE DEF T
  <2>. QED  BY <1>1, <2>1, LeastNumber
<1>3. PICK E \in SUBSET D : Cardinality(E) = k /\ ~Ordered(E)
  BY <1>2
<1>4. IsFiniteSet(E)
  BY FS_Subset
<1>5. CASE E = {}
  <2>. DEFINE o == [i \in {} |-> i]
  <2>1. 1 .. Cardinality(E) = {}
    BY <1>5, FS_EmptySet
  <2>2. o \in Bijection({}, {}) /\ Increasing(o, f)
    BY DEF Bijection, Injection, Surjection, IsInjective, Increasing
  <2>. QED  BY <1>3, <1>5, <2>1, <2>2
<1>6. CASE E # {}
  <2>. DEFINE V == {f[e] : e \in E}
  <2>1. V \in SUBSET Nat /\ V # {}
    BY <1>6
  <2>2. PICK v \in V : \A w \in V : v <= w
    <3>. HIDE DEF V
    <3>. QED  BY <2>1, LeastNumber
  <2>3. PICK d \in E : v = f[d]
    BY <2>2
  <2>4. \A e \in E \ {d} : f[d] < f[e]
    <3>. TAKE e \in E \ {d}
    <3>1. f[d] <= f[e] /\ f[d] # f[e] /\ f[d] \in Nat /\ f[e] \in Nat
      BY <2>2, <2>3
    <3>. QED  BY <3>1
  <2>. DEFINE F == E \ {d}
  <2>5. IsFiniteSet(F) /\ Cardinality(F) = k - 1 /\ F \in SUBSET D
    BY <1>3, <1>4, FS_RemoveElement
  <2>6. k - 1 \in Nat
    BY <2>5, FS_CardinalityType
  <2>7. Ordered(F)
    <3>. SUFFICES ASSUME ~Ordered(F)  PROVE FALSE
      OBVIOUS
    <3>. HIDE DEF Ordered, F
    <3>1. k - 1 \in T
      BY <2>5, <2>6
    <3>. QED  BY <1>2, <3>1
  <2>8. PICK o \in Bijection(1 .. k - 1, F) : Increasing(o, f)
    BY <2>5, <2>7
  <2>. DEFINE g == [e \in E |-> f[e]]
  <2>9. g \in [E -> Nat] /\ (\A e \in E \ {d} : g[d] < g[e]) /\ k \in Nat \ {0}
    BY <2>4, <2>6, <1>2
  <2>10. Increasing(o, g)
    <3>1. \A i \in DOMAIN o : o[i] \in E
      BY DEF Bijection, Injection
    <3>. QED  BY <2>8, <3>1 DEF Increasing
  <2>. HIDE DEF g
  <2>11. PICK p \in Bijection(1 .. k, E) : Increasing(p, g)
    BY <2>8, <2>9, <2>10, PutFirst
  <2>12. Increasing(p, f)
    <3>1. \A i \in DOMAIN p : p[i] \in E
      BY DEF Bijection, Injection
    <3>. QED  BY <2>11, <3>1 DEF Increasing, g
  <2>. QED  BY <1>3, <2>11, <2>12
<1>. QED  BY <1>5, <1>6

\* The nodes of an ident map in the order of their idents (BootstrapNode.cpp:247).
LEMMA InOrderOK ==
    ASSUME BootstrapAssumption, conf \in Scenarios, NEW D, D = DOMAIN conf.ident,
           NEW order, order = InOrder(conf.ident), NEW L, L = Cardinality(D)
    PROVE  /\ L \in Nat /\ order \in [1 .. L -> D] /\ D \subseteq Node
           /\ \A n \in D : \E i \in 1 .. L : order[i] = n
           /\ \A i, j \in 1 .. L : order[i] = order[j] => i = j
           /\ order \in Seq(D) /\ Len(order) = L /\ DOMAIN order = 1 .. L
<1>1. /\ D \subseteq Node /\ IsFiniteSet(Node) /\ conf.ident \in [D -> Nat]
      /\ \A m, n \in D : conf.ident[m] = conf.ident[n] => m = n
  BY DEF BootstrapAssumption
<1>2. IsFiniteSet(D) /\ L \in Nat
  BY <1>1, FS_Subset, FS_CardinalityType
<1>3. \E o \in Bijection(1 .. L, D) : Increasing(o, conf.ident)
  BY <1>1, <1>2, OrderExists
<1>4. order \in Bijection(1 .. L, D)
  BY <1>3 DEF InOrder, Increasing
<1>5. /\ order \in [1 .. L -> D]
      /\ \A n \in D : \E i \in 1 .. L : order[i] = n
      /\ \A i, j \in 1 .. L : order[i] = order[j] => i = j
  BY <1>4 DEF Bijection, Injection, Surjection, IsInjective
<1>6. order \in Seq(D) /\ Len(order) = L
  BY <1>2, <1>5
<1>. QED  BY <1>1, <1>2, <1>5, <1>6

\* Around a ring of L places: a number has one remainder.
LEMMA OneRemainder ==
    ASSUME NEW L \in Nat \ {0}, NEW x \in Int, NEW q \in Int, NEW r \in 0 .. L - 1, x = L * q + r
    PROVE  x % L = r
<1>. DEFINE p == x \div L
            s == x % L
<1>1. p \in Int /\ s \in 0 .. L - 1 /\ x = L * p + s
  OBVIOUS
<1>. HIDE DEF p, s
<1>2. CASE p < q
  <2>1. PICK d \in Nat : q = (p + 1) + d
    BY <1>1, <1>2
  <2>2. L * q = (L * p + L) + L * d /\ L * d >= 0
    BY <1>1, <2>1
  <2>. QED  BY <1>1, <2>2
<1>3. CASE q < p
  <2>1. PICK d \in Nat : p = (q + 1) + d
    BY <1>1, <1>3
  <2>2. L * p = (L * q + L) + L * d /\ L * d >= 0
    BY <1>1, <2>1
  <2>. QED  BY <1>1, <2>2
<1>4. p = q => s = r
  BY <1>1
<1>5. s = r
  BY <1>1, <1>2, <1>3, <1>4
<1>. QED  BY <1>5 DEF s

\* One step back along a circle of L.
LEMMA Around ==
    ASSUME NEW L \in Nat \ {0}, NEW x \in Int
    PROVE  /\ x % L \in 0 .. L - 1
           /\ (x - 1) % L = IF x % L = 0 THEN L - 1 ELSE (x % L) - 1
<1>. DEFINE p == x \div L
            s == x % L
<1>1. p \in Int /\ s \in 0 .. L - 1 /\ x = L * p + s
  OBVIOUS
<1>. HIDE DEF p, s
<1>2. CASE s = 0
  <2>1. p - 1 \in Int /\ L - 1 \in 0 .. L - 1 /\ x - 1 \in Int
    BY <1>1
  <2>2. x - 1 = L * (p - 1) + (L - 1)
    <3>1. L * (p - 1) = L * p - L
      BY <1>1
    <3>. QED  BY <1>1, <1>2, <3>1
  <2>3. (x - 1) % L = L - 1
    BY <2>1, <2>2, OneRemainder
  <2>. QED  BY <1>1, <1>2, <2>3 DEF s
<1>3. CASE s # 0
  <2>1. s - 1 \in 0 .. L - 1 /\ x - 1 \in Int /\ x - 1 = L * p + (s - 1)
    BY <1>1, <1>3
  <2>2. (x - 1) % L = s - 1
    BY <1>1, <2>1, OneRemainder
  <2>. QED  BY <1>1, <1>3, <2>2 DEF s
<1>. QED  BY <1>2, <1>3

\* The place before place j of L, and the one after it.
Behind(j, L) == IF j = 1 THEN L ELSE j - 1
Ahead(j, L) == IF j = L THEN 1 ELSE j + 1

\* The ring has L places for D, in this order.
Enumerates(order, L, D) ==
    /\ conf \in Scenarios /\ L \in Nat \ {0} /\ D = DOMAIN conf.ident
    /\ order = InOrder(conf.ident) /\ order \in [1 .. L -> D] /\ Len(order) = L
    /\ \A i, j \in 1 .. L : order[i] = order[j] => i = j

\* What p says of a node is what its place in the ring is.
Fits(p, order, L) ==
    \E j \in 1 .. L :
       /\ p.addr = order[j]
       /\ p.range = [min |-> conf.ident[order[Behind(j, L)]], max |-> conf.ident[order[j]]]

\* A neighbour's range begins where the range of the one before it ends, and the nearest is
\* the next one (BootstrapNode.cpp:263-302).
LEMMA NeighboursOK ==
    ASSUME BootstrapAssumption, NEW L, NEW D, NEW order, Enumerates(order, L, D),
           NEW i \in 1 .. L, NEW step \in {1, -1}, NEW s, s = Neighbours(conf.ident, i, step)
    PROVE  /\ \A p \in Range(s) : Fits(p, order, L)
           /\ Head(s).addr = order[((i - 1 + step) % L) + 1]
<1>. DEFINE At(k) == order[((i - 1 + k) % L) + 1]
            w == Min({NSuccessorsToKeep, L})
            P(k) == [addr  |-> At(step * k),
                     range |-> [min |-> conf.ident[At(step * k - 1)], max |-> conf.ident[At(step * k)]]]
<1>0. /\ L \in Nat \ {0} /\ order = InOrder(conf.ident)
      /\ order \in [1 .. L -> D] /\ Len(order) = L
  BY DEF Enumerates
<1>1. s = [k \in 1 .. w |-> P(k)]
  BY <1>0 DEF Neighbours
<1>2. w \in Nat \ {0}
  <2>1. {NSuccessorsToKeep, L} \in SUBSET Nat /\ {NSuccessorsToKeep, L} # {}
    BY <1>0 DEF BootstrapAssumption
  <2>2. w \in {NSuccessorsToKeep, L}
    BY <2>1, MinOK
  <2>. QED  BY <1>0, <2>2 DEF BootstrapAssumption
<1>. HIDE DEF w
<1>3. ASSUME NEW k \in 1 .. w
      PROVE  \E j \in 1 .. L :
                /\ P(k).addr = order[j]
                /\ P(k).range = [min |-> conf.ident[order[Behind(j, L)]], max |-> conf.ident[order[j]]]
  <2>. DEFINE y == step * k
              x == i - 1 + y
              j == (x % L) + 1
  <2>1. k \in Int
    BY <1>2
  <2>2. y \in Int
    BY <2>1
  <2>. HIDE DEF y
  <2>3. x \in Int /\ i - 1 + (y - 1) = x - 1
    BY <1>0, <2>2
  <2>. HIDE DEF x
  <2>4. x % L \in 0 .. L - 1 /\ (x - 1) % L = IF x % L = 0 THEN L - 1 ELSE (x % L) - 1
    BY <1>0, <2>3, Around
  <2>5. j \in 1 .. L /\ ((x - 1) % L) + 1 = Behind(j, L)
    BY <1>0, <2>4 DEF Behind
  <2>6. At(y) = order[j] /\ At(y - 1) = order[Behind(j, L)]
    BY <2>3, <2>5 DEF x
  <2>7. P(k).addr = At(y) /\ P(k).range = [min |-> conf.ident[At(y - 1)], max |-> conf.ident[At(y)]]
    BY DEF y
  <2>. HIDE DEF j, At, P
  <2>. QED  BY <2>5, <2>6, <2>7
<1>4. ASSUME NEW p \in Range(s)
      PROVE  Fits(p, order, L)
  <2>. HIDE DEF P
  <2>0. DOMAIN s = 1 .. w /\ \A k \in 1 .. w : s[k] = P(k)
    BY <1>1
  <2>1. PICK k \in 1 .. w : p = P(k)
    BY <2>0 DEF Range
  <2>. QED  BY <1>3, <2>1 DEF Fits
<1>5. Head(s).addr = order[((i - 1 + step) % L) + 1]
  <2>. DEFINE V == {P(k) : k \in 1 .. w}
  <2>1. s \in Seq(V) /\ Len(s) = w
    <3>1. \A k \in 1 .. w : P(k) \in V
      OBVIOUS
    <3>. HIDE DEF V, P
    <3>2. s \in [1 .. w -> V]
      BY <1>1, <3>1
    <3>. QED  BY <1>2, <3>2
  <2>2. Head(s) = s[1] /\ s[1] = P(1)
    <3>. HIDE DEF V, P
    <3>. QED  BY <1>1, <1>2, <2>1
  <2>3. step * 1 = step
    OBVIOUS
  <2>4. P(1).addr = At(step)
    BY <2>3
  <2>. HIDE DEF P
  <2>. QED  BY <2>2, <2>4
<1>. QED  BY <1>4, <1>5

\* What the ident map says of the node at place i.
LEMMA PlaceOK ==
    ASSUME BootstrapAssumption, NEW L, NEW D, NEW order, Enumerates(order, L, D),
           NEW i \in 1 .. L, NEW p, p = ReadIdentMap(conf.ident)[order[i]]
    PROVE  /\ p.rep = order[Ahead(i, L)]
           /\ p.range = [min |-> conf.ident[order[Behind(i, L)]], max |-> conf.ident[order[i]]]
           /\ p.succs = Neighbours(conf.ident, i, 1)
           /\ p.preds = Neighbours(conf.ident, i, -1)
<1>. DEFINE Before(j) == IF j = 1 THEN Last(order) ELSE order[j - 1]
            Place(j) == [rep   |-> IF j = L THEN order[1] ELSE order[j + 1],
                         range |-> [min |-> conf.ident[Before(j)], max |-> conf.ident[order[j]]],
                         succs |-> Neighbours(conf.ident, j, 1),
                         preds |-> Neighbours(conf.ident, j, -1)]
            At(n) == CHOOSE j \in DOMAIN order : order[j] = n
<1>0. /\ L \in Nat \ {0} /\ order = InOrder(conf.ident) /\ D = DOMAIN conf.ident
      /\ order \in [1 .. L -> D] /\ Len(order) = L
      /\ \A j, k \in 1 .. L : order[j] = order[k] => j = k
  BY DEF Enumerates
<1>1. order[i] \in D /\ DOMAIN order = 1 .. L
  BY <1>0
<1>2. ReadIdentMap(conf.ident)[order[i]] = Place(At(order[i]))
  BY <1>0, <1>1 DEF ReadIdentMap
<1>3. At(order[i]) = i
  BY <1>0, <1>1
<1>4. Before(i) = order[Behind(i, L)]
  BY <1>0 DEF Last, Behind
<1>5. (IF i = L THEN order[1] ELSE order[i + 1]) = order[Ahead(i, L)]
  BY DEF Ahead
<1>. HIDE DEF At, Before
<1>. QED  BY <1>2, <1>3, <1>4, <1>5

\* Everybody's place fits those of its neighbours.
LEMMA PlacesFitHolds ==
    ASSUME BootstrapAssumption, TypeOK
    PROVE  PlacesFit
<1>b. PICK D : D = DOMAIN conf.ident
  OBVIOUS
<1>c. PICK order : order = InOrder(conf.ident)
  OBVIOUS
<1>d. PICK L : L = Cardinality(D)
  OBVIOUS
<1>e. PICK place : place = ReadIdentMap(conf.ident)
  OBVIOUS
<1>. DEFINE R(i) == [min |-> conf.ident[order[Behind(i, L)]], max |-> conf.ident[order[i]]]
<1>1. /\ L \in Nat /\ order \in [1 .. L -> D] /\ D \subseteq Node
      /\ \A n \in D : \E i \in 1 .. L : order[i] = n
      /\ \A i, j \in 1 .. L : order[i] = order[j] => i = j
      /\ order \in Seq(D) /\ Len(order) = L /\ DOMAIN order = 1 .. L
      /\ conf \in Scenarios
  <2>1. conf \in Scenarios
    BY DEF TypeOK
  <2>. QED  BY <1>b, <1>c, <1>d, <2>1, InOrderOK
<1>2. DOMAIN place = D
  BY <1>b, <1>e DEF ReadIdentMap
<1>3. SUFFICES ASSUME NEW n \in D
               PROVE  /\ \A p \in Range(place[n].succs) \cup Range(place[n].preds) :
                            p.range = place[p.addr].range
                      /\ place[n].range.max = place[place[n].rep].range.min
                      /\ Head(place[n].succs).addr = place[n].rep
                      /\ Head(place[place[n].rep].preds).addr = n
  BY <1>2, <1>e DEF PlacesFit
<1>4. PICK i \in 1 .. L : order[i] = n
  BY <1>1
<1>5. L \in Nat \ {0} /\ Enumerates(order, L, D)
  BY <1>1, <1>4, <1>b, <1>c DEF Enumerates
<1>6. ASSUME NEW j \in 1 .. L
      PROVE  /\ place[order[j]].rep = order[Ahead(j, L)]
             /\ place[order[j]].range = R(j)
             /\ place[order[j]].succs = Neighbours(conf.ident, j, 1)
             /\ place[order[j]].preds = Neighbours(conf.ident, j, -1)
  <2>2. PICK p : p = ReadIdentMap(conf.ident)[order[j]]
    OBVIOUS
  <2>3. /\ p.rep = order[Ahead(j, L)]
        /\ p.range = [min |-> conf.ident[order[Behind(j, L)]], max |-> conf.ident[order[j]]]
        /\ p.succs = Neighbours(conf.ident, j, 1)
        /\ p.preds = Neighbours(conf.ident, j, -1)
    BY <1>5, <2>2, PlaceOK
  <2>. QED  BY <1>e, <2>2, <2>3
<1>7. ASSUME NEW j \in 1 .. L, NEW step \in {1, -1}
      PROVE  /\ \A p \in Range(Neighbours(conf.ident, j, step)) : \E k \in 1 .. L :
                   p.addr = order[k] /\ p.range = R(k)
             /\ Head(Neighbours(conf.ident, j, step)).addr = order[((j - 1 + step) % L) + 1]
  <2>2. PICK s : s = Neighbours(conf.ident, j, step)
    OBVIOUS
  <2>3. /\ \A p \in Range(s) : Fits(p, order, L)
        /\ Head(s).addr = order[((j - 1 + step) % L) + 1]
    BY <1>5, <2>2, NeighboursOK
  <2>. QED  BY <2>2, <2>3 DEF Fits
<1>. DEFINE f == Ahead(i, L)
<1>8. f \in 1 .. L /\ Behind(f, L) = i
  BY <1>5 DEF Ahead, Behind
<1>9. ((i - 1 + 1) % L) + 1 = f /\ ((f - 1 + (-1)) % L) + 1 = i
  <2>1. CASE i = L
    <3>1. f = 1 /\ (i - 1) + 1 = L /\ (f - 1) + (-1) = -1
      BY <1>5, <2>1 DEF Ahead
    <3>2. L % L = 0 /\ (-1) % L = L - 1
      BY <1>5
    <3>. QED  BY <1>5, <2>1, <3>1, <3>2
  <2>2. CASE i # L
    <3>1. f = i + 1 /\ (i - 1) + 1 = i /\ (f - 1) + (-1) = i - 1 /\ i \in 0 .. L - 1 /\ i - 1 \in 0 .. L - 1
      BY <1>5, <2>2 DEF Ahead
    <3>2. i % L = i /\ (i - 1) % L = i - 1
      BY <1>5, <3>1
    <3>. QED  BY <1>5, <3>1, <3>2
  <2>. QED  BY <2>1, <2>2
<1>. HIDE DEF f, R
<1>10. ASSUME NEW p \in Range(place[n].succs) \cup Range(place[n].preds)
       PROVE  p.range = place[p.addr].range
  <2>1. PICK k \in 1 .. L : p.addr = order[k] /\ p.range = R(k)
    BY <1>4, <1>6, <1>7
  <2>. QED  BY <1>6, <2>1
<1>11. place[n].rep = order[f]
  BY <1>4, <1>6 DEF f
<1>12. place[n].range.max = place[order[f]].range.min
  <2>1. place[n].range = R(i) /\ place[order[f]].range = R(f)
    BY <1>4, <1>6, <1>8
  <2>. QED  BY <1>8, <2>1 DEF R
<1>13. Head(place[n].succs).addr = order[f]
  BY <1>4, <1>6, <1>7, <1>9
<1>14. Head(place[order[f]].preds).addr = n
  BY <1>4, <1>6, <1>7, <1>8, <1>9
<1>. QED  BY <1>10, <1>11, <1>12, <1>13, <1>14

\* A node of an ident map is told a node of it to join through.
LEMMA PlaceRepOK ==
    ASSUME BootstrapAssumption, TypeOK, NEW n \in DOMAIN conf.ident
    PROVE  ReadIdentMap(conf.ident)[n].rep \in Node
<1>1. PICK D : D = DOMAIN conf.ident
  OBVIOUS
<1>2. PICK order : order = InOrder(conf.ident)
  OBVIOUS
<1>3. PICK L : L = Cardinality(D)
  OBVIOUS
<1>4. PICK p : p = ReadIdentMap(conf.ident)[n]
  OBVIOUS
<1>5. /\ L \in Nat /\ order \in [1 .. L -> D] /\ D \subseteq Node
      /\ \A m \in D : \E i \in 1 .. L : order[i] = m
      /\ \A i, j \in 1 .. L : order[i] = order[j] => i = j
      /\ Len(order) = L /\ conf \in Scenarios
  <2>1. conf \in Scenarios
    BY DEF TypeOK
  <2>. QED  BY <1>1, <1>2, <1>3, <2>1, InOrderOK
<1>6. PICK i \in 1 .. L : order[i] = n
  BY <1>1, <1>5
<1>7. L \in Nat \ {0} /\ Enumerates(order, L, D)
  BY <1>1, <1>2, <1>5, <1>6 DEF Enumerates
<1>8. p.rep = order[Ahead(i, L)]
  <2>1. p = ReadIdentMap(conf.ident)[order[i]]
    BY <1>4, <1>6
  <2>2. /\ p.rep = order[Ahead(i, L)]
        /\ p.range = [min |-> conf.ident[order[Behind(i, L)]], max |-> conf.ident[order[i]]]
        /\ p.succs = Neighbours(conf.ident, i, 1)
        /\ p.preds = Neighbours(conf.ident, i, -1)
    BY <1>7, <2>1, PlaceOK
  <2>. QED  BY <2>2
<1>9. Ahead(i, L) \in 1 .. L
  BY <1>7 DEF Ahead
<1>. QED  BY <1>4, <1>5, <1>8, <1>9

\* A node of a static ring is given the place it has in the file.
LEMMA StaticRequestInv ==
    ASSUME BootstrapAssumption, IInv, NEW n \in Node, HandleBootstrapRequestStatic(n)
    PROVE  IInv'
<1>0. TypeOK
  BY DEF IInv
<1>1. Static /\ net.req[n] > 0 /\ UNCHANGED <<conf, faults, node>>
  BY DEF HandleBootstrapRequestStatic
<1>2. server.list \in Seq(Listing)
  BY <1>0, Types
<1>3. CASE n \notin DOMAIN conf.ident
  <2>. DEFINE k == net.req[n] - 1
  <2>1. net' = [net EXCEPT !.req[n] = k] /\ UNCHANGED server
    BY <1>3 DEF HandleBootstrapRequestStatic
  <2>2. k \in Nat
    BY <1>0, <1>1, Types
  <2>. HIDE DEF k
  <2>3. /\ net' \in [req : [Node -> Nat], resp : [Node -> Seq(Response)], hbeat : SUBSET Node]
        /\ net'.hbeat = net.hbeat /\ net'.resp = net.resp
    BY <1>0, <2>1, <2>2, RequestsOK
  <2>4. TypeOK'
    BY <1>0, <1>1, <2>1, <2>3 DEF TypeOK
  <2>5. \A m \in Node : Listed(m)' = Listed(m)
    BY <2>1 DEF Listed
  <2>6. conf.faults.restart = 0 =>
          /\ \A m \in net'.hbeat : ~Pending(m)
          /\ \A i \in DOMAIN server'.list : LET e == server'.list[i] IN
                Told(e.addr) /\ (e.joined => ~Pending(e.addr))
    BY <2>1, <2>3 DEF IInv, Reported, Known
  <2>. QED  BY <1>1, <2>1, <2>3, <2>4, <2>5, <2>6, ServerInv
<1>4. CASE n \in DOMAIN conf.ident
  <2>1. PICK rep : rep = ReadIdentMap(conf.ident)[n].rep
    OBVIOUS
  <2>2. PICK list : list = Append(server.list, Entry(n, 0))
    OBVIOUS
  <2>3. rep \in Node
    BY <1>0, <1>4, <2>1, PlaceRepOK
  <2>4. list \in Seq(Listing) /\ Relists(n, list)
    BY <1>2, <2>2, AppendedOK
  <2>5. /\ server' = [server EXCEPT !.list = list, !.booted = @ \cup {n}]
        /\ net' = Answer(n, BootstrapResponse(rep))
    BY <1>4, <2>1, <2>2 DEF HandleBootstrapRequestStatic
  <2>. QED  BY <1>1, <2>3, <2>4, <2>5, ServedInv
<1>. QED  BY <1>3, <1>4

\* Every request, in a static ring or not, keeps the invariant.
LEMMA RequestInv ==
    ASSUME BootstrapAssumption, IInv, NEW n \in Node, HandleBootstrapRequest(n)
    PROVE  IInv'
<1>0. TypeOK
  BY DEF IInv
<1>1. net.req[n] > 0 /\ UNCHANGED <<conf, faults, node>>
  BY DEF HandleBootstrapRequest
<1>2. PICK rep \in Node \cup {None}, list \in Seq(Listing) :
         /\ server' = [server EXCEPT !.list = list, !.booted = @ \cup {n}]
         /\ net' = Answer(n, BootstrapResponse(rep))
         /\ Relists(n, list) /\ Leads(n, rep)
  BY <1>0, RequestOK
<1>. QED  BY <1>1, <1>2, ServedInv

-----------------------------------------------------------------------------
(***************************************************************************)
(* The theorems.                                                           *)
(***************************************************************************)

\* Nobody has asked, and nothing is on its way.
LEMMA InitInv ==
    ASSUME BootstrapAssumption, Init
    PROVE  IInv
<1>. DEFINE no == FALSE
            q == <<>>
            e == {}
<1>0. no \in BOOLEAN /\ q \in Seq(Listing) /\ q \in Seq(Response) /\ DOMAIN q = {} /\ e \subseteq Node
  OBVIOUS
<1>1. /\ conf \in Scenarios /\ faults = conf.faults
      /\ server = [list |-> q, booted |-> e, allJoined |-> no]
      /\ net = [req |-> [n \in Node |-> 0], resp |-> [n \in Node |-> q], hbeat |-> e]
      /\ \A n \in Node : node[n] = [status |-> "NEW", asked |-> 0, rep |-> None, allJoined |-> no]
      /\ node = [n \in Node |-> [status |-> "NEW", asked |-> 0, rep |-> None, allJoined |-> no]]
  BY DEF Init, NewServer, NewNode
<1>1a. faults \in [crash : Nat, restart : Nat, loss : Nat]
  BY <1>1 DEF BootstrapAssumption
<1>1b. no = FALSE /\ e = {} /\ None \notin Node
  BY DEF BootstrapAssumption
<1>. HIDE DEF no, q, e
<1>2. TypeOK
  <2>1. server \in [list : Seq(Listing), booted : SUBSET Node, allJoined : BOOLEAN]
    BY <1>0, <1>1
  <2>2. node \in [Node -> Process]
    BY <1>0, <1>1 DEF Process, Status
  <2>3. net \in [req : [Node -> Nat], resp : [Node -> Seq(Response)], hbeat : SUBSET Node]
    BY <1>0, <1>1
  <2>. QED  BY <1>1, <1>1a, <2>1, <2>2, <2>3 DEF TypeOK
<1>3. \A n \in Node : /\ node[n].status = "NEW" /\ node[n].rep = None /\ net.resp[n] = q
  BY <1>1
<1>4. \A n \in Node : Answers(n) = {} /\ ~Told(n) /\ ~Founder(n) /\ RepOf(n) = None
  BY <1>0, <1>3 DEF Answers, Told, Founder, RepOf
<1>5. server.list = q /\ server.booted = e /\ server.allJoined = no /\ net.hbeat = e
  BY <1>1
<1>6. Ways /\ Remembered /\ Founders
  BY <1>3, <1>4 DEF Ways, Remembered, Founders
<1>7. Reported /\ Clear
  BY <1>0, <1>1b, <1>5 DEF Reported, Clear
<1>8. Known
  <2>1. q = <<>>
    BY DEF q
  <2>. QED  BY <1>0, <1>1b, <1>3, <1>5, <2>1 DEF Known
<1>9. Earlier
  <2>1. \A S \in SUBSET Node : (\A n \in S : RepOf(n) \in S) => S = {}
    BY <1>1b, <1>4
  <2>. QED  BY <1>1b, <1>4, <2>1 DEF Earlier
<1>. QED  BY <1>2, <1>6, <1>7, <1>8, <1>9 DEF IInv

\* Nothing changes.
LEMMA StutterInv ==
    ASSUME BootstrapAssumption, IInv, UNCHANGED vars
    PROVE  IInv'
<1>1. UNCHANGED <<conf, faults, server, node, net>>
  BY DEF vars
<1>2. TypeOK'
  BY <1>1 DEF IInv, TypeOK
<1>3. \A m \in Node : Listed(m)' = Listed(m)
  BY <1>1 DEF Listed
<1>4. conf.faults.restart = 0 =>
        /\ \A m \in net'.hbeat : ~Pending(m)
        /\ \A i \in DOMAIN server'.list : LET e == server'.list[i] IN
              Told(e.addr) /\ (e.joined => ~Pending(e.addr))
  BY <1>1 DEF IInv, Reported, Known
<1>. QED  BY <1>1, <1>2, <1>3, <1>4, ServerInv

\* Every step preserves the invariant.
LEMMA NextInv ==
    ASSUME BootstrapAssumption, IInv, [Next]_vars
    PROVE  IInv'
<1>1. CASE CleanupState
  BY <1>1, CleanupInv
<1>2. CASE CheckAllJoined
  BY <1>2, AllClearInv
<1>3. ASSUME NEW n \in Node, ServerStep(n)  PROVE IInv'
  BY <1>3, RequestInv, StaticRequestInv, HeartbeatReceivedInv DEF ServerStep
<1>4. ASSUME NEW n \in Node, ClientStep(n)  PROVE IInv'
  BY <1>4, ResponseInv, AllJoinedInv, JoinInv DEF ClientStep
<1>5. ASSUME NEW n \in Node, RequestTimeout(n) \/ Heartbeat(n)  PROVE IInv'
  BY <1>5, RequestTimeoutInv, HeartbeatInv
<1>6. ASSUME NEW n \in Node, Crash(n) \/ Restart(n) \/ Lose(n)  PROVE IInv'
  BY <1>6, CrashInv, RestartInv, LoseInv
<1>7. CASE UNCHANGED vars
  BY <1>7, StutterInv
<1>. QED  BY <1>1, <1>2, <1>3, <1>4, <1>5, <1>6, <1>7 DEF Next

\* The invariant of the server and its clients.
LEMMA Invariant ==
    ASSUME BootstrapAssumption
    PROVE  Init /\ [][Next]_vars => []IInv
<1>1. Init => IInv
  BY InitInv
<1>2. IInv /\ [Next]_vars => IInv'
  BY NextInv
<1>. QED  BY <1>1, <1>2, PTL

\* Joiners do not wait for one another: whoever one joins through was told earlier
\* (BootstrapNode.cpp:908, HubManager.cpp:236).
THEOREM RepsLeadInHolds ==
    ASSUME BootstrapAssumption
    PROVE  Init /\ [][Next]_vars => []RepsLeadIn
<1>1. IInv => RepsLeadIn
  <2>. SUFFICES ASSUME IInv, conf.faults.restart = 0, NEW S \in (SUBSET Node) \ {{}},
                       \A n \in S : node[n].status = "JOINING" /\ node[n].rep \in S
                PROVE  FALSE
    BY DEF RepsLeadIn
  <2>1. PICK n \in S : TRUE
    OBVIOUS
  <2>2. ~Static
    BY <2>1 DEF IInv, Ways
  <2>3. \A m \in S : RepOf(m) \in S
    BY DEF RepOf
  <2>. QED  BY <2>2, <2>3 DEF IInv, Earlier
<1>. QED  BY <1>1, Invariant, PTL

\* When the all clear is given, as many nodes as are expected are in
\* (BootstrapNode.cpp:1017-1053).
THEOREM AllClearHolds ==
    ASSUME BootstrapAssumption
    PROVE  Init /\ [][Next]_vars => []AllClear
<1>1. IInv => AllClear
  <2>. SUFFICES ASSUME IInv, server.allJoined, conf.faults.restart = 0
                PROVE  Cardinality({n \in Node : node[n].status \in {"JOINED", "PLACED", "DEAD"}})
                          >= conf.nServers
    BY DEF AllClear
  <2>1. Cardinality({n \in Node : ~Pending(n)}) >= conf.nServers
    BY DEF IInv, Clear
  <2>2. \A n \in Node : node[n].status \in Status
    BY Types DEF IInv
  <2>3. {n \in Node : ~Pending(n)} = {n \in Node : node[n].status \in {"JOINED", "PLACED", "DEAD"}}
    BY <2>2 DEF Pending, Status
  <2>. QED  BY <2>1, <2>3
<1>. QED  BY <1>1, Invariant, PTL

\* One ring is built, whoever crashes or comes back, and the places of a static one fit
\* (BootstrapNode.cpp:247-311, 908-926).
THEOREM OneRingBuiltHolds ==
    ASSUME BootstrapAssumption
    PROVE  Init /\ [][Next]_vars => []OneRingBuilt
<1>1. IInv => OneFounder
  <2>. SUFFICES ASSUME IInv  PROVE OneFounder
    OBVIOUS
  <2>. DEFINE F == {n \in Node : ~Static /\ node[n].status = "JOINED" /\ node[n].rep = None}
  <2>1. \A m, n \in F : m = n
    BY DEF IInv, Founders, Founder
  <2>2. Cardinality(F) <= 1
    <3>. HIDE DEF F
    <3>1. CASE F = {}
      BY <3>1, FS_EmptySet
    <3>2. CASE F # {}
      <4>1. PICK n \in F : TRUE
        BY <3>2
      <4>2. F = {n}
        BY <2>1, <4>1
      <4>3. Cardinality({n}) = 1
        BY FS_Singleton, Zenon
      <4>. QED  BY <4>2, <4>3
    <3>. QED  BY <3>1, <3>2
  <2>. QED  BY <2>2 DEF OneFounder
<1>2. IInv => PlacesFit
  BY PlacesFitHolds DEF IInv
<1>. QED  BY <1>1, <1>2, Invariant, PTL DEF OneRingBuilt
=============================================================================
