----------------------- MODULE RecordSchedulerSteps -----------------------
(***************************************************************************)
(* What the scheduler's operations do to its state: every one of them that *)
(* starts no event keeps the running events, what they hold and the turns  *)
(* they wait for, and leaves the state well formed (Follows).              *)
(***************************************************************************)
EXTENDS RecordSchedulerInvariant, FiniteSetTheorems, SequenceTheorems, TLAPS

-----------------------------------------------------------------------------
(* Numbers and sequences                                                    *)

\* Every non-empty set of naturals has a least element, which Min is.
LEMMA MinIs ==
    ASSUME NEW S, S \subseteq Nat, S # {}
    PROVE  Min(S) \in S /\ \A k \in S : Min(S) <= k
<1>1. PICK m \in S : \A k \in S : ~ (<<k, m>> \in OpToRel(<, Nat))
  BY NatLessThanWellFounded, WFMin
<1>2. \A k \in S : ~(k < m)
  BY <1>1 DEF OpToRel
<1>3. m \in S /\ \A k \in S : k >= m
  BY <1>2
<1>4. Min(S) \in S /\ \A k \in S : k >= Min(S)
  BY <1>3 DEF Min
<1> HIDE DEF Min
<1> QED
  BY <1>4

\* Ascending(S) lists members of S.
LEMMA AscendingIn ==
    ASSUME NEW S, S \subseteq Nat, IsFiniteSet(S)
    PROVE  Ascending(S) \in Seq(S)
<1> DEFINE n == Cardinality(S)
           Below(k) == {j \in S : j < k}
           Has(i) == \E k \in S : Cardinality(Below(k)) = i - 1
           T == {i \in 1..n : ~Has(i)}
<1>0. \A k \in S : k \in Nat
  OBVIOUS
<1>1. n \in Nat
  BY FS_CardinalityType
<1>2. T = {}
  <2> SUFFICES ASSUME T # {} PROVE FALSE
    OBVIOUS
  <2>1. T \subseteq Nat
    BY <1>1
  <2>2. PICK i \in T : \A j \in T : i <= j
    <3> HIDE DEF T
    <3> QED
      BY <2>1, MinIs
  <2>3. i \in 1..n /\ ~Has(i)
    OBVIOUS
  <2>4. CASE i = 1
    <3>1. S # {}
      BY <2>3, FS_EmptySet, <1>1
    <3>2. PICK k \in S : \A j \in S : k <= j
      BY <3>1, MinIs
    <3>3. Below(k) = {}
      <4>1. \A j \in S : ~(j < k)
        BY <3>2, <1>0
      <4> QED
        BY <4>1
    <3>4. Cardinality(Below(k)) = 0
      BY <3>3, FS_EmptySet
    <3> QED
      BY <3>4, <2>3, <2>4
  <2>5. CASE i # 1
    <3>1. i - 1 \in 1..n /\ i - 1 \notin T
      BY <2>2, <2>3, <2>5, <1>1
    <3>2. PICK k \in S : Cardinality(Below(k)) = i - 1 - 1
      BY <3>1
    <3>3. IsFiniteSet(Below(k)) /\ k \notin Below(k)
      BY FS_Subset
    <3>4. IsFiniteSet(Below(k) \union {k})
          /\ Cardinality(Below(k) \union {k}) = i - 1
      <4>1. Cardinality(Below(k) \union {k}) = i - 1 - 1 + 1
        BY <3>2, <3>3, FS_AddElement
      <4>2. IsFiniteSet(Below(k) \union {k})
        BY <3>3, FS_AddElement
      <4>3. i - 1 - 1 + 1 = i - 1
        BY <2>3
      <4> QED
        BY <4>1, <4>2, <4>3
    <3> DEFINE U == {j \in S : j > k}
    <3>5. U # {}
      <4>1. SUFFICES ASSUME U = {} PROVE FALSE
        OBVIOUS
      <4>2. \A j \in S : j < k \/ j = k
        <5>1. \A j \in S : ~(j > k)
          BY <4>1
        <5> QED
          BY <5>1, <1>0
      <4>3. Below(k) \union {k} = S
        BY <4>2
      <4>4. n = i - 1
        BY <4>3, <3>4
      <4> QED
        BY <4>4, <2>3, <1>1
    <3>6. PICK m \in U : \A j \in U : m <= j
      <4>1. U \subseteq Nat
        OBVIOUS
      <4> HIDE DEF U
      <4> QED
        BY <4>1, <3>5, MinIs
    <3>7. Below(m) = Below(k) \union {k}
      <4>1. m \in S /\ m > k /\ \A j \in S : j > k => m <= j
        BY <3>6
      <4>2. \A j \in S : j < m <=> (j < k \/ j = k)
        BY <4>1, <1>0
      <4> QED
        BY <4>2
    <3>8. m \in S /\ Cardinality(Below(m)) = i - 1
      BY <3>7, <3>4
    <3> QED
      BY <3>8, <2>3
  <2> QED
    BY <2>4, <2>5
<1>3. ASSUME NEW i \in 1..n
      PROVE  (CHOOSE k \in S : Cardinality({j \in S : j < k}) = i - 1) \in S
  <2>1. \E k \in S : Cardinality({j \in S : j < k}) = i - 1
    BY <1>2
  <2> QED
    BY <2>1
<1>4. Ascending(S) \in [1..n -> S]
  BY <1>3 DEF Ascending
<1> QED
  BY <1>1, <1>4

\* A finite set of integers from -1 up, one at least, has a greatest element.
LEMMA MaxIsInt ==
    ASSUME NEW S, IsFiniteSet(S), S # {}, \A k \in S : k \in Int
    PROVE  Max(S) \in Int
<1> DEFINE n == Cardinality(S)
           Upto(k) == {j \in S : j <= k}
           T == {n - Cardinality(Upto(k)) : k \in S}
<1>1. n \in Nat
  BY FS_CardinalityType
<1>2. \A k \in S : /\ Cardinality(Upto(k)) \in Nat /\ Cardinality(Upto(k)) <= n
                   /\ IsFiniteSet(Upto(k))
  <2> TAKE k \in S
  <2>1. Upto(k) \subseteq S
    OBVIOUS
  <2>2. IsFiniteSet(Upto(k)) /\ Cardinality(Upto(k)) <= n
    BY <2>1, FS_Subset
  <2> QED
    BY <2>2, FS_CardinalityType
<1>3. T \subseteq Nat /\ T # {}
  <2>1. \A k \in S : n - Cardinality(Upto(k)) \in Nat
    BY <1>1, <1>2
  <2> HIDE DEF n, Upto
  <2> QED
    BY <2>1
<1>4. PICK m \in T : \A j \in T : m <= j
  <2> HIDE DEF T
  <2> QED
    BY <1>3, MinIs
<1>5. PICK k \in S : m = n - Cardinality(Upto(k))
  OBVIOUS
<1>6. ASSUME NEW j \in S, j > k PROVE FALSE
  <2>1. Upto(k) \subseteq Upto(j) /\ j \in Upto(j) /\ j \notin Upto(k) /\ j \in Int /\ k \in Int
    BY <1>6
  <2>2. Cardinality(Upto(k)) < Cardinality(Upto(j))
    <3>1. Upto(k) # Upto(j)
      BY <2>1
    <3> QED
      BY <3>1, <2>1, <1>2, FS_Subset
  <2>3. m <= n - Cardinality(Upto(j))
    BY <1>4
  <2> QED
    BY <2>2, <2>3, <1>5, <1>1, <1>2
<1>7. k \in S /\ \A j \in S : k >= j
  BY <1>6
<1>8. Max(S) \in S
  BY <1>7 DEF Max
<1> QED
  BY <1>8

\* RemoveFirst takes the member out of a sequence that holds it once.
LEMMA RemoveFirstIs ==
    ASSUME NEW s \in Seq(Nat), NEW e, IsInjective(s)
    PROVE  /\ RemoveFirst(s, e) \in Seq(Nat) /\ IsInjective(RemoveFirst(s, e))
           /\ \A i \in DOMAIN RemoveFirst(s, e) :
                /\ RemoveFirst(s, e)[i] # e
                /\ \E j \in DOMAIN s : s[j] = RemoveFirst(s, e)[i]
           /\ \A j \in DOMAIN s : s[j] # e =>
                \E i \in DOMAIN RemoveFirst(s, e) : RemoveFirst(s, e)[i] = s[j]
<1> DEFINE n == Len(s)
<1>1. n \in Nat /\ DOMAIN s = 1..n /\ \A j \in 1..n : s[j] \in Nat
  OBVIOUS
<1>2. CASE ~\E i \in 1..n : s[i] = e
  BY <1>1, <1>2 DEF RemoveFirst
<1>3. CASE \E i \in 1..n : s[i] = e
  <2>1. PICK k \in 1..n : s[k] = e
    BY <1>3
  <2>2. \A j \in 1..n : s[j] = e => j = k
    BY <2>1, <1>1 DEF IsInjective
  <2> DEFINE I == {i \in 1..n : s[i] = e}
  <2>3. I = {k}
    BY <2>1, <2>2
  <2>4. SelectInSeq(s, LAMBDA v : v = e) = k
    <3>1. I # {}
      BY <2>3
    <3>2. Min(I) = k
      <4>1. I \subseteq Nat
        BY <1>1
      <4>2. Min(I) \in I
        <5> HIDE DEF I
        <5> QED
          BY <3>1, <4>1, MinIs
      <4> QED
        BY <4>2, <2>3
    <3> HIDE DEF Min
    <3> QED
      BY <3>1, <3>2 DEF SelectInSeq
  <2>5. RemoveFirst(s, e) = RemoveAt(s, k)
    BY <1>3, <2>4 DEF RemoveFirst
  <2> DEFINE t == RemoveAt(s, k)
  <2>12. LET u == SubSeq(s, 1, k - 1)
             v == SubSeq(s, k + 1, n)
         IN  /\ u \o v \in Seq(Nat) /\ Len(u \o v) = n - 1
             /\ \A i \in 1..n - 1 : (u \o v)[i] = IF i < k THEN s[i] ELSE s[i + 1]
    <3> DEFINE u == SubSeq(s, 1, k - 1)
               v == SubSeq(s, k + 1, n)
    <3>1. /\ u \in Seq(Nat) /\ Len(u) = k - 1
          /\ \A i \in 1..k - 1 : u[i] = s[i]
      <4>1. k - 1 \in Int /\ \A i \in 1..k - 1 : s[i] \in Nat
        BY <1>1, <2>1
      <4>2. /\ u \in Seq(Nat) /\ Len(u) = IF 1 <= k - 1 THEN k - 1 - 1 + 1 ELSE 0
            /\ \A i \in 1..k - 1 - 1 + 1 : u[i] = s[1 + i - 1]
        BY <4>1, SubSeqProperties
      <4> HIDE DEF u
      <4> QED
        BY <4>2, <2>1, <1>1
    <3>2. /\ v \in Seq(Nat) /\ Len(v) = n - k
          /\ \A i \in 1..n - k : v[i] = s[k + i]
      <4>1. k + 1 \in Int /\ \A i \in k + 1..n : s[i] \in Nat
        BY <1>1, <2>1
      <4>2. /\ v \in Seq(Nat) /\ Len(v) = IF k + 1 <= n THEN n - (k + 1) + 1 ELSE 0
            /\ \A i \in 1..n - (k + 1) + 1 : v[i] = s[k + 1 + i - 1]
        BY <4>1, <1>1, SubSeqProperties
      <4>3. /\ n - (k + 1) + 1 = n - k /\ \A i \in 1..n - k : k + 1 + i - 1 = k + i
            /\ (IF k + 1 <= n THEN n - (k + 1) + 1 ELSE 0) = n - k
        <5> HIDE DEF n
        <5>1. n \in Nat /\ k \in Nat /\ k <= n
          BY <1>1, <2>1
        <5> QED
          BY <5>1
      <4> HIDE DEF v
      <4> QED
        BY <4>2, <4>3
    <3> HIDE DEF u, v
    <3>3. /\ u \o v \in Seq(Nat) /\ Len(u \o v) = k - 1 + (n - k)
          /\ \A i \in 1..k - 1 + (n - k) :
               (u \o v)[i] = IF i <= k - 1 THEN u[i] ELSE v[i - (k - 1)]
      <4>1. /\ u \o v \in Seq(Nat) /\ Len(u \o v) = Len(u) + Len(v)
            /\ \A i \in 1..Len(u) + Len(v) :
                 (u \o v)[i] = IF i <= Len(u) THEN u[i] ELSE v[i - Len(u)]
        BY <3>1, <3>2, ConcatProperties
      <4> QED
        BY <4>1, <3>1, <3>2
    <3>4. \A i \in 1..n - 1 : (u \o v)[i] = IF i < k THEN s[i] ELSE s[i + 1]
      <4> TAKE i \in 1..n - 1
      <4>1. i \in 1..k - 1 + (n - k)
        BY <1>1, <2>1
      <4>2. CASE i < k
        BY <4>1, <4>2, <3>1, <3>3, <2>1, <1>1
      <4>3. CASE ~(i < k)
        <5>1. ~(i <= k - 1) /\ i - (k - 1) \in 1..n - k /\ k + (i - (k - 1)) = i + 1
          BY <4>3, <2>1, <1>1
        <5> QED
          BY <5>1, <4>1, <4>3, <3>2, <3>3
      <4> QED
        BY <4>2, <4>3
    <3>5. k - 1 + (n - k) = n - 1
      BY <1>1, <2>1
    <3> QED
      BY <3>3, <3>4, <3>5 DEF u, v
  <2>6. t \in Seq(Nat) /\ Len(t) = n - 1
    BY <2>12 DEF RemoveAt
  <2>7. \A i \in 1..n - 1 : t[i] = IF i < k THEN s[i] ELSE s[i + 1]
    BY <2>12 DEF RemoveAt
  <2>8. DOMAIN t = 1..n - 1
    BY <2>6, <1>1
  <2> HIDE DEF t
  <2>9. IsInjective(t)
    <3> SUFFICES ASSUME NEW a \in 1..n - 1, NEW b \in 1..n - 1, t[a] = t[b]
                 PROVE  a = b
      BY <2>8 DEF IsInjective
    <3>1. t[a] = s[IF a < k THEN a ELSE a + 1] /\ t[b] = s[IF b < k THEN b ELSE b + 1]
      BY <2>7
    <3>2. /\ (IF a < k THEN a ELSE a + 1) \in DOMAIN s
          /\ (IF b < k THEN b ELSE b + 1) \in DOMAIN s
      BY SMTT(60), <1>1, <2>1
    <3>3. (IF a < k THEN a ELSE a + 1) = (IF b < k THEN b ELSE b + 1)
      BY <3>1, <3>2 DEF IsInjective
    <3> QED
      BY SMTT(60), <3>3, <1>1, <2>1
  <2>10. \A i \in 1..n - 1 : t[i] # e /\ \E j \in 1..n : s[j] = t[i]
    <3> TAKE i \in 1..n - 1
    <3>1. CASE i < k
      BY <3>1, <2>7, <2>2, <1>1
    <3>2. CASE ~(i < k)
      <4>1. i + 1 \in 1..n /\ i + 1 # k
        BY <3>2, <1>1, <2>1
      <4> QED
        BY <4>1, <3>2, <2>7, <2>2
    <3> QED
      BY <3>1, <3>2
  <2>11. \A j \in 1..n : s[j] # e => \E i \in 1..n - 1 : t[i] = s[j]
    <3> TAKE j \in 1..n
    <3> HAVE s[j] # e
    <3>1. CASE j < k
      BY SMTT(60), <3>1, <2>7, <1>1, <2>1
    <3>2. CASE ~(j < k)
      <4>1. j - 1 \in 1..n - 1 /\ ~(j - 1 < k) /\ j - 1 + 1 = j
        BY <3>2, <2>1, <1>1
      <4> QED
        BY <4>1, <2>7
    <3> QED
      BY <3>1, <3>2
  <2> QED
    BY <2>5, <2>6, <2>8, <2>9, <2>10, <2>11, <1>1 DEF t
<1> QED
  BY <1>2, <1>3

\* The slot Push takes is one its context does not use.
LEMMA FreshId ==
    ASSUME NEW S, IsFiniteSet(S)
    PROVE  \E i \in 1..(Cardinality(S) + 1) : i \notin S
<1> DEFINE n == Cardinality(S)
<1>1. n \in Nat
  BY FS_CardinalityType
<1>2. SUFFICES ASSUME 1..(n + 1) \subseteq S PROVE FALSE
  OBVIOUS
<1>3. Cardinality(1..(n + 1)) <= n
  BY <1>2, FS_Subset
<1>4. Cardinality(1..(n + 1)) = n + 1
  <2>1. 1 \in Int /\ n + 1 \in Int /\ ~(1 > n + 1) /\ n + 1 - 1 + 1 = n + 1
    BY <1>1
  <2> QED
    BY <2>1, FS_Interval
<1> QED
  BY <1>1, <1>3, <1>4

-----------------------------------------------------------------------------
(* The graph                                                                *)

GraphTables ==
    /\ \A n \in Nodes : /\ C.valuesFrom[n] \subseteq DOMAIN G.wires
                        /\ C.donesFrom[n] \subseteq DOMAIN G.wires
                        /\ C.dependents[n] \subseteq Nodes
    /\ \A w \in DOMAIN G.wires : /\ G.wires[w].to \in Nodes
                                 /\ G.wires[w].off \in Int
                                 /\ G.wires[w].port \in Nat
    /\ Nodes = 1..Len(G.kind) /\ Len(G.kind) \in Nat
    /\ DOMAIN G.wires = 1..Len(G.wires) /\ Len(G.wires) \in Nat
    /\ G.raw \subseteq Nodes
    /\ G.copies \in [Nodes -> Nat \ {0}]
    /\ IsFiniteSet(Nodes) /\ IsFiniteSet(DOMAIN G.wires)

\* What compile_wires() derives lies within the graph.
LEMMA Tables ==
    ASSUME Topology
    PROVE  GraphTables
<1>1. G.kind \in Seq({"joined", "indexed"}) /\ G.wires \in Seq(WireType)
  BY DEF Topology, WellFormed
<1>2. Nodes = 1..Len(G.kind) /\ Len(G.kind) \in Nat
  BY <1>1 DEF Nodes
<1>3. DOMAIN G.wires = 1..Len(G.wires) /\ Len(G.wires) \in Nat
  BY <1>1
<1>4. \A w \in DOMAIN G.wires : G.wires[w] \in WireType /\ G.wires[w] \in Wires(G)
  BY <1>1 DEF Wires
<1>5. \A w \in DOMAIN G.wires : /\ G.wires[w].to \in Nodes
                                /\ G.wires[w].off \in Int
                                /\ G.wires[w].port \in Nat
  BY <1>4 DEF Topology, WellFormed, WireType, Nodes
<1>6. G.raw \subseteq Nodes /\ G.copies \in [Nodes -> Nat \ {0}]
  BY DEF Topology, WellFormed, Nodes
<1>7. IsFiniteSet(Nodes) /\ IsFiniteSet(DOMAIN G.wires)
  <2>1. IsFiniteSet(1..Len(G.kind)) /\ IsFiniteSet(1..Len(G.wires))
    BY SMTT(60), <1>2, <1>3, FS_Interval
  <2> QED
    BY <2>1, <1>2, <1>3
<1>8. C.valuesFrom = [n \in 1..Len(G.kind) |-> {i \in DOMAIN G.wires :
                            G.wires[i].from = n /\ ~G.wires[i].done}]
  BY DEF Topology, Compile
<1>9. C.donesFrom = [n \in 1..Len(G.kind) |-> {i \in DOMAIN G.wires :
                            G.wires[i].from = n /\ G.wires[i].done}]
  BY DEF Topology, Compile
<1>10. C.dependents = [n \in 1..Len(G.kind) |->
          {w.to : w \in {v \in {w \in Wires(G) : ~LoopCarried(w)} : v.from = n}}]
  BY DEF Topology, Compile
<1>11. \A w \in Wires(G) : w.to \in Nodes
  BY <1>5 DEF Wires
<1>12. \A n \in Nodes : /\ C.valuesFrom[n] \subseteq DOMAIN G.wires
                        /\ C.donesFrom[n] \subseteq DOMAIN G.wires
                        /\ C.dependents[n] \subseteq Nodes
  BY <1>2, <1>8, <1>9, <1>10, <1>11
<1> QED
  BY <1>2, <1>3, <1>5, <1>6, <1>7, <1>12 DEF GraphTables

-----------------------------------------------------------------------------
(* Steps that start no event                                                *)

\* The record is the same, its running events go on with what they hold, and
\* a lease is given up only when no running delivery uses it.
CalmContext(x, y) ==
    /\ y.inUse = x.inUse /\ y.gated = x.gated /\ y.seq = x.seq /\ y.phase = x.phase
    /\ ~x.inUse => y = x
    /\ \A id : Runs(x, id) <=> Runs(y, id)
    /\ \A id : Runs(x, id) => /\ y.ev[id].kind = x.ev[id].kind
                              /\ y.ev[id].node = x.ev[id].node
                              /\ y.ev[id].rep = x.ev[id].rep
    /\ \A n \in Nodes :
         \/ y.lease[n] = x.lease[n]
         \/ /\ y.lease[n] = 0
            /\ \A id : Runs(y, id) /\ y.ev[id].node = n => ~IsPoolDelivery(y.ev[id])

\* A node's turn moves on only past records that run nothing on it.
CalmTurns(s, t) ==
    /\ \A n \in Nodes : s.turn[n] <= t.turn[n]
    /\ \A c \in Contexts : \A id :
         Runs(t.ctx[c], id) /\ t.ctx[c].gated /\ s.turn[Ev(t, c, id).node] = t.ctx[c].seq
         => t.turn[Ev(t, c, id).node] = t.ctx[c].seq

Calm(s, t) ==
    /\ t.active = s.active /\ t.next = s.next
    /\ \A c \in Contexts : CalmContext(s.ctx[c], t.ctx[c])
    /\ CalmTurns(s, t)

Follows(s, t) == Core(t) /\ Calm(s, t)

SameElse(s, t, c) ==
    /\ DOMAIN t = SchedFields /\ DOMAIN t.ctx = Contexts
    /\ \A d \in Contexts : d # c => t.ctx[d] = s.ctx[d]
    /\ t.active = s.active /\ t.next = s.next /\ t.turn = s.turn

\* A context that does not change is calm.
LEMMA CalmContextRefl ==
    ASSUME NEW x
    PROVE  CalmContext(x, x)
  BY DEF CalmContext

\* Two calm changes of a context make one.
LEMMA CalmContextTrans ==
    ASSUME NEW x, NEW y, NEW z, CalmContext(x, y), CalmContext(y, z)
    PROVE  CalmContext(x, z)
<1>1. /\ z.inUse = x.inUse /\ z.gated = x.gated /\ z.seq = x.seq /\ z.phase = x.phase
      /\ ~x.inUse => z = x
  BY DEF CalmContext
<1>2. /\ \A id : Runs(x, id) <=> Runs(z, id)
      /\ \A id : Runs(x, id) => /\ z.ev[id].kind = x.ev[id].kind
                                /\ z.ev[id].node = x.ev[id].node
                                /\ z.ev[id].rep = x.ev[id].rep
  BY DEF CalmContext
<1>3. ASSUME NEW n \in Nodes
      PROVE  \/ z.lease[n] = x.lease[n]
             \/ /\ z.lease[n] = 0
                /\ \A id : Runs(z, id) /\ z.ev[id].node = n => ~IsPoolDelivery(z.ev[id])
  <2>1. \A id : Runs(z, id) => /\ Runs(y, id) /\ z.ev[id].kind = y.ev[id].kind
                               /\ z.ev[id].node = y.ev[id].node
    BY DEF CalmContext
  <2>2. \/ z.lease[n] = y.lease[n]
        \/ /\ z.lease[n] = 0
           /\ \A id : Runs(z, id) /\ z.ev[id].node = n => ~IsPoolDelivery(z.ev[id])
    BY DEF CalmContext
  <2>3. \/ y.lease[n] = x.lease[n]
        \/ /\ y.lease[n] = 0
           /\ \A id : Runs(y, id) /\ y.ev[id].node = n => ~IsPoolDelivery(y.ev[id])
    BY DEF CalmContext
  <2> QED
    BY <2>1, <2>2, <2>3 DEF IsPoolDelivery
<1> QED
  BY <1>1, <1>2, <1>3 DEF CalmContext

\* A scheduler state follows itself.
LEMMA FollowsRefl ==
    ASSUME NEW s, Core(s)
    PROVE  Follows(s, s)
<1>1. \A n \in Nodes : s.turn[n] <= s.turn[n]
  BY DEF Core
<1> QED
  BY <1>1, CalmContextRefl DEF Follows, Calm, CalmTurns

\* The steps of a critical section compose.
LEMMA FollowsTrans ==
    ASSUME NEW s, NEW t, NEW u, Core(s), Follows(s, t), Follows(t, u)
    PROVE  Follows(s, u)
<1>1. \A c \in Contexts : CalmContext(s.ctx[c], u.ctx[c])
  BY CalmContextTrans DEF Follows, Calm
<1>2. \A n \in Nodes : s.turn[n] <= u.turn[n]
  <2>1. \A n \in Nodes : s.turn[n] \in Nat /\ t.turn[n] \in Nat /\ u.turn[n] \in Nat
    BY DEF Follows, Core
  <2>2. \A n \in Nodes : s.turn[n] <= t.turn[n] /\ t.turn[n] <= u.turn[n]
    BY DEF Follows, Calm, CalmTurns
  <2> QED
    BY <2>1, <2>2
<1>3. ASSUME NEW c \in Contexts, NEW id, Runs(u.ctx[c], id), u.ctx[c].gated,
             s.turn[Ev(u, c, id).node] = u.ctx[c].seq
      PROVE  u.turn[Ev(u, c, id).node] = u.ctx[c].seq
  <2>1. /\ Runs(t.ctx[c], id) /\ t.ctx[c].gated /\ t.ctx[c].seq = u.ctx[c].seq
        /\ Ev(t, c, id).node = Ev(u, c, id).node
    <3>1. CalmContext(t.ctx[c], u.ctx[c])
      BY <1>3 DEF Follows, Calm
    <3> QED
      BY <1>3, <3>1 DEF CalmContext, Ev
  <2>2. t.turn[Ev(t, c, id).node] = t.ctx[c].seq
    BY <2>1, <1>3 DEF Follows, Calm, CalmTurns
  <2> QED
    BY <2>1, <2>2, <1>3 DEF Follows, Calm, CalmTurns
<1> QED
  BY <1>1, <1>2, <1>3 DEF Follows, Calm, CalmTurns

\* A step within one context.
LEMMA ContextStep ==
    ASSUME NEW s, NEW t, NEW c \in Contexts, Core(s), SameElse(s, t, c),
           JoinsOK(t), Context(t.ctx[c]), CalmContext(s.ctx[c], t.ctx[c])
    PROVE  Follows(s, t)
<1>1. \A d \in Contexts : Context(t.ctx[d]) /\ CalmContext(s.ctx[d], t.ctx[d])
  BY CalmContextRefl DEF Core, SameElse
<1>2. Numbered(t)
  <2>1. \A d \in Contexts : /\ t.ctx[d].gated = s.ctx[d].gated
                            /\ t.ctx[d].inUse = s.ctx[d].inUse
                            /\ t.ctx[d].seq = s.ctx[d].seq
    BY <1>1 DEF CalmContext
  <2>2. Numbered(s) /\ t.next = s.next
    BY DEF Core, SameElse
  <2> QED
    BY <2>1, <2>2 DEF Numbered
<1>3. Core(t)
  BY <1>1, <1>2 DEF Core, SameElse
<1>4. \A n \in Nodes : s.turn[n] <= t.turn[n]
  BY DEF Core, SameElse
<1> QED
  BY <1>1, <1>3, <1>4 DEF Follows, Calm, CalmTurns, SameElse

-----------------------------------------------------------------------------
(* Events                                                                   *)

\* A step that changes nothing but one context.
LEMMA InContext ==
    ASSUME NEW s, NEW c \in Contexts, NEW y, Core(s), Context(y),
           CalmContext(s.ctx[c], y)
    PROVE  /\ Follows(s, [s EXCEPT !.ctx[c] = y])
           /\ [s EXCEPT !.ctx[c] = y].ctx[c] = y
<1> DEFINE t == [s EXCEPT !.ctx[c] = y]
<1>1. DOMAIN s = SchedFields /\ DOMAIN s.ctx = Contexts
  BY DEF Core
<1>2. SameElse(s, t, c) /\ t.ctx[c] = y /\ t.last = s.last /\ t.joins = s.joins
  BY <1>1 DEF SameElse, SchedFields
<1>3. JoinsOK(t)
  BY <1>2 DEF Core, JoinsOK
<1> HIDE DEF t
<1>4. Follows(s, t)
  BY <1>2, <1>3, ContextStep
<1> QED
  BY <1>2, <1>4 DEF t

\* The context but for its events and its ready queue.
SameRecord(x, y) ==
    /\ DOMAIN y = ContextFields
    /\ y.inUse = x.inUse /\ y.gated = x.gated /\ y.seq = x.seq /\ y.phase = x.phase
    /\ y.lease = x.lease /\ y.released = x.released /\ y.complete = x.complete

SameEvents(x, y) ==
    /\ DOMAIN y.ev = DOMAIN x.ev
    /\ \A i \in DOMAIN x.ev : /\ y.ev[i].parent = x.ev[i].parent
                              /\ y.ev[i].kids = x.ev[i].kids
                              /\ y.ev[i].node = x.ev[i].node
                              /\ y.ev[i].kind = x.ev[i].kind
                              /\ y.ev[i].rep = x.ev[i].rep

\* Events that keep their parents and children keep their tree.
LEMMA SameTree ==
    ASSUME NEW x, NEW y, Tree(x.ev), SameEvents(x, y)
    PROVE  Tree(y.ev)
  BY DEF Tree, SameEvents

\* enqueue_locked(): a held event joins the end of the ready queue.
LEMMA EnqueueContext ==
    ASSUME NEW x, NEW id, Context(x), id \in DOMAIN x.ev, x.ev[id].st = "held", x.inUse
    PROVE  LET y == Queued(x, id)
           IN  /\ Context(y) /\ CalmContext(x, y)
               /\ SameRecord(x, y) /\ SameEvents(x, y)
               /\ \A i \in DOMAIN x.ev : x.ev[i].st # "held" => y.ev[i].st = x.ev[i].st
<1> DEFINE y == Queued(x, id)
<1>1. /\ DOMAIN x = ContextFields /\ x.ready \in Seq(Nat) /\ id \in Nat
      /\ \A i \in DOMAIN x.ev : IsEvent(x.ev[i])
  BY DEF Context, ReadyQueue
<1>2. SameRecord(x, y)
  BY <1>1 DEF Queued, SameRecord, ContextFields
<1>3. DOMAIN y.ev = DOMAIN x.ev /\ \A i \in DOMAIN x.ev : i # id => y.ev[i] = x.ev[i]
  BY <1>1 DEF Queued, ContextFields
<1>4. y.ready = Append(x.ready, id)
  BY <1>1 DEF Queued, ContextFields
<1>5. y.ev[id] = [x.ev[id] EXCEPT !.st = "queued"]
  BY <1>1 DEF Queued, ContextFields
<1> HIDE DEF y
<1>6. IsEvent(x.ev[id]) /\ DOMAIN x.ev[id] = EventFields
  BY <1>1 DEF IsEvent
<1>7. IsEvent(y.ev[id]) /\ y.ev[id].st = "queued"
  BY <1>5, <1>6 DEF IsEvent, EventFields, IsPoolDelivery
<1>8. SameEvents(x, y)
  BY <1>3, <1>5, <1>6 DEF SameEvents, EventFields
<1>9. \A i \in DOMAIN x.ready : /\ x.ready[i] \in DOMAIN x.ev /\ x.ready[i] # id
                                /\ x.ev[x.ready[i]].st = "queued"
  BY DEF Context, ReadyQueue
<1>10. ReadyQueue(y)
  <2>1. y.ready \in Seq(Nat) /\ DOMAIN y.ready = 1..Len(x.ready) + 1
          /\ DOMAIN x.ready = 1..Len(x.ready) /\ Len(x.ready) \in Nat
    BY <1>1, <1>4
  <2>2. \A i \in DOMAIN y.ready : \/ i \in DOMAIN x.ready /\ y.ready[i] = x.ready[i]
                                  \/ i = Len(x.ready) + 1 /\ y.ready[i] = id
    BY <1>1, <1>4, <2>1
  <2>3. IsInjective(x.ready)
    BY DEF Context, ReadyQueue
  <2>4. IsInjective(y.ready)
    BY <1>9, <2>2, <2>3 DEF IsInjective
  <2>5. \A i \in DOMAIN y.ready : y.ready[i] \in DOMAIN y.ev
                                  /\ y.ev[y.ready[i]].st = "queued"
    BY <1>3, <1>7, <1>9, <2>2
  <2> QED
    BY <2>1, <2>4, <2>5 DEF ReadyQueue
<1>11. Tree(y.ev)
  BY <1>8, SameTree DEF Context
<1>12. Context(y)
  <2>1. \A i \in DOMAIN y.ev : IsEvent(y.ev[i])
    BY <1>1, <1>3, <1>7
  <2> QED
    BY <2>1, <1>2, <1>3, <1>10, <1>11 DEF Context, SameRecord
<1>13. \A i : Runs(x, i) <=> Runs(y, i)
  BY <1>3, <1>7 DEF Runs
<1>14. \A i \in DOMAIN x.ev : x.ev[i].st # "held" => y.ev[i].st = x.ev[i].st
  BY <1>3
<1>15. CalmContext(x, y)
  BY <1>2, <1>8, <1>13 DEF CalmContext, SameRecord, SameEvents, Runs
<1> QED
  BY <1>2, <1>8, <1>12, <1>14, <1>15 DEF y

\* enqueue_locked() leaves the record, the tree and what runs alone.
LEMMA EnqueueFollows ==
    ASSUME NEW s, NEW c \in Contexts, NEW id, Core(s), s.ctx[c].inUse,
           id \in DOMAIN s.ctx[c].ev
    PROVE  /\ Follows(s, Enqueue(s, c, id))
           /\ SameRecord(s.ctx[c], Enqueue(s, c, id).ctx[c])
           /\ SameEvents(s.ctx[c], Enqueue(s, c, id).ctx[c])
           /\ \A i \in DOMAIN s.ctx[c].ev : Ev(s, c, i).st # "held" =>
                Ev(Enqueue(s, c, id), c, i).st = Ev(s, c, i).st
<1>1. CASE Ev(s, c, id).st # "held"
  BY <1>1, FollowsRefl DEF Enqueue, SameRecord, SameEvents, Core, Context
<1>2. CASE Ev(s, c, id).st = "held"
  <2> DEFINE x == s.ctx[c]
             y == Queued(x, id)
  <2>1. Context(x)
    BY DEF Core
  <2>2. /\ Context(y) /\ CalmContext(x, y) /\ SameRecord(x, y) /\ SameEvents(x, y)
        /\ \A i \in DOMAIN x.ev : x.ev[i].st # "held" => y.ev[i].st = x.ev[i].st
    <3>1. id \in DOMAIN x.ev /\ x.ev[id].st = "held" /\ x.inUse
      BY <1>2 DEF Ev
    <3> HIDE DEF x
    <3> QED
      BY <2>1, <3>1, EnqueueContext
  <2>3. Enqueue(s, c, id) = [s EXCEPT !.ctx[c] = y]
    BY <1>2 DEF Enqueue
  <2> HIDE DEF y
  <2>4. Follows(s, [s EXCEPT !.ctx[c] = y]) /\ [s EXCEPT !.ctx[c] = y].ctx[c] = y
    BY <2>2, InContext
  <2> QED
    BY <2>2, <2>3, <2>4 DEF Ev
<1> QED
  BY <1>1, <1>2

\* An error stops the scheduler and changes no record.
LEMMA ErrorFollows ==
    ASSUME NEW s, NEW what, Core(s)
    PROVE  /\ Follows(s, Error(s, what))
           /\ Error(s, what).ctx = s.ctx /\ Error(s, what).joins = s.joins
<1> DEFINE t == Error(s, what)
<1>1. DOMAIN s = SchedFields
  BY DEF Core
<1>2. /\ DOMAIN t = SchedFields /\ t.ctx = s.ctx /\ t.active = s.active
      /\ t.next = s.next /\ t.turn = s.turn /\ t.joins = s.joins /\ t.last = s.last
  BY <1>1 DEF Error, SchedFields
<1> HIDE DEF t
<1>3. Core(t)
  BY <1>2 DEF Core, JoinsOK, Numbered
<1>4. \A n \in Nodes : s.turn[n] <= t.turn[n]
  BY <1>2 DEF Core
<1>5. Follows(s, t)
  BY <1>2, <1>3, <1>4, CalmContextRefl DEF Follows, Calm, CalmTurns
<1> QED
  BY <1>2, <1>5 DEF t

\* An event as it is handed to push_locked().
Template(x, e) ==
    /\ IsEvent(e) /\ e.st = "held" /\ e.kids = <<>>
    /\ e.parent = 0 \/ e.parent \in DOMAIN x.ev

\* push_locked(): a slot of its own, and a child of the event that pushed it.
LEMMA PushContext ==
    ASSUME NEW x, NEW e, Context(x), x.inUse, ~x.complete, Template(x, e)
    PROVE  LET y == Pushed(x, e)
           IN  /\ Context(y) /\ CalmContext(x, y) /\ ~y.complete /\ y.inUse
               /\ FreshSlot(x) \in DOMAIN y.ev
<1> DEFINE y == Pushed(x, e)
           id == FreshSlot(x)
           n == Cardinality(DOMAIN x.ev)
<1>1. /\ DOMAIN x = ContextFields /\ IsFiniteSet(DOMAIN x.ev)
      /\ DOMAIN x.ev \subseteq Nat \ {0}
      /\ \A i \in DOMAIN x.ev : IsEvent(x.ev[i])
  BY DEF Context
<1>2. n \in Nat
  BY <1>1, FS_CardinalityType
<1>3. id \in Nat \ {0} /\ id \notin DOMAIN x.ev
  <2>1. \E i \in 1..(n + 1) : i \notin DOMAIN x.ev
    BY <1>1, FreshId
  <2>2. id \in 1..(n + 1) /\ id \notin DOMAIN x.ev
    BY <2>1 DEF FreshSlot
  <2> QED
    BY <2>2, <1>2
<1>4. SameRecord(x, y) /\ y.ready = x.ready
  BY <1>1 DEF Pushed, SameRecord, ContextFields
<1>5. DOMAIN y.ev = DOMAIN x.ev \union {id}
  BY <1>1 DEF Pushed, ContextFields
<1>6. \E op : y.ev[id] = [e EXCEPT !.op = op]
  BY <1>1 DEF Pushed, ContextFields
<1>7. \A i \in DOMAIN x.ev : i # e.parent => y.ev[i] = x.ev[i]
  BY <1>1, <1>3 DEF Pushed, ContextFields
<1>8. \A i \in DOMAIN x.ev : i = e.parent =>
        y.ev[i] = [x.ev[i] EXCEPT !.kids = Append(x.ev[i].kids, id)]
  BY <1>1, <1>3 DEF Pushed, ContextFields
<1> HIDE DEF y, id
<1>9. /\ IsEvent(y.ev[id]) /\ y.ev[id].st = "held" /\ y.ev[id].kids = <<>>
      /\ y.ev[id].parent = e.parent
  <2>1. PICK op : y.ev[id] = [e EXCEPT !.op = op]
    BY <1>6
  <2>2. IsEvent(e) /\ DOMAIN e = EventFields /\ e.st = "held" /\ e.kids = <<>>
    BY DEF Template, IsEvent
  <2>3. DOMAIN y.ev[id] = EventFields /\ \A f \in EventFields : f # "op" => y.ev[id][f] = e[f]
    BY <2>1, <2>2
  <2>4. /\ y.ev[id].node = e.node /\ y.ev[id].kind = e.kind /\ y.ev[id].wire = e.wire
        /\ y.ev[id].idx = e.idx /\ y.ev[id].root = e.root /\ y.ev[id].off = e.off
        /\ y.ev[id].path = e.path /\ y.ev[id].cont = e.cont /\ y.ev[id].frees = e.frees
        /\ y.ev[id].kids = e.kids /\ y.ev[id].st = e.st /\ y.ev[id].parent = e.parent
    BY <2>3 DEF EventFields
  <2> QED
    BY <2>2, <2>3, <2>4 DEF IsEvent, IsPoolDelivery
<1>10. \A i \in DOMAIN x.ev :
         /\ IsEvent(y.ev[i]) /\ y.ev[i].st = x.ev[i].st /\ y.ev[i].kind = x.ev[i].kind
         /\ y.ev[i].node = x.ev[i].node /\ y.ev[i].rep = x.ev[i].rep
         /\ y.ev[i].parent = x.ev[i].parent
         /\ y.ev[i].kids = IF i = e.parent THEN Append(x.ev[i].kids, id)
                           ELSE x.ev[i].kids
  <2> TAKE i \in DOMAIN x.ev
  <2>1. CASE i # e.parent
    BY <2>1, <1>1, <1>7
  <2>2. CASE i = e.parent
    <3>1. IsEvent(x.ev[i])
      BY <1>1
    <3>2. Append(x.ev[i].kids, id) \in Seq(Nat)
      BY <3>1, <1>3 DEF IsEvent
    <3>3. y.ev[i] = [x.ev[i] EXCEPT !.kids = Append(x.ev[i].kids, id)]
      BY <2>2, <1>8
    <3>4. /\ y.ev[i].st = x.ev[i].st /\ y.ev[i].kind = x.ev[i].kind
          /\ y.ev[i].node = x.ev[i].node /\ y.ev[i].rep = x.ev[i].rep
          /\ y.ev[i].parent = x.ev[i].parent
          /\ y.ev[i].kids = Append(x.ev[i].kids, id)
      BY <3>1, <3>3 DEF IsEvent, EventFields
    <3>5. IsEvent(y.ev[i])
      BY <3>1, <3>2, <3>3 DEF IsEvent, EventFields, IsPoolDelivery
    <3> QED
      BY <2>2, <3>4, <3>5
  <2> QED
    BY <2>1, <2>2
<1>11. Tree(x.ev)
  BY DEF Context
<1>12. e.parent = 0 \/ e.parent \in DOMAIN x.ev
  BY DEF Template
<1>13. ASSUME NEW i \in DOMAIN x.ev
       PROVE  /\ x.ev[i].kids \in Seq(Nat) /\ Len(x.ev[i].kids) \in Nat
              /\ DOMAIN x.ev[i].kids = 1..Len(x.ev[i].kids)
              /\ \A k \in DOMAIN x.ev[i].kids : x.ev[i].kids[k] \in DOMAIN x.ev
                                                /\ x.ev[x.ev[i].kids[k]].parent = i
              /\ IsInjective(x.ev[i].kids)
  BY <1>1, <1>11 DEF Tree, IsEvent
<1>14. ASSUME NEW i \in DOMAIN x.ev, i = e.parent
       PROVE  /\ DOMAIN y.ev[i].kids = 1..Len(x.ev[i].kids) + 1
              /\ \A k \in DOMAIN x.ev[i].kids : y.ev[i].kids[k] = x.ev[i].kids[k]
              /\ y.ev[i].kids[Len(x.ev[i].kids) + 1] = id
  <2>1. y.ev[i].kids = Append(x.ev[i].kids, id) /\ id \in Nat
    BY <1>3, <1>10, <1>14
  <2>2. x.ev[i].kids \in Seq(Nat) /\ DOMAIN x.ev[i].kids = 1..Len(x.ev[i].kids)
    BY <1>13
  <2> QED
    BY <2>1, <2>2
<1>15. ASSUME NEW i \in DOMAIN x.ev
       PROVE  /\ \A k \in DOMAIN y.ev[i].kids :
                   \/ k \in DOMAIN x.ev[i].kids /\ y.ev[i].kids[k] = x.ev[i].kids[k]
                   \/ /\ i = e.parent /\ k = Len(x.ev[i].kids) + 1
                      /\ y.ev[i].kids[k] = id
              /\ \A k \in DOMAIN x.ev[i].kids : k \in DOMAIN y.ev[i].kids
                                                /\ y.ev[i].kids[k] = x.ev[i].kids[k]
  <2>1. CASE i # e.parent
    BY <2>1, <1>10
  <2>2. CASE i = e.parent
    <3>1. /\ Len(x.ev[i].kids) \in Nat /\ DOMAIN x.ev[i].kids = 1..Len(x.ev[i].kids)
          /\ DOMAIN y.ev[i].kids = 1..Len(x.ev[i].kids) + 1
      BY <2>2, <1>13, <1>14
    <3>2. \A k \in DOMAIN y.ev[i].kids : k \in DOMAIN x.ev[i].kids \/ k = Len(x.ev[i].kids) + 1
      BY <3>1
    <3>3. \A k \in DOMAIN x.ev[i].kids : k \in DOMAIN y.ev[i].kids
      BY <3>1
    <3> QED
      BY <2>2, <3>2, <3>3, <1>14
  <2> QED
    BY <2>1, <2>2
<1>16. Tree(y.ev)
  <2> SUFFICES ASSUME NEW i \in DOMAIN y.ev
      PROVE  /\ y.ev[i].parent # 0 =>
                  /\ y.ev[i].parent \in DOMAIN y.ev
                  /\ \E k \in DOMAIN y.ev[y.ev[i].parent].kids :
                       y.ev[y.ev[i].parent].kids[k] = i
             /\ \A k \in DOMAIN y.ev[i].kids :
                  y.ev[i].kids[k] \in DOMAIN y.ev /\ y.ev[y.ev[i].kids[k]].parent = i
             /\ IsInjective(y.ev[i].kids)
    BY DEF Tree
  <2>1. CASE i = id
    <3>1. y.ev[i].kids = <<>> /\ y.ev[i].parent = e.parent
      BY <2>1, <1>9
    <3>2. e.parent # 0 => /\ e.parent \in DOMAIN y.ev
                          /\ \E k \in DOMAIN y.ev[e.parent].kids : y.ev[e.parent].kids[k] = id
      <4> HAVE e.parent # 0
      <4>1. e.parent \in DOMAIN x.ev
        BY <1>12
      <4>2. Len(x.ev[e.parent].kids) + 1 \in DOMAIN y.ev[e.parent].kids
            /\ y.ev[e.parent].kids[Len(x.ev[e.parent].kids) + 1] = id
        BY SMTT(60), <4>1, <1>13, <1>14
      <4> QED
        BY <4>1, <4>2, <1>5
    <3> QED
      BY <2>1, <3>1, <3>2 DEF IsInjective
  <2>2. CASE i # id
    <3>1. i \in DOMAIN x.ev
      BY <2>2, <1>5
    <3>2. y.ev[i].parent # 0 =>
            /\ y.ev[i].parent \in DOMAIN y.ev
            /\ \E k \in DOMAIN y.ev[y.ev[i].parent].kids :
                 y.ev[y.ev[i].parent].kids[k] = i
      <4> HAVE y.ev[i].parent # 0
      <4>1. x.ev[i].parent = y.ev[i].parent /\ x.ev[i].parent \in DOMAIN x.ev
        BY <3>1, <1>10, <1>11 DEF Tree
      <4>2. PICK k \in DOMAIN x.ev[x.ev[i].parent].kids : x.ev[x.ev[i].parent].kids[k] = i
        BY <3>1, <4>1, <1>11 DEF Tree
      <4> QED
        BY <4>1, <4>2, <1>15, <1>5
    <3>3. \A k \in DOMAIN y.ev[i].kids :
            y.ev[i].kids[k] \in DOMAIN y.ev /\ y.ev[y.ev[i].kids[k]].parent = i
      BY <3>1, <1>5, <1>9, <1>10, <1>13, <1>15
    <3>4. IsInjective(y.ev[i].kids)
      <4>1. \A k \in DOMAIN x.ev[i].kids : x.ev[i].kids[k] # id
        BY <3>1, <1>3, <1>13
      <4>2. IsInjective(x.ev[i].kids)
        BY <3>1, <1>13
      <4> QED
        BY <3>1, <4>1, <4>2, <1>15 DEF IsInjective
    <3> QED
      BY <3>2, <3>3, <3>4
  <2> QED
    BY <2>1, <2>2
<1>17. ReadyQueue(y)
  <2>1. ReadyQueue(x)
    BY DEF Context
  <2> QED
    BY <2>1, <1>4, <1>5, <1>10 DEF ReadyQueue
<1>18. Context(y)
  <2>1. IsFiniteSet(DOMAIN y.ev) /\ DOMAIN y.ev \subseteq Nat \ {0}
    BY <1>1, <1>3, <1>5, FS_AddElement
  <2>2. \A i \in DOMAIN y.ev : IsEvent(y.ev[i])
    BY <1>5, <1>9, <1>10
  <2> QED
    BY <2>1, <2>2, <1>4, <1>16, <1>17 DEF Context, SameRecord
<1>19. \A i : Runs(x, i) <=> Runs(y, i)
  BY <1>3, <1>5, <1>9, <1>10 DEF Runs
<1>20. CalmContext(x, y)
  BY <1>4, <1>10, <1>19 DEF CalmContext, SameRecord, Runs
<1> QED
  BY <1>4, <1>5, <1>18, <1>20 DEF y, id, SameRecord

\* push_locked(): a new event enters the tree of an unfinished record.
LEMMA PushFollows ==
    ASSUME NEW s, NEW c \in Contexts, NEW e, Core(s), s.ctx[c].inUse,
           ~s.ctx[c].complete, Template(s.ctx[c], e)
    PROVE  Follows(s, Push(s, c, e)) /\ ~Push(s, c, e).ctx[c].complete
<1> DEFINE x == s.ctx[c]
           y == Pushed(x, e)
           t == [s EXCEPT !.ctx[c] = y]
           id == FreshSlot(x)
<1>1. Context(x)
  BY DEF Core
<1>2. Context(y) /\ CalmContext(x, y) /\ ~y.complete /\ y.inUse /\ id \in DOMAIN y.ev
  <2> HIDE DEF x
  <2>1. x.inUse /\ ~x.complete /\ Template(x, e)
    BY DEF x
  <2> QED
    BY <1>1, <2>1, PushContext
<1>3. Follows(s, t) /\ t.ctx[c] = y
  <2> HIDE DEF y
  <2> QED
    BY <1>2, InContext
<1>4. Core(t)
  BY <1>3 DEF Follows
<1> HIDE DEF t, id
<1>5. Follows(t, Enqueue(t, c, id)) /\ SameRecord(t.ctx[c], Enqueue(t, c, id).ctx[c])
  BY <1>2, <1>3, <1>4, EnqueueFollows
<1>6. Follows(s, Enqueue(t, c, id)) /\ ~Enqueue(t, c, id).ctx[c].complete
  BY <1>2, <1>3, <1>5, FollowsTrans DEF SameRecord
<1>7. Push(s, c, e) \in {s, Error(s, "event store overflow"), Enqueue(t, c, id), t}
  BY DEF Push, t, id
<1> QED
  BY <1>2, <1>3, <1>6, <1>7, FollowsRefl, ErrorFollows

\* An event changes where it stands and keeps its place in the tree.
LEMMA TouchContext ==
    ASSUME NEW x, NEW id, NEW e, Context(x), x.inUse, id \in DOMAIN x.ev, IsEvent(e),
           e.parent = x.ev[id].parent, e.kids = x.ev[id].kids,
           e.node = x.ev[id].node, e.kind = x.ev[id].kind, e.rep = x.ev[id].rep,
           x.ev[id].st = "queued" => e.st = "queued",
           x.ev[id].st = "running" <=> e.st = "running"
    PROVE  LET y == [x EXCEPT !.ev[id] = e]
           IN  /\ Context(y) /\ CalmContext(x, y) /\ SameRecord(x, y)
               /\ SameEvents(x, y) /\ y.ev[id] = e
               /\ \A i \in DOMAIN x.ev : i # id => y.ev[i] = x.ev[i]
<1> DEFINE y == [x EXCEPT !.ev[id] = e]
<1>1. DOMAIN x = ContextFields /\ \A i \in DOMAIN x.ev : IsEvent(x.ev[i])
  BY DEF Context
<1>2. SameRecord(x, y) /\ y.ready = x.ready
  BY <1>1 DEF SameRecord, ContextFields
<1>3. /\ DOMAIN y.ev = DOMAIN x.ev /\ y.ev[id] = e
      /\ \A i \in DOMAIN x.ev : i # id => y.ev[i] = x.ev[i]
  BY <1>1 DEF ContextFields
<1> HIDE DEF y
<1>4. SameEvents(x, y)
  BY <1>3 DEF SameEvents
<1>5. Tree(y.ev)
  BY <1>4, SameTree DEF Context
<1>6. ReadyQueue(y)
  <2>1. ReadyQueue(x)
    BY DEF Context
  <2> QED
    BY <2>1, <1>2, <1>3 DEF ReadyQueue
<1>7. Context(y)
  <2>1. \A i \in DOMAIN y.ev : IsEvent(y.ev[i])
    BY <1>1, <1>3
  <2> QED
    BY <2>1, <1>2, <1>3, <1>5, <1>6 DEF Context, SameRecord
<1>8. \A i : Runs(x, i) <=> Runs(y, i)
  BY <1>3 DEF Runs
<1>9. CalmContext(x, y)
  BY <1>2, <1>4, <1>8 DEF CalmContext, SameRecord, SameEvents, Runs
<1> QED
  BY <1>2, <1>3, <1>4, <1>7, <1>9 DEF y

\* Held events become ready; the tree and the other events stay.
Wakes(s, t, c) ==
    /\ Follows(s, t)
    /\ SameRecord(s.ctx[c], t.ctx[c]) /\ SameEvents(s.ctx[c], t.ctx[c])
    /\ \A i \in DOMAIN s.ctx[c].ev : Ev(s, c, i).st # "held" =>
                                       Ev(t, c, i).st = Ev(s, c, i).st

\* Waking nobody is a way of waking.
LEMMA WakesRefl ==
    ASSUME NEW s, NEW c \in Contexts, Core(s)
    PROVE  Wakes(s, s, c)
  BY FollowsRefl DEF Wakes, SameRecord, SameEvents, Core, Context

\* Events may be woken one after the other.
LEMMA WakesTrans ==
    ASSUME NEW s, NEW t, NEW u, NEW c \in Contexts, Core(s),
           Wakes(s, t, c), Wakes(t, u, c)
    PROVE  Wakes(s, u, c)
<1>1. Follows(s, u)
  BY FollowsTrans DEF Wakes
<1>2. SameRecord(s.ctx[c], u.ctx[c])
  BY DEF Wakes, SameRecord
<1>3. SameEvents(s.ctx[c], u.ctx[c])
  BY ZenonT(60) DEF Wakes, SameEvents
<1>4. \A i \in DOMAIN s.ctx[c].ev : Ev(s, c, i).st # "held" =>
                                      Ev(u, c, i).st = Ev(s, c, i).st
  BY DEF Wakes, SameEvents
<1> QED
  BY <1>1, <1>2, <1>3, <1>4 DEF Wakes

WaiterStep(c, y, z, u, t, k) == EnqueueWaiter(t, c, k)
UnblockStep(c, id, z, u, t, k) == UnblockSibling(t, c, id, k)
WakesFrom(p, t) == Wakes(p.s, t, p.c)
Waiters == INSTANCE FoldInduction WITH Step <- WaiterStep, Inv <- WakesFrom
Blocked == INSTANCE FoldInduction WITH Step <- UnblockStep, Inv <- WakesFrom

\* A sibling that waits for the others to drain is woken.
LEMMA EnqueueWaiterWakes ==
    ASSUME NEW s, NEW c \in Contexts, NEW k, Core(s), s.ctx[c].inUse,
           k \in DOMAIN s.ctx[c].ev
    PROVE  Wakes(s, EnqueueWaiter(s, c, k), c)
  BY EnqueueFollows, WakesRefl DEF EnqueueWaiter, Wakes

\* A sibling blocked behind a retired event is woken.
LEMMA UnblockSiblingWakes ==
    ASSUME NEW s, NEW c \in Contexts, NEW id, NEW k, Core(s), s.ctx[c].inUse,
           k \in DOMAIN s.ctx[c].ev
    PROVE  Wakes(s, UnblockSibling(s, c, id, k), c)
<1> DEFINE x == s.ctx[c]
           e == [x.ev[k] EXCEPT !.block = 0]
           y == [x EXCEPT !.ev[k] = e]
           t == [s EXCEPT !.ctx[c] = y]
<1>1. Context(x) /\ IsEvent(x.ev[k])
  BY DEF Core, Context
<1>2. /\ IsEvent(e) /\ e.parent = x.ev[k].parent /\ e.kids = x.ev[k].kids
      /\ e.node = x.ev[k].node /\ e.kind = x.ev[k].kind /\ e.rep = x.ev[k].rep
      /\ e.st = x.ev[k].st
  BY <1>1 DEF IsEvent, EventFields, IsPoolDelivery
<1>3. /\ Context(y) /\ CalmContext(x, y) /\ SameRecord(x, y) /\ SameEvents(x, y)
      /\ y.ev[k] = e /\ \A i \in DOMAIN x.ev : i # k => y.ev[i] = x.ev[i]
  <2>1. x.inUse /\ k \in DOMAIN x.ev
    OBVIOUS
  <2> HIDE DEF x, e
  <2> QED
    BY <1>1, <1>2, <2>1, TouchContext
<1>4. Follows(s, t) /\ t.ctx[c] = y
  <2> HIDE DEF y
  <2> QED
    BY <1>3, InContext
<1>5. t = [s EXCEPT !.ctx[c].ev[k].block = 0]
  OBVIOUS
<1>6. Wakes(s, t, c)
  <2> HIDE DEF t, y, e
  <2> QED
    BY <1>2, <1>3, <1>4 DEF Wakes, Ev
<1>7. UnblockSibling(s, c, id, k) \in {s, t, Enqueue(t, c, k)}
  <2> HIDE DEF t
  <2> QED
    BY <1>5 DEF UnblockSibling
<1>8. Wakes(t, Enqueue(t, c, k), c)
  <2>1. Core(t) /\ t.ctx[c].inUse /\ k \in DOMAIN t.ctx[c].ev
    <3> HIDE DEF t
    <3> QED
      BY <1>6 DEF Wakes, Follows, SameRecord, SameEvents
  <2> HIDE DEF t
  <2> QED
    BY <2>1, EnqueueFollows DEF Wakes
<1> HIDE DEF t
<1> QED
  BY <1>6, <1>7, <1>8, WakesRefl, WakesTrans

\* The children of an event, as the folds over them see them.
LEMMA KidsOf ==
    ASSUME NEW s, NEW c \in Contexts, NEW p, Core(s), p \in DOMAIN s.ctx[c].ev
    PROVE  /\ Ev(s, c, p).kids \in Seq(Nat)
           /\ \A i \in 1..Len(Ev(s, c, p).kids) :
                Ev(s, c, p).kids[i] \in DOMAIN s.ctx[c].ev
<1>1. Context(s.ctx[c])
  BY DEF Core
<1>2. Ev(s, c, p).kids \in Seq(Nat)
  BY <1>1 DEF Context, IsEvent, Ev
<1>3. \A i \in DOMAIN Ev(s, c, p).kids : Ev(s, c, p).kids[i] \in DOMAIN s.ctx[c].ev
  BY <1>1 DEF Context, Tree, Ev
<1> QED
  BY <1>2, <1>3

\* enqueue_sibling_waiter_locked() only wakes children of the event.
LEMMA EnqueueSiblingWaiterWakes ==
    ASSUME NEW s, NEW c \in Contexts, NEW p, Core(s), s.ctx[c].inUse,
           p \in DOMAIN s.ctx[c].ev
    PROVE  Wakes(s, EnqueueSiblingWaiter(s, c, p), c)
<1> DEFINE kids == Ev(s, c, p).kids
           q == [s |-> s, c |-> c]
<1>1. kids \in Seq(Nat) /\ \A i \in 1..Len(kids) : kids[i] \in DOMAIN s.ctx[c].ev
  BY KidsOf
<1>2. EnqueueSiblingWaiter(s, c, p) = Waiters!Fold(c, 0, 0, 0, s, kids)
  BY DEF EnqueueSiblingWaiter, Waiters!Fold, WaiterStep, FoldLeft, MapThenFoldSet,
         Waiters!Last, Max
<1>3. WakesFrom(q, s)
  BY WakesRefl DEF WakesFrom
<1>4. \A t : \A i \in 1..Len(kids) :
        WakesFrom(q, t) => WakesFrom(q, WaiterStep(c, 0, 0, 0, t, kids[i]))
  <2> SUFFICES ASSUME NEW t, NEW i \in 1..Len(kids), Wakes(s, t, c)
               PROVE  Wakes(s, EnqueueWaiter(t, c, kids[i]), c)
    BY DEF WakesFrom, WaiterStep
  <2> HIDE DEF kids
  <2>1. Core(t) /\ t.ctx[c].inUse /\ kids[i] \in DOMAIN t.ctx[c].ev
    BY <1>1 DEF Wakes, Follows, SameRecord, SameEvents
  <2> QED
    BY <2>1, EnqueueWaiterWakes, WakesTrans
<1> HIDE DEF kids, q
<1>5. WakesFrom(q, Waiters!Fold(c, 0, 0, 0, s, kids))
  BY <1>1, <1>3, <1>4, Waiters!FoldInv
<1> QED
  BY <1>2, <1>5 DEF WakesFrom, q

\* Retiring an event only wakes its siblings.
LEMMA UnblockWakes ==
    ASSUME NEW s, NEW c \in Contexts, NEW p, NEW id, Core(s), s.ctx[c].inUse,
           p \in DOMAIN s.ctx[c].ev
    PROVE  Wakes(s, Unblock(s, c, Ev(s, c, p).kids, id), c)
<1> DEFINE kids == Ev(s, c, p).kids
           q == [s |-> s, c |-> c]
<1>1. kids \in Seq(Nat) /\ \A i \in 1..Len(kids) : kids[i] \in DOMAIN s.ctx[c].ev
  BY KidsOf
<1>2. Unblock(s, c, kids, id) = Blocked!Fold(c, id, 0, 0, s, kids)
  BY DEF Unblock, Blocked!Fold, UnblockStep, FoldLeft, MapThenFoldSet,
         Blocked!Last, Max
<1>3. WakesFrom(q, s)
  BY WakesRefl DEF WakesFrom
<1>4. \A t : \A i \in 1..Len(kids) :
        WakesFrom(q, t) => WakesFrom(q, UnblockStep(c, id, 0, 0, t, kids[i]))
  <2> SUFFICES ASSUME NEW t, NEW i \in 1..Len(kids), Wakes(s, t, c)
               PROVE  Wakes(s, UnblockSibling(t, c, id, kids[i]), c)
    BY DEF WakesFrom, UnblockStep
  <2> HIDE DEF kids
  <2>1. Core(t) /\ t.ctx[c].inUse /\ kids[i] \in DOMAIN t.ctx[c].ev
    BY <1>1 DEF Wakes, Follows, SameRecord, SameEvents
  <2> QED
    BY <2>1, UnblockSiblingWakes, WakesTrans
<1> HIDE DEF kids, q
<1>5. WakesFrom(q, Blocked!Fold(c, id, 0, 0, s, kids))
  BY <1>1, <1>3, <1>4, Blocked!FoldInv
<1> QED
  BY <1>2, <1>5 DEF WakesFrom, q, kids

-----------------------------------------------------------------------------
(* The end of an event                                                      *)

\* A finished event without children leaves its slot and its parent.
LEMMA FreeSlotContext ==
    ASSUME NEW x, NEW id, Context(x), x.inUse, id \in DOMAIN x.ev,
           x.ev[id].st = "done", x.ev[id].kids = <<>>
    PROVE  LET y == FreeSlot(x, id)
           IN  /\ Context(y) /\ CalmContext(x, y) /\ SameRecord(x, y)
               /\ DOMAIN y.ev = DOMAIN x.ev \ {id}
               /\ \A i \in DOMAIN y.ev : y.ev[i].st = x.ev[i].st
<1> DEFINE y == FreeSlot(x, id)
           p == x.ev[id].parent
<1>1. /\ DOMAIN x = ContextFields /\ \A i \in DOMAIN x.ev : IsEvent(x.ev[i])
      /\ Tree(x.ev)
  BY DEF Context
<1>2. SameRecord(x, y) /\ y.ready = x.ready
  BY <1>1 DEF FreeSlot, SameRecord, ContextFields
<1>3. DOMAIN y.ev = DOMAIN x.ev \ {id}
  BY <1>1 DEF FreeSlot, ContextFields
<1>4. \A i \in DOMAIN y.ev : y.ev[i] = IF i # p THEN x.ev[i]
        ELSE [x.ev[i] EXCEPT !.kids = RemoveFirst(x.ev[i].kids, id)]
  BY <1>1 DEF FreeSlot, ContextFields
<1> HIDE DEF y, p
<1>5. \A i \in DOMAIN x.ev : x.ev[i].kids \in Seq(Nat) /\ IsInjective(x.ev[i].kids)
  BY <1>1 DEF IsEvent, Tree
<1>6. \A i \in DOMAIN y.ev :
        /\ IsEvent(y.ev[i]) /\ y.ev[i].st = x.ev[i].st /\ y.ev[i].kind = x.ev[i].kind
        /\ y.ev[i].node = x.ev[i].node /\ y.ev[i].rep = x.ev[i].rep
        /\ y.ev[i].parent = x.ev[i].parent
        /\ y.ev[i].kids = IF i # p THEN x.ev[i].kids ELSE RemoveFirst(x.ev[i].kids, id)
  <2> TAKE i \in DOMAIN y.ev
  <2>0. i \in DOMAIN x.ev
    BY <1>3
  <2>1. CASE i # p
    BY <2>0, <2>1, <1>1, <1>4
  <2>2. CASE i = p
    <3>1. IsEvent(x.ev[i]) /\ RemoveFirst(x.ev[i].kids, id) \in Seq(Nat)
      BY <2>0, <1>1, <1>5, RemoveFirstIs
    <3>2. y.ev[i] = [x.ev[i] EXCEPT !.kids = RemoveFirst(x.ev[i].kids, id)]
      BY <2>2, <1>4
    <3>3. /\ y.ev[i].st = x.ev[i].st /\ y.ev[i].kind = x.ev[i].kind
          /\ y.ev[i].node = x.ev[i].node /\ y.ev[i].rep = x.ev[i].rep
          /\ y.ev[i].parent = x.ev[i].parent
          /\ y.ev[i].kids = RemoveFirst(x.ev[i].kids, id)
      BY <3>1, <3>2 DEF IsEvent, EventFields
    <3>4. IsEvent(y.ev[i])
      BY <3>1, <3>2 DEF IsEvent, EventFields, IsPoolDelivery
    <3> QED
      BY <2>2, <3>3, <3>4
  <2> QED
    BY <2>1, <2>2
<1>7. \A i \in DOMAIN y.ev : \A k \in DOMAIN x.ev[i].kids : x.ev[i].kids[k] = id => i = p
  BY <1>1, <1>3 DEF Tree, p
<1>8. \A i \in DOMAIN y.ev : x.ev[i].parent # id
  <2> SUFFICES ASSUME NEW i \in DOMAIN y.ev, x.ev[i].parent = id PROVE FALSE
    OBVIOUS
  <2>1. id # 0
    BY DEF Context
  <2>2. \E k \in DOMAIN x.ev[id].kids : x.ev[id].kids[k] = i
    BY <2>1, <1>1, <1>3 DEF Tree
  <2> QED
    BY <2>2
<1>9. ASSUME NEW i \in DOMAIN y.ev
      PROVE  /\ IsInjective(y.ev[i].kids)
             /\ \A k \in DOMAIN y.ev[i].kids :
                  /\ y.ev[i].kids[k] # id
                  /\ \E j \in DOMAIN x.ev[i].kids : x.ev[i].kids[j] = y.ev[i].kids[k]
             /\ \A j \in DOMAIN x.ev[i].kids : x.ev[i].kids[j] # id =>
                  \E k \in DOMAIN y.ev[i].kids : y.ev[i].kids[k] = x.ev[i].kids[j]
  <2>0. i \in DOMAIN x.ev
    BY <1>3
  <2>1. CASE i # p
    BY <2>0, <2>1, <1>5, <1>6, <1>7
  <2>2. CASE i = p
    <3>1. y.ev[i].kids = RemoveFirst(x.ev[i].kids, id)
      BY <2>2, <1>6
    <3>2. x.ev[i].kids \in Seq(Nat) /\ IsInjective(x.ev[i].kids)
      BY <2>0, <1>5
    <3> QED
      BY <3>1, <3>2, RemoveFirstIs
  <2> QED
    BY <2>1, <2>2
<1>10. Tree(y.ev)
  <2> SUFFICES ASSUME NEW i \in DOMAIN y.ev
      PROVE  /\ y.ev[i].parent # 0 =>
                  /\ y.ev[i].parent \in DOMAIN y.ev
                  /\ \E k \in DOMAIN y.ev[y.ev[i].parent].kids :
                       y.ev[y.ev[i].parent].kids[k] = i
             /\ \A k \in DOMAIN y.ev[i].kids :
                  y.ev[i].kids[k] \in DOMAIN y.ev /\ y.ev[y.ev[i].kids[k]].parent = i
             /\ IsInjective(y.ev[i].kids)
    BY DEF Tree
  <2>1. i \in DOMAIN x.ev /\ i # id
    BY <1>3
  <2>2. y.ev[i].parent # 0 =>
          /\ y.ev[i].parent \in DOMAIN y.ev
          /\ \E k \in DOMAIN y.ev[y.ev[i].parent].kids :
               y.ev[y.ev[i].parent].kids[k] = i
    <3> HAVE y.ev[i].parent # 0
    <3>1. x.ev[i].parent = y.ev[i].parent /\ x.ev[i].parent \in DOMAIN x.ev
      BY <2>1, <1>1, <1>6 DEF Tree
    <3>2. PICK j \in DOMAIN x.ev[x.ev[i].parent].kids : x.ev[x.ev[i].parent].kids[j] = i
      BY <2>1, <3>1, <1>1 DEF Tree
    <3>3. x.ev[i].parent \in DOMAIN y.ev
      BY <3>1, <1>3, <1>8
    <3> QED
      BY <2>1, <3>1, <3>2, <3>3, <1>9
  <2>3. \A k \in DOMAIN y.ev[i].kids :
          y.ev[i].kids[k] \in DOMAIN y.ev /\ y.ev[y.ev[i].kids[k]].parent = i
    <3> TAKE k \in DOMAIN y.ev[i].kids
    <3>1. PICK j \in DOMAIN x.ev[i].kids : x.ev[i].kids[j] = y.ev[i].kids[k]
      BY <1>9
    <3>2. x.ev[i].kids[j] \in DOMAIN x.ev /\ x.ev[x.ev[i].kids[j]].parent = i
      BY <2>1, <1>1 DEF Tree
    <3>3. y.ev[i].kids[k] \in DOMAIN y.ev
      BY <3>1, <3>2, <1>3, <1>9
    <3> QED
      BY <3>1, <3>2, <3>3, <1>6
  <2> QED
    BY <2>2, <2>3, <1>9
<1>11. ReadyQueue(y)
  <2>1. ReadyQueue(x)
    BY DEF Context
  <2>2. \A i \in DOMAIN x.ready : x.ready[i] \in DOMAIN y.ev
    BY <2>1, <1>3 DEF ReadyQueue
  <2> QED
    BY <2>1, <2>2, <1>2, <1>6 DEF ReadyQueue
<1>12. Context(y)
  <2>1. IsFiniteSet(DOMAIN y.ev) /\ DOMAIN y.ev \subseteq Nat \ {0}
    BY <1>3, FS_Subset DEF Context
  <2>2. ~x.complete
    BY DEF Context
  <2> QED
    BY <2>1, <2>2, <1>2, <1>6, <1>10, <1>11 DEF Context, SameRecord
<1>13. \A i : Runs(x, i) <=> Runs(y, i)
  BY <1>3, <1>6 DEF Runs
<1>14. CalmContext(x, y)
  BY <1>2, <1>6, <1>13 DEF CalmContext, SameRecord, Runs
<1> QED
  BY <1>2, <1>3, <1>6, <1>12, <1>14 DEF y

\* A context whose bookkeeping beside the events changes.
LEMMA MinorContext ==
    ASSUME NEW x, NEW y, Context(x), x.inUse, SameRecord(x, y), y.ev = x.ev,
           y.ready = x.ready
    PROVE  Context(y) /\ CalmContext(x, y)
<1>1. Context(y)
  BY DEF Context, SameRecord, ReadyQueue
<1> QED
  BY <1>1 DEF CalmContext, SameRecord, Runs

\* A record without events may be marked complete; its leases go back.
LEMMA MarkCompleteFollows ==
    ASSUME NEW s, NEW c \in Contexts, Core(s), s.ctx[c].inUse,
           DOMAIN s.ctx[c].ev = {}
    PROVE  Follows(s, MarkComplete(s, c))
<1> DEFINE x == s.ctx[c]
           y == Completed(x)
<1>1. Context(x) /\ DOMAIN x = ContextFields
  BY DEF Core, Context
<1>2. /\ DOMAIN y = ContextFields /\ y.ev = x.ev /\ y.ready = x.ready
      /\ y.released = x.released /\ y.inUse = x.inUse /\ y.gated = x.gated
      /\ y.seq = x.seq /\ y.phase = x.phase
      /\ y.lease = [n \in Nodes |-> 0]
  BY <1>1 DEF Completed, ContextFields
<1> HIDE DEF y, x
<1>3. Context(y)
  <2>1. DOMAIN x.ev = {}
    BY DEF x
  <2>2. y.lease \in [Nodes -> Nat] /\ \A n \in Nodes : y.lease[n] = 0
    BY <1>2
  <2> QED
    BY <1>1, <1>2, <2>1, <2>2 DEF Context, ReadyQueue
<1>4. CalmContext(x, y)
  <2>1. DOMAIN x.ev = {} /\ x.inUse
    BY DEF x
  <2> QED
    BY <1>2, <2>1 DEF CalmContext, Runs
<1> QED
  BY <1>3, <1>4, InContext DEF MarkComplete, y, x

Drained(s, c, id) == /\ id \in DOMAIN s.ctx[c].ev /\ Ev(s, c, id).st = "done"
                     /\ Ev(s, c, id).kids = <<>>

\* An event's parent is an event of its context, and lists it among its children.
LEMMA ParentListed ==
    ASSUME NEW x, Context(x), NEW id \in DOMAIN x.ev, NEW p, p = x.ev[id].parent, p # 0
    PROVE  p \in DOMAIN x.ev /\ x.ev[p].kids # <<>>
<1>1. Tree(x.ev)
  BY DEF Context
<1>2. /\ p \in DOMAIN x.ev
      /\ \E i \in DOMAIN x.ev[p].kids : x.ev[p].kids[i] = id
  BY <1>1 DEF Tree
<1> QED
  BY <1>2

\* One step of complete_or_continue_locked().
LEMMA DrainFollows ==
    ASSUME NEW s, NEW c \in Contexts, NEW id, Core(s), s.ctx[c].inUse, Drained(s, c, id)
    PROVE  LET r == Drain(s, c, id)
           IN  Follows(s, r.s) /\ (r.id = 0 \/ Drained(r.s, c, r.id))
<1> DEFINE x == s.ctx[c]
           e == Ev(s, c, id)
           p == e.parent
           next == [e EXCEPT !.off = e.cont[1], !.op = e.cont[2],
                             !.cont = <<>>, !.st = "held"]
           y == [x EXCEPT !.ev[id] = next]
           continued == [s EXCEPT !.ctx[c] = y]
           unblocked == IF p = 0 THEN s ELSE Unblock(s, c, Ev(s, c, p).kids, id)
           removed == [unblocked EXCEPT !.ctx[c] = FreeSlot(unblocked.ctx[c], id)]
           rooted == [removed EXCEPT !.ctx[c].rootDone =
                         IF e.root = 0 THEN @ ELSE @ \union {e.root}]
           left == Len(Ev(removed, c, p).kids)
<1>1. /\ Context(x) /\ IsEvent(e) /\ DOMAIN e = EventFields /\ id \in DOMAIN x.ev
      /\ e.st = "done" /\ e.kids = <<>> /\ e = x.ev[id]
  BY DEF Core, Context, Drained, Ev, IsEvent
<1>2. CASE e.cont # <<>>
  <2>1. /\ next.parent = e.parent /\ next.kids = e.kids /\ next.node = e.node
        /\ next.kind = e.kind /\ next.rep = e.rep /\ next.st = "held"
    BY <1>1 DEF EventFields
  <2>2. IsEvent(next)
    BY <1>1, <1>2 DEF IsEvent, EventFields, IsPoolDelivery
  <2>3. Context(y) /\ CalmContext(x, y) /\ SameRecord(x, y) /\ SameEvents(x, y)
    <3>1. x.inUse
      OBVIOUS
    <3> HIDE DEF x, next, e
    <3> QED
      BY <1>1, <2>1, <2>2, <3>1, TouchContext
  <2>4. Follows(s, continued) /\ continued.ctx[c] = y
    <3> HIDE DEF y
    <3> QED
      BY <2>3, InContext
  <2>5. continued = [s EXCEPT !.ctx[c].ev[id] = next]
    <3> HIDE DEF next
    <3> QED
      OBVIOUS
  <2>6. Drain(s, c, id) = [s |-> Enqueue(continued, c, id), id |-> 0]
    <3> HIDE DEF continued
    <3> QED
      BY <1>2, <2>5 DEF Drain
  <2>7. Follows(s, Enqueue(continued, c, id))
    <3>1. Core(continued) /\ continued.ctx[c].inUse /\ id \in DOMAIN continued.ctx[c].ev
      <4> HIDE DEF continued, y, x
      <4>1. x.inUse
        BY DEF x
      <4> QED
        BY <1>1, <2>3, <2>4, <4>1 DEF Follows, SameRecord, SameEvents
    <3> HIDE DEF continued, y
    <3> QED
      BY <2>4, <3>1, EnqueueFollows, FollowsTrans
  <2> QED
    BY <2>6, <2>7
<1>3. CASE e.cont = <<>>
  <2>1. p # 0 => p \in DOMAIN x.ev /\ x.ev[p].kids # <<>>
    <3>1. p = x.ev[id].parent
      BY <1>1
    <3> HIDE DEF x, e, p
    <3> QED
      BY <1>1, <3>1, ParentListed
  <2>2. Wakes(s, unblocked, c)
    <3>1. CASE p = 0
      BY <3>1, WakesRefl
    <3>2. CASE p # 0
      BY <3>2, <2>1, UnblockWakes
    <3> QED
      BY <3>1, <3>2
  <2> HIDE DEF unblocked, p, e
  <2> DEFINE v == unblocked.ctx[c]
             w == FreeSlot(v, id)
  <2>3. /\ Core(unblocked) /\ Context(v) /\ v.inUse /\ id \in DOMAIN v.ev
        /\ v.ev[id].st = "done" /\ v.ev[id].kids = <<>> /\ DOMAIN v.ev = DOMAIN x.ev
        /\ v.ev[id].parent = p /\ \A i \in DOMAIN x.ev : x.ev[i].st = "done" => v.ev[i].st = "done"
    <3>1. Core(unblocked) /\ SameRecord(x, v) /\ SameEvents(x, v)
      BY <2>2 DEF Wakes, Follows
    <3>2. \A i \in DOMAIN x.ev : x.ev[i].st = "done" => v.ev[i].st = "done"
      BY <2>2 DEF Wakes, Ev
    <3>3. Context(v) /\ v.inUse
      BY <3>1 DEF Core, SameRecord
    <3> QED
      BY <1>1, <3>1, <3>2, <3>3 DEF SameEvents, p
  <2>4. /\ Context(w) /\ CalmContext(v, w) /\ SameRecord(v, w)
        /\ DOMAIN w.ev = DOMAIN v.ev \ {id} /\ \A i \in DOMAIN w.ev : w.ev[i].st = v.ev[i].st
    <3> HIDE DEF v
    <3> QED
      BY <2>3, FreeSlotContext
  <2>5. Follows(unblocked, removed) /\ removed.ctx[c] = w
    <3>1. removed = [unblocked EXCEPT !.ctx[c] = w]
      OBVIOUS
    <3> HIDE DEF w, removed
    <3>2. CalmContext(unblocked.ctx[c], w)
      BY <2>4
    <3> QED
      <4>1. Core(unblocked) /\ Context(w)
        BY <2>3, <2>4
      <4>2. /\ Follows(unblocked, [unblocked EXCEPT !.ctx[c] = w])
            /\ [unblocked EXCEPT !.ctx[c] = w].ctx[c] = w
        BY <4>1, <3>2, InContext
      <4> QED
        BY <4>2, <3>1
  <2>6. Follows(s, removed)
    <3> HIDE DEF removed
    <3> QED
      BY <2>2, <2>5, FollowsTrans DEF Wakes
  <2> HIDE DEF removed
  <2>7. Core(removed) /\ removed.ctx[c].inUse
    BY <2>3, <2>4, <2>5 DEF Follows, SameRecord
  <2>8. CASE p = 0
    <3> DEFINE z == [w EXCEPT !.rootDone = IF e.root = 0 THEN @ ELSE @ \union {e.root}]
    <3>1. rooted = [removed EXCEPT !.ctx[c] = z]
      BY <2>5
    <3>2. Context(z) /\ CalmContext(w, z) /\ z.ev = w.ev /\ z.inUse
      <4>1. DOMAIN w = ContextFields /\ w.inUse
        BY <2>3, <2>4 DEF Context, SameRecord
      <4>2. SameRecord(w, z) /\ z.ev = w.ev /\ z.ready = w.ready
        <5> HIDE DEF w
        <5> QED
          BY <4>1 DEF SameRecord, ContextFields
      <4> HIDE DEF z, w
      <4> QED
        BY <2>4, <4>1, <4>2, MinorContext DEF SameRecord
    <3>3. Follows(removed, rooted) /\ rooted.ctx[c] = z
      <4> HIDE DEF z, rooted
      <4> QED
        BY <2>5, <2>7, <3>1, <3>2, InContext
    <3> HIDE DEF z, rooted
    <3>4. Follows(s, rooted) /\ Core(rooted)
      BY <2>6, <3>3, FollowsTrans DEF Follows
    <3>5. DOMAIN rooted.ctx[c].ev = {} => Follows(s, MarkComplete(rooted, c))
      BY <3>2, <3>3, <3>4, MarkCompleteFollows, FollowsTrans
    <3>6. Drain(s, c, id) =
            [s |-> IF DOMAIN rooted.ctx[c].ev = {} THEN MarkComplete(rooted, c)
                   ELSE rooted, id |-> 0]
      BY <1>3, <2>8 DEF Drain, rooted, removed, unblocked, p, e
    <3> QED
      BY <3>4, <3>5, <3>6
  <2>9. CASE p # 0
    <3>1. p \in DOMAIN x.ev /\ p # id
      <4>1. p \in DOMAIN x.ev
        BY <2>1, <2>9
      <4>2. x.ev[p].kids # <<>>
        BY <2>1, <2>9
      <4> QED
        BY <4>1, <4>2, <1>1 DEF e
    <3>2. p \in DOMAIN removed.ctx[c].ev
      BY <3>1, <2>3, <2>4, <2>5
    <3>3. Drain(s, c, id) =
            IF Ev(s, c, p).st # "done" \/ left > 1 THEN [s |-> removed, id |-> 0]
            ELSE IF left = 1
            THEN [s |-> EnqueueSiblingWaiter(removed, c, p), id |-> 0]
            ELSE [s |-> removed, id |-> p]
      BY <1>3, <2>9 DEF Drain, removed, unblocked, p, e
    <3>4. Follows(s, EnqueueSiblingWaiter(removed, c, p))
      BY <2>6, <2>7, <3>2, EnqueueSiblingWaiterWakes, FollowsTrans DEF Wakes
    <3>5. ASSUME Ev(s, c, p).st = "done", ~(left > 1), left # 1
          PROVE  Drained(removed, c, p)
      <4>1. Ev(removed, c, p).st = "done"
        BY <3>1, <3>2, <3>5, <2>3, <2>4, <2>5 DEF Ev
      <4>2. Ev(removed, c, p).kids \in Seq(Nat)
        BY <2>7, <3>2, KidsOf
      <4>3. Ev(removed, c, p).kids = <<>>
        <5> DEFINE kids == Ev(removed, c, p).kids
        <5>1. ~(Len(kids) > 1) /\ Len(kids) # 1
          BY <3>5
        <5> HIDE DEF kids
        <5>2. kids \in Seq(Nat)
          BY <4>2 DEF kids
        <5>5. Len(kids) \in Nat
          BY <5>2
        <5>6. \A n \in Nat : ~(n > 1) /\ n # 1 => n = 0
          OBVIOUS
        <5>3. Len(kids) = 0
          BY <5>1, <5>5, <5>6
        <5>4. kids = <<>>
          BY <5>2, <5>3
        <5> QED
          BY <5>4 DEF kids
      <4> QED
        BY <3>2, <4>1, <4>3 DEF Drained
    <3> HIDE DEF left
    <3> QED
      BY <2>6, <3>3, <3>4, <3>5
  <2> QED
    BY <2>8, <2>9
<1> QED
  BY <1>2, <1>3

ClimbStep(c, y, z, u, t, i) == Climb(t, c)
ClimbFrom(p, t) == /\ Follows(p.s, t.s)
                   /\ t.id = 0 \/ Drained(t.s, p.c, t.id)
Climbs == INSTANCE FoldInduction WITH Step <- ClimbStep, Inv <- ClimbFrom

\* complete_or_continue_locked() of a finished event without children.
LEMMA CompleteOrContinueFollows ==
    ASSUME NEW s, NEW c \in Contexts, NEW id, Core(s), s.ctx[c].inUse, Drained(s, c, id)
    PROVE  Follows(s, CompleteOrContinue(s, c, id))
<1> DEFINE q == [s |-> s, c |-> c]
           base == [s |-> s, id |-> id]
           seq == [i \in 1..Cardinality(DOMAIN s.ctx[c].ev) |-> i]
<1>1. seq \in Seq(Nat)
  <2>1. Cardinality(DOMAIN s.ctx[c].ev) \in Nat
    BY FS_CardinalityType DEF Core, Context
  <2> QED
    BY <2>1
<1>2. CompleteOrContinue(s, c, id) = Climbs!Fold(c, 0, 0, 0, base, seq).s
  BY DEF CompleteOrContinue, Climbs!Fold, ClimbStep, FoldLeft, MapThenFoldSet,
         Climbs!Last, Max
<1>3. ClimbFrom(q, base)
  BY FollowsRefl DEF ClimbFrom
<1>4. \A t : \A i \in 1..Len(seq) :
        ClimbFrom(q, t) => ClimbFrom(q, ClimbStep(c, 0, 0, 0, t, seq[i]))
  <2> SUFFICES ASSUME NEW t, Follows(s, t.s), t.id = 0 \/ Drained(t.s, c, t.id)
               PROVE  Follows(s, Climb(t, c).s)
                      /\ (Climb(t, c).id = 0 \/ Drained(Climb(t, c).s, c, Climb(t, c).id))
    BY DEF ClimbFrom, ClimbStep
  <2>1. CASE t.id = 0
    BY <2>1 DEF Climb
  <2>2. CASE t.id # 0
    <3>1. Core(t.s) /\ t.s.ctx[c].inUse /\ Drained(t.s, c, t.id)
      BY <2>2 DEF Follows, Calm, CalmContext
    <3>2. Climb(t, c) = Drain(t.s, c, t.id)
      BY <2>2 DEF Climb
    <3> QED
      BY <3>1, <3>2, DrainFollows, FollowsTrans
  <2> QED
    BY <2>1, <2>2
<1> HIDE DEF q, base, seq
<1>5. ClimbFrom(q, Climbs!Fold(c, 0, 0, 0, base, seq))
  BY <1>1, <1>3, <1>4, Climbs!FoldInv
<1> QED
  BY <1>2, <1>5 DEF ClimbFrom, q

-----------------------------------------------------------------------------
(* The release of a node to the next record                                 *)

\* One round of try_release_locked(): a node is handed on only by the record
\* whose turn it is and which has no event left for it.
LEMMA HandOverFollows ==
    ASSUME NEW t, Topology, Core(t.s), t.ask \subseteq Contexts \X Nodes
    PROVE  LET r == HandOver(t)
           IN  /\ Follows(t.s, r.s) /\ r.ask \subseteq Contexts \X Nodes
               /\ \A c \in Contexts : /\ r.s.ctx[c].ev = t.s.ctx[c].ev
                                      /\ r.s.ctx[c].complete = t.s.ctx[c].complete
<1> DEFINE s == t.s
           free == {p \in t.ask : Releasable(s, p[1], p[2])}
           handing(c) == {n \in Nodes : <<c, n>> \in free}
           turn(n) == s.turn[n] + IF \E p \in free : p[2] = n THEN 1 ELSE 0
           ctx == [c \in Contexts |->
                     IF handing(c) = {} THEN s.ctx[c]
                     ELSE [s.ctx[c] EXCEPT !.released =
                             s.ctx[c].released \union handing(c)]]
           turns == [n \in Nodes |-> turn(n)]
           handed == [s EXCEPT !.ctx = ctx, !.turn = turns]
           asks == UNION {Asks(s, p[1], p[2]) : p \in free}
<1>1. CASE free = {}
  <2>1. HandOver(t) = [s |-> s, ask |-> {}]
    BY <1>1 DEF HandOver
  <2> QED
    BY <2>1, FollowsRefl
<1>2. CASE free # {}
  <2>1. HandOver(t) = [s |-> handed, ask |-> asks]
    BY <1>2 DEF HandOver
  <2>2. \A p \in free : /\ p \in Contexts \X Nodes /\ p[1] \in Contexts /\ p[2] \in Nodes
                        /\ Releasable(s, p[1], p[2])
    OBVIOUS
  <2>3. asks \subseteq Contexts \X Nodes
    <3> SUFFICES ASSUME NEW p \in free PROVE Asks(s, p[1], p[2]) \subseteq Contexts \X Nodes
      OBVIOUS
    <3>1. p[1] \in Contexts /\ p[2] \in Nodes
      BY <2>2
    <3>2. C.dependents[p[2]] \subseteq Nodes
      BY <3>1, Tables DEF GraphTables
    <3>3. ActiveSet(s) \subseteq Contexts
      BY DEF Core, ActiveSet
    <3> QED
      BY <3>1, <3>2, <3>3 DEF Asks
  <2>4. /\ DOMAIN handed = SchedFields /\ handed.ctx = ctx /\ handed.turn = turns
        /\ handed.active = s.active /\ handed.next = s.next
        /\ handed.last = s.last /\ handed.joins = s.joins
    <3> HIDE DEF ctx, turns
    <3> QED
      BY DEF Core, SchedFields
  <2>5. \A n \in Nodes : /\ turns[n] \in Nat /\ s.turn[n] <= turns[n]
                         /\ (~\E p \in free : p[2] = n) => turns[n] = s.turn[n]
    <3> TAKE n \in Nodes
    <3>1. s.turn[n] \in Nat /\ turns[n] = turn(n)
      BY DEF Core
    <3> HIDE DEF turns, s
    <3> QED
      BY <3>1
  <2>6. ASSUME NEW c \in Contexts
        PROVE  /\ Context(ctx[c]) /\ CalmContext(s.ctx[c], ctx[c])
               /\ ctx[c].ev = s.ctx[c].ev /\ ctx[c].complete = s.ctx[c].complete
    <3> DEFINE x == s.ctx[c]
               y == [x EXCEPT !.released = x.released \union handing(c)]
    <3>0. Context(x) /\ DOMAIN x = ContextFields
      BY DEF Core, Context
    <3>1. CASE handing(c) = {}
      BY <3>0, <3>1, CalmContextRefl
    <3>2. CASE handing(c) # {}
      <4>1. ctx[c] = y
        BY <3>2
      <4>2. /\ DOMAIN y = ContextFields /\ y.ev = x.ev /\ y.ready = x.ready
            /\ y.lease = x.lease /\ y.complete = x.complete
            /\ y.inUse = x.inUse /\ y.gated = x.gated /\ y.seq = x.seq /\ y.phase = x.phase
            /\ y.released = x.released \union handing(c)
        <5> HIDE DEF x, handing
        <5> QED
          BY <3>0 DEF ContextFields
      <4>3. handing(c) \subseteq Nodes
        OBVIOUS
      <4>4. x.inUse
        <5>1. PICK n \in Nodes : <<c, n>> \in free
          BY <3>2
        <5>2. Releasable(s, c, n)
          BY <5>1, <2>2
        <5> QED
          BY <5>2 DEF Releasable, Core, Numbered
      <4> HIDE DEF y, handing
      <4>5. Context(y)
        BY <3>0, <4>2, <4>3 DEF Context, ReadyQueue
      <4>6. CalmContext(x, y)
        BY <4>2, <4>4 DEF CalmContext, Runs
      <4> QED
        BY <4>1, <4>2, <4>5, <4>6
    <3> QED
      BY <3>1, <3>2
  <2> HIDE DEF ctx, turns, handed, asks
  <2>7. DOMAIN ctx = Contexts /\ turns \in [Nodes -> Nat]
    BY <2>5 DEF ctx, turns
  <2>8. Numbered(handed)
    <3>1. \A c \in Contexts : /\ ctx[c].gated = s.ctx[c].gated
                              /\ ctx[c].seq = s.ctx[c].seq /\ ctx[c].inUse = s.ctx[c].inUse
      BY <2>6 DEF CalmContext
    <3> QED
      BY <2>4, <3>1 DEF Core, Numbered
  <2>9. Core(handed)
    <3>1. JoinsOK(handed)
      BY <2>4 DEF Core, JoinsOK
    <3> QED
      BY <2>4, <2>6, <2>7, <2>8, <3>1 DEF Core
  <2>10. ASSUME NEW c \in Contexts, NEW id, Runs(ctx[c], id), ctx[c].gated,
                s.turn[ctx[c].ev[id].node] = ctx[c].seq
         PROVE  turns[ctx[c].ev[id].node] = ctx[c].seq
    <3> DEFINE n == s.ctx[c].ev[id].node
    <3>1. /\ Runs(s.ctx[c], id) /\ s.ctx[c].gated /\ s.turn[n] = s.ctx[c].seq
          /\ ctx[c].ev[id].node = n /\ ctx[c].seq = s.ctx[c].seq
      BY <2>6, <2>10 DEF CalmContext, Runs
    <3>2. n \in Nodes /\ s.ctx[c].ev[id].kind # "one" /\ id \in DOMAIN s.ctx[c].ev
          /\ IsFiniteSet(DOMAIN s.ctx[c].ev)
      BY <3>1 DEF Core, Context, IsEvent, Runs, Numbered
    <3>3. ASSUME NEW p \in free, p[2] = n PROVE FALSE
      <4>1. Releasable(s, p[1], n) /\ p[1] \in Contexts
        BY <2>2, <3>3
      <4>2. s.ctx[p[1]].gated /\ s.turn[n] = s.ctx[p[1]].seq /\ Live(s, p[1], n) = 0
        BY <4>1 DEF Releasable
      <4>3. p[1] = c
        BY <3>1, <4>1, <4>2 DEF Core, Numbered
      <4>4. id \in LiveIds(s, c, n)
        BY <3>1, <3>2 DEF LiveIds, Runs, Ev
      <4>5. LiveIds(s, c, n) \subseteq DOMAIN s.ctx[c].ev
        BY DEF LiveIds
      <4>6. IsFiniteSet(LiveIds(s, c, n))
        BY <3>2, <4>5, FS_Subset
      <4>7. Cardinality(LiveIds(s, c, n)) = 0
        BY <4>2, <4>3 DEF Live
      <4> QED
        BY <4>4, <4>6, <4>7, FS_EmptySet
    <3>4. turns[n] = s.turn[n]
      BY <3>2, <3>3, <2>5
    <3> QED
      BY <3>1, <3>4
  <2>11. Follows(s, handed)
    BY <2>4, <2>5, <2>6, <2>9, <2>10 DEF Follows, Calm, CalmTurns, Ev
  <2> QED
    BY <2>1, <2>3, <2>4, <2>6, <2>11
<1> QED
  BY <1>1, <1>2

HandStep(x, y, z, u, t, i) == HandOver(t)
HandFrom(s, t) == /\ Follows(s, t.s) /\ t.ask \subseteq Contexts \X Nodes
                  /\ \A c \in Contexts : /\ t.s.ctx[c].ev = s.ctx[c].ev
                                         /\ t.s.ctx[c].complete = s.ctx[c].complete
Hands == INSTANCE FoldInduction WITH Step <- HandStep, Inv <- HandFrom

\* try_release_locked()
LEMMA TryReleaseFollows ==
    ASSUME NEW s, NEW c \in Contexts, NEW n \in Nodes, Topology, Core(s)
    PROVE  /\ Follows(s, TryRelease(s, c, n))
           /\ \A d \in Contexts : /\ TryRelease(s, c, n).ctx[d].ev = s.ctx[d].ev
                                  /\ TryRelease(s, c, n).ctx[d].complete = s.ctx[d].complete
<1> DEFINE base == [s |-> s, ask |-> {<<c, n>>}]
           seq == [i \in 1..(Len(G.kind) + NumContexts) |-> i]
<1>1. seq \in Seq(Nat)
  <2>1. Len(G.kind) + NumContexts \in Nat
    BY Tables, SchedulerAssumption DEF GraphTables
  <2> QED
    BY <2>1
<1>2. TryRelease(s, c, n) = Hands!Fold(0, 0, 0, 0, base, seq).s
  BY DEF TryRelease, Hands!Fold, HandStep, FoldLeft, MapThenFoldSet,
         Hands!Last, Max
<1>3. HandFrom(s, base)
  BY FollowsRefl DEF HandFrom
<1>4. \A t : \A i \in 1..Len(seq) :
        HandFrom(s, t) => HandFrom(s, HandStep(0, 0, 0, 0, t, seq[i]))
  <2> SUFFICES ASSUME NEW t, HandFrom(s, t) PROVE HandFrom(s, HandOver(t))
    BY DEF HandStep
  <2>1. Core(t.s) /\ t.ask \subseteq Contexts \X Nodes
    BY DEF HandFrom, Follows
  <2>2. /\ Follows(t.s, HandOver(t).s) /\ HandOver(t).ask \subseteq Contexts \X Nodes
        /\ \A d \in Contexts : /\ HandOver(t).s.ctx[d].ev = t.s.ctx[d].ev
                               /\ HandOver(t).s.ctx[d].complete = t.s.ctx[d].complete
    BY <2>1, HandOverFollows
  <2>3. Follows(s, HandOver(t).s)
    BY <2>2, FollowsTrans DEF HandFrom
  <2> QED
    BY <2>2, <2>3 DEF HandFrom
<1> HIDE DEF base, seq
<1>5. HandFrom(s, Hands!Fold(0, 0, 0, 0, base, seq))
  BY <1>1, <1>3, <1>4, Hands!FoldInv
<1> QED
  BY <1>2, <1>5 DEF HandFrom

-----------------------------------------------------------------------------
(* Publication                                                              *)

\* The scheduler while event `id' of context `c' runs.
Acts(s, c, id) == Core(s) /\ c \in Contexts /\ s.ctx[c].inUse /\ Runs(s.ctx[c], id)

\* A running event goes on running, in a record that is not complete.
LEMMA ActsOn ==
    ASSUME NEW s, NEW t, NEW c, NEW id, Acts(s, c, id), Follows(s, t)
    PROVE  Acts(t, c, id)
  BY DEF Acts, Follows, Calm, CalmContext

\* A record with a running event is not complete, and the event is one.
LEMMA ActsEvent ==
    ASSUME NEW s, NEW c, NEW id, Acts(s, c, id)
    PROVE  /\ Context(s.ctx[c]) /\ s.ctx[c].inUse /\ ~s.ctx[c].complete
           /\ id \in DOMAIN s.ctx[c].ev /\ id \in Nat /\ id # 0
           /\ IsEvent(Ev(s, c, id)) /\ Ev(s, c, id).st = "running"
<1>1. Context(s.ctx[c]) /\ id \in DOMAIN s.ctx[c].ev
  BY DEF Acts, Core, Runs
<1> QED
  BY <1>1 DEF Acts, Context, Runs, Ev

\* A step that touches no record and no turn.
LEMMA SideFollows ==
    ASSUME NEW s, NEW t, Core(s), DOMAIN t = SchedFields, t.ctx = s.ctx,
           t.active = s.active, t.next = s.next, t.turn = s.turn, JoinsOK(t)
    PROVE  Follows(s, t)
<1>1. Core(t)
  BY DEF Core, Numbered
<1>2. \A n \in Nodes : s.turn[n] <= t.turn[n]
  BY DEF Core
<1> QED
  BY <1>1, <1>2, CalmContextRefl DEF Follows, Calm, CalmTurns

\* A child of a running event is pushed.
LEMMA PushChildFollows ==
    ASSUME NEW s, NEW c, NEW id, NEW e, Acts(s, c, id), IsEvent(e), e.st = "held",
           e.kids = <<>>, e.parent = id
    PROVE  Follows(s, Push(s, c, e))
<1>1. Core(s) /\ c \in Contexts /\ s.ctx[c].inUse
  BY DEF Acts
<1>2. ~s.ctx[c].complete /\ Template(s.ctx[c], e)
  BY ActsEvent DEF Template
<1> QED
  BY <1>1, <1>2, PushFollows

\* An edge event for a wire of the graph.
LEMMA PushEdgeFollows ==
    ASSUME NEW s, NEW c, NEW id, NEW w \in DOMAIN G.wires, NEW idx \in Int, NEW absent,
           Topology, Acts(s, c, id)
    PROVE  Follows(s, PushEdge(s, c, id, w, idx, absent))
<1> DEFINE consumer == G.wires[w].to
           p == Ev(s, c, id)
           earlier == {i \in DOMAIN p.kids :
                        /\ Ev(s, c, p.kids[i]).kind = "edge" /\ ~Indexed(consumer)
                        /\ C.overlap[Ev(s, c, p.kids[i]).node, consumer] = "ordered"}
           from == IF p.kind = "raw" THEN <<p.root, p.off>> ELSE p.path
           block == IF earlier = {} THEN 0 ELSE p.kids[Max(earlier)]
           val == s.ctx[c].val[w]
           path == Append(from, w)
           e == [Event("edge", consumer) EXCEPT
                   !.wire = w, !.root = p.root, !.idx = idx, !.absent = absent,
                   !.val = val, !.path = path, !.parent = id, !.block = block]
<1>1. /\ consumer \in Nodes /\ w \in Int
  BY Tables DEF GraphTables
<1>2. p.root \in Int /\ p.off \in Int /\ p.path \in Seq(Int)
  BY ActsEvent DEF IsEvent
<1>3. path \in Seq(Int)
  <2>1. <<p.root, p.off>> \in Seq(Int)
    BY <1>2
  <2>2. from \in Seq(Int)
    BY <1>2, <2>1
  <2> HIDE DEF from
  <2> QED
    BY <1>1, <2>2
<1>4. PushEdge(s, c, id, w, idx, absent) = IF absent /\ ~Indexed(consumer) THEN s
                                           ELSE Push(s, c, e)
  BY DEF PushEdge
<1> HIDE DEF block, val, path, p, consumer
<1>5. /\ DOMAIN e = EventFields /\ e.node = consumer /\ e.kind = "edge" /\ e.wire = w
      /\ e.idx = idx /\ e.root = p.root /\ e.off = 0 /\ e.path = path /\ e.cont = <<>>
      /\ e.frees = FALSE /\ e.kids = <<>> /\ e.st = "held" /\ e.parent = id
  BY DEF Event, EventFields
<1> HIDE DEF e
<1>6. IsEvent(e)
  BY <1>1, <1>2, <1>3, <1>5 DEF IsEvent
<1>7. Follows(s, Push(s, c, e))
  BY <1>5, <1>6, PushChildFollows
<1>8. Follows(s, s)
  BY FollowsRefl DEF Acts
<1> QED
  BY <1>4, <1>7, <1>8

Delivery == [absent : BOOLEAN, idx : Int]

\* One publication on a wire: the absences it implies, then the value.
LEMMA DeliveriesTyped ==
    ASSUME NEW s, NEW w \in DOMAIN G.wires, NEW idx \in Int, Core(s)
    PROVE  Deliveries(s, w, idx) \in Seq(Delivery)
<1> DEFINE skipped == IF Counted(w, idx) THEN Max2(idx - s.last[w] - 1, 0) ELSE 0
<1>1. s.last[w] \in Int
  BY DEF Core, JoinsOK
<1>2. skipped \in Nat
  <2> DEFINE gap == idx - s.last[w] - 1
  <2>1. gap \in Int
    BY <1>1
  <2> HIDE DEF gap
  <2>2. Max2(gap, 0) \in Nat
    BY <2>1 DEF Max2
  <2> QED
    BY <2>2 DEF gap
<1>3. Deliveries(s, w, idx) =
        [i \in 1..(skipped + 1) |->
           [absent |-> i <= skipped,
            idx |-> IF i <= skipped THEN s.last[w] + i ELSE idx]]
  BY DEF Deliveries
<1> HIDE DEF skipped
<1>4. \A i \in 1..(skipped + 1) :
        [absent |-> i <= skipped,
         idx |-> IF i <= skipped THEN s.last[w] + i ELSE idx] \in Delivery
  BY <1>1, <1>2 DEF Delivery
<1> QED
  BY <1>2, <1>3, <1>4

EdgeStep(c, id, w, u, t, m) == PushEdge(t, c, id, w, m.idx, m.absent)
Edges == INSTANCE FoldInduction WITH Step <- EdgeStep, Inv <- Follows

\* The deliveries of one wire.
LEMMA PublishWireFollows ==
    ASSUME NEW s, NEW c, NEW id, NEW w \in DOMAIN G.wires, NEW d \in Seq(Delivery),
           Topology, Acts(s, c, id)
    PROVE  Follows(s, PublishWire(s, c, id, w, d))
<1>1. PublishWire(s, c, id, w, d) = Edges!Fold(c, id, w, 0, s, d)
  BY DEF PublishWire, Edges!Fold, EdgeStep, FoldLeft, MapThenFoldSet,
         Edges!Last, Max
<1>2. Follows(s, s) /\ Core(s)
  BY FollowsRefl DEF Acts
<1>3. \A t : \A i \in 1..Len(d) :
        Follows(s, t) => Follows(s, EdgeStep(c, id, w, 0, t, d[i]))
  <2> SUFFICES ASSUME NEW t, NEW i \in 1..Len(d), Follows(s, t)
               PROVE  Follows(s, PushEdge(t, c, id, w, d[i].idx, d[i].absent))
    BY DEF EdgeStep
  <2>1. d[i].idx \in Int
    <3>1. d[i] \in Delivery
      OBVIOUS
    <3> QED
      BY <3>1 DEF Delivery
  <2>2. Acts(t, c, id)
    BY ActsOn
  <2>3. Follows(t, PushEdge(t, c, id, w, d[i].idx, d[i].absent))
    BY <2>1, <2>2, PushEdgeFollows
  <2> QED
    BY <1>2, <2>3, FollowsTrans
<1>4. Follows(s, Edges!Fold(c, id, w, 0, s, d))
  BY <1>2, <1>3, Edges!FoldInv
<1> QED
  BY <1>1, <1>4

WireStep(s, c, id, idx, t, w) == PublishWire(t, c, id, w, Deliveries(s, w, idx))
WiresInOrder == INSTANCE FoldInduction WITH Step <- WireStep, Inv <- Follows

\* publish_wires()
LEMMA PublishWiresFollows ==
    ASSUME NEW s, NEW c, NEW id, NEW ws, ws \subseteq DOMAIN G.wires, NEW idx \in Int,
           Topology, Acts(s, c, id)
    PROVE  Follows(s, PublishWires(s, c, id, ws, idx))
<1> DEFINE last == [w \in DOMAIN s.last |->
                      IF w \in ws /\ Counted(w, idx) THEN idx ELSE s.last[w]]
           base == [s EXCEPT !.last = last]
           seq == Ascending(ws)
<1>1. PublishWires(s, c, id, ws, idx) = WiresInOrder!Fold(s, c, id, idx, base, seq)
  <2>1. base = [s EXCEPT !.last = [w \in DOMAIN @ |->
                IF w \in ws /\ Counted(w, idx) THEN idx ELSE @[w]]]
    OBVIOUS
  <2> HIDE DEF base
  <2> QED
    BY <2>1 DEF PublishWires, WiresInOrder!Fold, WireStep, FoldLeft, MapThenFoldSet,
         WiresInOrder!Last, Max
<1>2. Core(s) /\ DOMAIN s = SchedFields /\ s.last \in [DOMAIN G.wires -> Int]
  BY DEF Acts, Core, JoinsOK
<1>3. last \in [DOMAIN G.wires -> Int]
  BY <1>2
<1>4. Follows(s, base)
  <2> HIDE DEF last
  <2>1. /\ DOMAIN base = SchedFields /\ base.ctx = s.ctx /\ base.active = s.active
        /\ base.next = s.next /\ base.turn = s.turn /\ base.joins = s.joins
        /\ base.last = last
    BY <1>2 DEF SchedFields
  <2> HIDE DEF base
  <2>2. JoinsOK(base)
    BY <1>2, <1>3, <2>1 DEF Core, JoinsOK
  <2> QED
    BY <1>2, <2>1, <2>2, SideFollows
<1>5. seq \in Seq(ws)
  <2>1. ws \subseteq Nat /\ IsFiniteSet(ws)
    <3>1. GraphTables
      BY Tables
    <3>2. DOMAIN G.wires \subseteq Nat /\ IsFiniteSet(DOMAIN G.wires)
      BY <3>1 DEF GraphTables
    <3> QED
      BY <3>2, FS_Subset
  <2> QED
    BY <2>1, AscendingIn
<1>6. \A t : \A i \in 1..Len(seq) :
        Follows(s, t) => Follows(s, WireStep(s, c, id, idx, t, seq[i]))
  <2> HIDE DEF seq
  <2> SUFFICES ASSUME NEW t, NEW i \in 1..Len(seq), Follows(s, t)
               PROVE  Follows(s, PublishWire(t, c, id, seq[i], Deliveries(s, seq[i], idx)))
    BY DEF WireStep
  <2>1. seq[i] \in DOMAIN G.wires
    BY <1>5
  <2>2. Deliveries(s, seq[i], idx) \in Seq(Delivery)
    BY <1>2, <2>1, DeliveriesTyped
  <2>3. Acts(t, c, id)
    BY ActsOn
  <2> QED
    BY <1>2, <2>1, <2>2, <2>3, PublishWireFollows, FollowsTrans
<1> HIDE DEF base, seq, last
<1>7. Follows(s, WiresInOrder!Fold(s, c, id, idx, base, seq))
  BY <1>4, <1>5, <1>6, WiresInOrder!FoldInv
<1> QED
  BY <1>1, <1>7

\* publish_streaming()
LEMMA PublishFollows ==
    ASSUME NEW s, NEW c, NEW id, NEW n \in Nodes, NEW ports, NEW idx \in Int,
           NEW fire \in Int, Topology, Acts(s, c, id)
    PROVE  Follows(s, Publish(s, c, id, n, ports, idx, fire))
<1> DEFINE values == {w \in C.valuesFrom[n] :
                        ~Indexed(G.wires[w].to) \/ G.wires[w].port \in ports}
           x == s.ctx[c]
           val == [w \in DOMAIN x.val |-> IF w \in values /\ G.wires[w].port \in ports
                                          THEN x.val[w] + 1 ELSE x.val[w]]
           y == [x EXCEPT !.val = val]
           copied == [s EXCEPT !.ctx[c] = y]
           index == IF fire # NoIndex THEN fire ELSE idx
           valued == PublishWires(copied, c, id, values, index)
           all == PublishWires(valued, c, id, C.donesFrom[n], fire)
           what == "no active record holds the operation"
<1>1. values \subseteq DOMAIN G.wires /\ C.donesFrom[n] \subseteq DOMAIN G.wires
  BY Tables DEF GraphTables
<1>2. copied = [s EXCEPT !.ctx[c].val =
                     [w \in DOMAIN @ |->
                        IF w \in values /\ G.wires[w].port \in ports
                        THEN @[w] + 1 ELSE @[w]]]
  <2>1. c \in DOMAIN s.ctx /\ DOMAIN x = ContextFields
    BY ActsEvent DEF Acts, Core, Context
  <2> HIDE DEF values
  <2> QED
    BY <2>1
<1>3. Publish(s, c, id, n, ports, idx, fire) \in {Error(s, what), all}
  <2> HIDE DEF copied
  <2> QED
    BY <1>2 DEF Publish
<1>4. Follows(s, copied) /\ Acts(copied, c, id)
  <2>1. Context(x) /\ x.inUse /\ DOMAIN x = ContextFields
    BY ActsEvent DEF Context
  <2> HIDE DEF val
  <2>2. SameRecord(x, y) /\ y.ev = x.ev /\ y.ready = x.ready
    <3> HIDE DEF x
    <3> QED
      BY <2>1 DEF SameRecord, ContextFields
  <2> HIDE DEF y
  <2>3. Context(y) /\ CalmContext(x, y)
    <3> HIDE DEF x
    <3> QED
      BY <2>1, <2>2, MinorContext
  <2>4. Follows(s, copied)
    BY <2>3, InContext DEF Acts
  <2> HIDE DEF copied
  <2> QED
    BY <2>4, ActsOn
<1> HIDE DEF copied, values
<1>5. index \in Int
  OBVIOUS
<1> HIDE DEF index
<1>6. Follows(copied, valued)
  BY <1>1, <1>4, <1>5, PublishWiresFollows
<1>7. Core(s) /\ Core(copied)
  BY <1>4 DEF Acts
<1> HIDE DEF valued
<1>8. Follows(s, valued)
  BY <1>4, <1>6, <1>7, FollowsTrans
<1>9. Acts(valued, c, id)
  BY <1>8, ActsOn
<1>10. Follows(valued, all)
  BY <1>1, <1>9, PublishWiresFollows
<1> HIDE DEF all
<1>11. Follows(s, all)
  BY <1>7, <1>8, <1>10, FollowsTrans
<1>12. Follows(s, Error(s, what))
  BY <1>7, ErrorFollows
<1> QED
  BY <1>3, <1>11, <1>12

-----------------------------------------------------------------------------
(* Joins of indexed nodes, and the flush                                    *)

DropStep(c, id, k, u, t, w) == PushEdge(t, c, id, w, k, TRUE)
Drops == INSTANCE FoldInduction WITH Step <- DropStep, Inv <- Follows

\* The consumers of an instance that never exists are told.
LEMMA DropInstanceFollows ==
    ASSUME NEW s, NEW c, NEW id, NEW n \in Nodes, NEW k \in Int,
           Topology, Acts(s, c, id)
    PROVE  Follows(s, DropInstance(s, c, id, n, k))
<1> DEFINE base == [s EXCEPT !.dropped[n] = @ \union {k}]
           seq == Ascending(C.valuesFrom[n])
<1>1. DropInstance(s, c, id, n, k) \in {s, Drops!Fold(c, id, k, 0, base, seq)}
  <2> HIDE DEF base
  <2> QED
    BY DEF DropInstance, base, Drops!Fold, DropStep, FoldLeft, MapThenFoldSet,
           Drops!Last, Max
<1>2. Core(s) /\ DOMAIN s = SchedFields /\ JoinsOK(s)
  BY DEF Acts, Core
<1>3. Follows(s, base)
  <2>1. /\ DOMAIN base = SchedFields /\ base.ctx = s.ctx /\ base.active = s.active
        /\ base.next = s.next /\ base.turn = s.turn /\ base.joins = s.joins
        /\ base.last = s.last
    BY <1>2 DEF SchedFields
  <2> HIDE DEF base
  <2>2. JoinsOK(base)
    BY <1>2, <2>1 DEF JoinsOK
  <2> QED
    BY <1>2, <2>1, <2>2, SideFollows
<1>4. C.valuesFrom[n] \subseteq DOMAIN G.wires /\ seq \in Seq(C.valuesFrom[n])
  <2>1. GraphTables
    BY Tables
  <2>2. DOMAIN G.wires \subseteq Nat /\ IsFiniteSet(DOMAIN G.wires)
        /\ C.valuesFrom[n] \subseteq DOMAIN G.wires
    BY <2>1 DEF GraphTables
  <2>3. C.valuesFrom[n] \subseteq Nat /\ IsFiniteSet(C.valuesFrom[n])
    BY <2>2, FS_Subset
  <2> QED
    BY <2>2, <2>3, AscendingIn
<1> HIDE DEF base, seq
<1>5. \A t : \A i \in 1..Len(seq) :
        Follows(s, t) => Follows(s, DropStep(c, id, k, 0, t, seq[i]))
  <2> SUFFICES ASSUME NEW t, NEW i \in 1..Len(seq), Follows(s, t)
               PROVE  Follows(s, PushEdge(t, c, id, seq[i], k, TRUE))
    BY DEF DropStep
  <2>1. seq[i] \in DOMAIN G.wires
    BY <1>4
  <2>2. Acts(t, c, id)
    BY ActsOn
  <2> QED
    BY <1>2, <2>1, <2>2, PushEdgeFollows, FollowsTrans
<1>6. Follows(s, Drops!Fold(c, id, k, 0, base, seq))
  BY <1>3, <1>4, <1>5, Drops!FoldInv
<1> QED
  BY <1>1, <1>2, <1>6, FollowsRefl

\* An instance is queued to fire, a child of the event that completed it.
LEMMA QueueFireFollows ==
    ASSUME NEW s, NEW c, NEW id, NEW n \in Nodes, NEW k \in Int, Acts(s, c, id)
    PROVE  Follows(s, QueueFire(s, c, id, n, k))
<1> DEFINE root == Ev(s, c, id).root
           op == s.joins[n][k].op
           e == [Event("fire", n) EXCEPT !.root = root, !.idx = k, !.op = op,
                                         !.parent = id]
<1>1. root \in Int
  BY ActsEvent DEF IsEvent
<1>2. QueueFire(s, c, id, n, k) = Push(s, c, e)
  BY DEF QueueFire
<1> HIDE DEF root, op
<1>3. /\ DOMAIN e = EventFields /\ e.node = n /\ e.kind = "fire"
      /\ e.idx = k /\ e.root = root /\ e.off = 0 /\ e.path = <<>> /\ e.cont = <<>>
      /\ e.frees = FALSE /\ e.kids = <<>> /\ e.st = "held" /\ e.parent = id
  BY DEF Event, EventFields
<1> HIDE DEF e
<1>4. IsEvent(e)
  BY <1>1, <1>3 DEF IsEvent
<1> QED
  BY <1>2, <1>3, <1>4, PushChildFollows

\* An entry of a join table is made or changed.
LEMMA SetEntryFollows ==
    ASSUME NEW s, NEW n \in Nodes, NEW k \in Nat, NEW entry, Core(s)
    PROVE  Follows(s, SetEntry(s, n, k, entry))
<1> DEFINE old == s.joins[n]
           table == [i \in DOMAIN old \union {k} |-> IF i = k THEN entry ELSE old[i]]
           t == [s EXCEPT !.joins[n] = table]
<1>1. DOMAIN s = SchedFields /\ JoinsOK(s) /\ DOMAIN s.joins = Nodes
  BY DEF Core, JoinsOK
<1>2. IsFiniteSet(DOMAIN table) /\ DOMAIN table \subseteq Nat
  <2>1. IsFiniteSet(DOMAIN old) /\ DOMAIN old \subseteq Nat
    BY <1>1 DEF JoinsOK
  <2> HIDE DEF old
  <2> QED
    BY <2>1, FS_AddElement
<1>3. SetEntry(s, n, k, entry) = t
  BY DEF SetEntry
<1> HIDE DEF table
<1>4. /\ DOMAIN t = SchedFields /\ t.ctx = s.ctx /\ t.active = s.active
      /\ t.next = s.next /\ t.turn = s.turn /\ t.last = s.last
      /\ DOMAIN t.joins = Nodes /\ t.joins[n] = table
      /\ \A m \in Nodes : m # n => t.joins[m] = s.joins[m]
  BY <1>1 DEF SchedFields
<1> HIDE DEF t
<1>5. JoinsOK(t)
  BY <1>1, <1>2, <1>4 DEF JoinsOK
<1> QED
  BY <1>3, <1>4, <1>5, SideFollows

\* release_join_locked()
LEMMA ReleaseJoinFollows ==
    ASSUME NEW s, NEW n \in Nodes, NEW k, Core(s)
    PROVE  /\ Follows(s, ReleaseJoin(s, n, k)) /\ ReleaseJoin(s, n, k).ctx = s.ctx
           /\ ReleaseJoin(s, n, k).stop = s.stop
<1> DEFINE old == s.joins[n]
           table == [i \in DOMAIN old \ {k} |-> old[i]]
           t == [s EXCEPT !.joins[n] = table]
<1>1. DOMAIN s = SchedFields /\ JoinsOK(s) /\ DOMAIN s.joins = Nodes
  BY DEF Core, JoinsOK
<1>2. IsFiniteSet(DOMAIN table) /\ DOMAIN table \subseteq Nat
  <2>1. IsFiniteSet(DOMAIN old) /\ DOMAIN old \subseteq Nat
    BY <1>1 DEF JoinsOK
  <2> HIDE DEF old
  <2> QED
    BY <2>1, FS_Subset
<1>3. ReleaseJoin(s, n, k) = t
  BY DEF ReleaseJoin
<1> HIDE DEF table
<1>4. /\ DOMAIN t = SchedFields /\ t.ctx = s.ctx /\ t.active = s.active
      /\ t.next = s.next /\ t.turn = s.turn /\ t.last = s.last /\ t.stop = s.stop
      /\ DOMAIN t.joins = Nodes /\ t.joins[n] = table
      /\ \A m \in Nodes : m # n => t.joins[m] = s.joins[m]
  BY <1>1 DEF SchedFields
<1> HIDE DEF t
<1>5. JoinsOK(t)
  BY <1>1, <1>2, <1>4 DEF JoinsOK
<1>6. Follows(s, t)
  BY <1>4, <1>5, SideFollows
<1> QED
  BY <1>3, <1>4, <1>6

\* deliver_indexed()
LEMMA DeliverIndexedFollows ==
    ASSUME NEW s, NEW c, NEW id, Topology, Acts(s, c, id), Ev(s, c, id).kind = "edge"
    PROVE  Follows(s, DeliverIndexed(s, c, id))
<1> DEFINE e == Ev(s, c, id)
           n == e.node
           k == e.idx - G.wires[e.wire].off
<1>1. Core(s)
  BY DEF Acts
<1>2. n \in Nodes /\ k \in Int
  <2>1. IsEvent(e)
    BY ActsEvent
  <2>2. G.wires[e.wire].off \in Int
    BY <2>1, Tables DEF IsEvent, GraphTables
  <2> QED
    BY <2>1, <2>2 DEF IsEvent
<1>3. \/ DeliverIndexed(s, c, id) = s
      \/ \E what : DeliverIndexed(s, c, id) = Error(s, what)
      \/ DeliverIndexed(s, c, id) = DropInstance(s, c, id, n, k)
      \/ ~(k < 0) /\ \E entry : DeliverIndexed(s, c, id) = SetEntry(s, n, k, entry)
      \/ DeliverIndexed(s, c, id) = DropInstance(ReleaseJoin(s, n, k), c, id, n, k)
      \/ ~(k < 0) /\ \E entry : DeliverIndexed(s, c, id) =
                                  QueueFire(SetEntry(s, n, k, entry), c, id, n, k)
  BY ZenonT(60) DEF DeliverIndexed
<1> HIDE DEF n, k
<1>4. Follows(s, s) /\ \A what : Follows(s, Error(s, what))
  BY <1>1, FollowsRefl, ErrorFollows
<1>5. Follows(s, DropInstance(s, c, id, n, k))
  BY <1>2, DropInstanceFollows
<1>9. ~(k < 0) => k \in Nat
  BY <1>2
<1>6. ~(k < 0) => \A entry : Follows(s, SetEntry(s, n, k, entry))
  BY <1>1, <1>2, <1>9, SetEntryFollows
<1>7. Follows(s, DropInstance(ReleaseJoin(s, n, k), c, id, n, k))
  <2> DEFINE t == ReleaseJoin(s, n, k)
  <2>1. Follows(s, t)
    BY <1>1, <1>2, ReleaseJoinFollows
  <2> HIDE DEF t
  <2>2. Acts(t, c, id)
    BY <2>1, ActsOn
  <2>3. Follows(t, DropInstance(t, c, id, n, k))
    BY <1>2, <2>2, DropInstanceFollows
  <2>4. Follows(s, DropInstance(t, c, id, n, k))
    BY <1>1, <2>1, <2>3, FollowsTrans
  <2> QED
    BY <2>4 DEF t
<1>8. ASSUME NEW entry, ~(k < 0)
      PROVE  Follows(s, QueueFire(SetEntry(s, n, k, entry), c, id, n, k))
  <2> DEFINE t == SetEntry(s, n, k, entry)
  <2>1. Follows(s, t)
    BY <1>6, <1>8
  <2> HIDE DEF t
  <2>2. Acts(t, c, id)
    BY <2>1, ActsOn
  <2>3. Follows(t, QueueFire(t, c, id, n, k))
    BY <1>2, <2>2, QueueFireFollows
  <2>4. Follows(s, QueueFire(t, c, id, n, k))
    BY <1>1, <2>1, <2>3, FollowsTrans
  <2> QED
    BY <2>4 DEF t
<1> QED
  BY <1>3, <1>4, <1>5, <1>6, <1>7, <1>8

ResolveStep(c, id, n, u, t, k) == ResolveJoin(t, c, id, n, k)
ResolveFrom(s, t) == /\ DOMAIN t = {"s", "more"} /\ Follows(s, t.s)
Resolves == INSTANCE FoldInduction WITH Step <- ResolveStep, Inv <- ResolveFrom

\* resolve_joins_locked()
LEMMA ResolveJoinsFollows ==
    ASSUME NEW s, NEW c, NEW id, NEW n \in Nodes, Topology, Acts(s, c, id)
    PROVE  Follows(s, ResolveJoins(s, c, id, n).s)
<1> DEFINE base == [s |-> s, more |-> FALSE]
           pending == {k \in DOMAIN s.joins[n] : Missing(s.joins[n][k]) # {}}
           seq == Ascending(pending)
<1>1. ResolveJoins(s, c, id, n) = Resolves!Fold(c, id, n, 0, base, seq)
  <2> HIDE DEF seq
  <2> QED
    BY DEF ResolveJoins, seq, Resolves!Fold, ResolveStep, FoldLeft, MapThenFoldSet,
           Resolves!Last, Max
<1>2. Core(s)
  BY DEF Acts
<1>3. ResolveFrom(s, base)
  BY <1>2, FollowsRefl DEF ResolveFrom
<1>4. pending \subseteq Nat /\ seq \in Seq(pending)
  <2>1. IsFiniteSet(DOMAIN s.joins[n]) /\ DOMAIN s.joins[n] \subseteq Nat
    BY <1>2 DEF Core, JoinsOK
  <2>2. pending \subseteq Nat /\ IsFiniteSet(pending)
    <3>1. pending \subseteq DOMAIN s.joins[n]
      OBVIOUS
    <3> HIDE DEF pending
    <3> QED
      BY <2>1, <3>1, FS_Subset
  <2> HIDE DEF pending
  <2> QED
    BY <2>2, AscendingIn
<1> HIDE DEF base, pending, seq
<1>5. \A t : \A i \in 1..Len(seq) :
        ResolveFrom(s, t) => ResolveFrom(s, ResolveStep(c, id, n, 0, t, seq[i]))
  <2> SUFFICES ASSUME NEW t, NEW i \in 1..Len(seq), ResolveFrom(s, t)
               PROVE  ResolveFrom(s, ResolveJoin(t, c, id, n, seq[i]))
    BY DEF ResolveStep
  <2> DEFINE k == seq[i]
             v == t.s
             r == ResolveJoin(t, c, id, n, k)
  <2>1. k \in Nat
    <3>1. seq[i] \in pending
      BY <1>4
    <3> QED
      BY <1>4, <3>1
  <2>2. DOMAIN t = {"s", "more"} /\ Follows(s, v)
    BY DEF ResolveFrom
  <2>3. Acts(v, c, id) /\ Core(v)
    <3>1. Acts(v, c, id)
      BY <2>2, ActsOn
    <3> QED
      BY <3>1 DEF Acts
  <2>4. \/ r = [t EXCEPT !.more = TRUE]
        \/ r = [t EXCEPT !.s = ReleaseJoin(v, n, k)]
        \/ r = [t EXCEPT !.s = Error(v, "a guaranteed input never arrived")]
        \/ \E whole : r = [t EXCEPT !.s = QueueFire(SetEntry(v, n, k, whole), c, id, n, k)]
    BY DEF ResolveJoin
  <2> HIDE DEF k, r, v
  <2>5. ASSUME NEW u, Follows(v, u) PROVE ResolveFrom(s, [t EXCEPT !.s = u])
    <3>1. Follows(s, u)
      BY <1>2, <2>2, <2>5, FollowsTrans
    <3> QED
      BY <2>2, <3>1 DEF ResolveFrom
  <2>6. ResolveFrom(s, [t EXCEPT !.more = TRUE])
    BY <2>2 DEF ResolveFrom, v
  <2>7. /\ Follows(v, ReleaseJoin(v, n, k))
        /\ Follows(v, Error(v, "a guaranteed input never arrived"))
    BY <2>3, ReleaseJoinFollows, ErrorFollows
  <2>8. ASSUME NEW whole
        PROVE  Follows(v, QueueFire(SetEntry(v, n, k, whole), c, id, n, k))
    <3> DEFINE u == SetEntry(v, n, k, whole)
    <3>1. Follows(v, u)
      BY <2>1, <2>3, SetEntryFollows
    <3> HIDE DEF u
    <3>2. Acts(u, c, id)
      BY <2>3, <3>1, ActsOn
    <3>3. Follows(u, QueueFire(u, c, id, n, k))
      BY <2>1, <3>2, QueueFireFollows
    <3>4. Follows(v, QueueFire(u, c, id, n, k))
      BY <2>3, <3>1, <3>3, FollowsTrans
    <3> QED
      BY <3>4 DEF u
  <2>9. ResolveFrom(s, r)
    BY <2>4, <2>5, <2>6, <2>7, <2>8
  <2> QED
    BY <2>9 DEF r, k
<1>6. ResolveFrom(s, Resolves!Fold(c, id, n, 0, base, seq))
  BY <1>3, <1>4, <1>5, Resolves!FoldInv
<1> QED
  BY <1>1, <1>6 DEF ResolveFrom

DependentStep(c, n, kind, u, t, d) == ReleaseDependency(t, c, n, kind, d)
Releases == INSTANCE FoldInduction WITH Step <- DependentStep, Inv <- Follows

\* One dependent follows once its last producer is done.
LEMMA ReleaseDependencyFollows ==
    ASSUME NEW s, NEW c, NEW id, NEW n, NEW kind, NEW d \in Nodes, Acts(s, c, id),
           kind # "edge", kind = "one" => ~Async
    PROVE  Follows(s, ReleaseDependency(s, c, n, kind, d))
<1> DEFINE x == s.ctx[c]
           y == [x EXCEPT !.deps[d] = x.deps[d] \ {n}]
           u == [s EXCEPT !.ctx[c] = y]
           e == Event(kind, d)
<1>1. Context(x) /\ x.inUse /\ DOMAIN x = ContextFields /\ Core(s) /\ c \in DOMAIN s.ctx
  BY ActsEvent DEF Context, Acts, Core
<1>2. u = [s EXCEPT !.ctx[c].deps[d] = @ \ {n}]
  BY <1>1
<1>3. SameRecord(x, y) /\ y.ev = x.ev /\ y.ready = x.ready
  <2> HIDE DEF x
  <2> QED
    BY <1>1 DEF SameRecord, ContextFields
<1>4. Context(y) /\ CalmContext(x, y)
  <2> HIDE DEF x, y
  <2> QED
    BY <1>1, <1>3, MinorContext
<1>5. Follows(s, u)
  <2> HIDE DEF y
  <2> QED
    BY <1>1, <1>4, InContext DEF Core
<1>6. ReleaseDependency(s, c, n, kind, d) \in {u, Push(u, c, e)}
  <2> HIDE DEF u
  <2> QED
    BY <1>2 DEF ReleaseDependency
<1> HIDE DEF u, y
<1>7. Acts(u, c, id)
  BY <1>5, ActsOn
<1>11. /\ DOMAIN e = EventFields /\ e.node = d /\ e.kind = kind
       /\ e.idx = NoIndex /\ e.root = 0 /\ e.off = 0 /\ e.path = <<>> /\ e.cont = <<>>
       /\ e.frees = FALSE /\ e.kids = <<>> /\ e.st = "held" /\ e.parent = 0
  BY DEF Event, EventFields
<1> HIDE DEF e
<1>8. /\ IsEvent(e) /\ e.st = "held" /\ e.kids = <<>> /\ e.parent = 0
  BY <1>11 DEF IsEvent, NoIndex
<1>9. Follows(u, Push(u, c, e))
  <2>1. Core(u) /\ c \in Contexts /\ u.ctx[c].inUse /\ ~u.ctx[c].complete
    BY <1>7, ActsEvent DEF Acts
  <2>2. Template(u.ctx[c], e)
    BY <1>8 DEF Template
  <2> QED
    BY <2>1, <2>2, PushFollows
<1>10. Follows(s, Push(u, c, e))
  BY <1>1, <1>5, <1>9, FollowsTrans
<1> QED
  BY <1>5, <1>6, <1>10

\* release_dependencies()
LEMMA ReleaseDependenciesFollows ==
    ASSUME NEW s, NEW c, NEW id, NEW n \in Nodes, NEW kind, Topology, Acts(s, c, id),
           kind # "edge", kind = "one" => ~Async
    PROVE  Follows(s, ReleaseDependencies(s, c, n, kind))
<1> DEFINE seq == Ascending(C.dependents[n])
<1>1. ReleaseDependencies(s, c, n, kind) = Releases!Fold(c, n, kind, 0, s, seq)
  <2> HIDE DEF seq
  <2> QED
    BY DEF ReleaseDependencies, seq, Releases!Fold, DependentStep, FoldLeft,
           MapThenFoldSet, Releases!Last, Max
<1>2. Core(s) /\ Follows(s, s)
  BY FollowsRefl DEF Acts
<1>3. C.dependents[n] \subseteq Nodes /\ seq \in Seq(C.dependents[n])
  <2>1. GraphTables
    BY Tables
  <2>2. Nodes \subseteq Nat /\ IsFiniteSet(Nodes) /\ C.dependents[n] \subseteq Nodes
    BY <2>1 DEF GraphTables
  <2>3. C.dependents[n] \subseteq Nat /\ IsFiniteSet(C.dependents[n])
    BY <2>2, FS_Subset
  <2> QED
    BY <2>2, <2>3, AscendingIn
<1> HIDE DEF seq
<1>4. \A t : \A i \in 1..Len(seq) :
        Follows(s, t) => Follows(s, DependentStep(c, n, kind, 0, t, seq[i]))
  <2> SUFFICES ASSUME NEW t, NEW i \in 1..Len(seq), Follows(s, t)
               PROVE  Follows(s, ReleaseDependency(t, c, n, kind, seq[i]))
    BY DEF DependentStep
  <2>1. seq[i] \in Nodes
    BY <1>3
  <2>2. Acts(t, c, id)
    BY ActsOn
  <2>3. Follows(t, ReleaseDependency(t, c, n, kind, seq[i]))
    BY <2>1, <2>2, ReleaseDependencyFollows
  <2> QED
    BY <1>2, <2>3, FollowsTrans
<1>5. Follows(s, Releases!Fold(c, n, kind, 0, s, seq))
  BY <1>2, <1>3, <1>4, Releases!FoldInv
<1> QED
  BY <1>1, <1>5

\* The end of a node's flush.
LEMMA FlushNodeFollows ==
    ASSUME NEW s, NEW c, NEW id, NEW fired, Topology, Acts(s, c, id)
    PROVE  Follows(s, FlushNode(s, c, id, fired))
<1> DEFINE n == Ev(s, c, id).node
           u == IF fired THEN Publish(s, c, id, n, Ports(n), NoIndex, NoIndex) ELSE s
           last == [w \in DOMAIN u.last |-> IF w \in C.valuesFrom[n] THEN NoIndex
                                            ELSE u.last[w]]
           v == [u EXCEPT !.dropped[n] = {}, !.last = last]
           e == [Event("release", n) EXCEPT !.parent = id, !.wait = TRUE]
<1>1. n \in Nodes /\ Core(s)
  BY ActsEvent DEF IsEvent, Acts
<1>2. FlushNode(s, c, id, fired) = Push(v, c, e)
  BY DEF FlushNode
<1>3. NoIndex \in Int
  BY DEF NoIndex
<1>4. Follows(s, u)
  BY <1>1, <1>3, PublishFollows, FollowsRefl
<1> HIDE DEF u, n
<1>5. Core(u) /\ DOMAIN u = SchedFields /\ JoinsOK(u) /\ u.last \in [DOMAIN G.wires -> Int]
  BY <1>4 DEF Follows, Core, JoinsOK
<1>6. last \in [DOMAIN G.wires -> Int]
  BY <1>3, <1>5
<1> HIDE DEF last
<1>7. /\ DOMAIN v = SchedFields /\ v.ctx = u.ctx /\ v.active = u.active
      /\ v.next = u.next /\ v.turn = u.turn /\ v.joins = u.joins /\ v.last = last
  BY <1>5 DEF SchedFields
<1> HIDE DEF v
<1>8. JoinsOK(v)
  BY <1>5, <1>6, <1>7 DEF JoinsOK
<1>9. Follows(u, v)
  BY <1>5, <1>7, <1>8, SideFollows
<1>10. Follows(s, v)
  BY <1>1, <1>4, <1>9, FollowsTrans
<1>11. Acts(v, c, id)
  BY <1>10, ActsOn
<1>12. /\ DOMAIN e = EventFields /\ e.node = n /\ e.kind = "release"
       /\ e.idx = NoIndex /\ e.root = 0 /\ e.off = 0 /\ e.path = <<>> /\ e.cont = <<>>
       /\ e.frees = FALSE /\ e.kids = <<>> /\ e.st = "held" /\ e.parent = id
  BY DEF Event, EventFields
<1> HIDE DEF e
<1>13. IsEvent(e)
  BY <1>1, <1>3, <1>12 DEF IsEvent
<1>14. Follows(v, Push(v, c, e))
  BY <1>11, <1>12, <1>13, PushChildFollows
<1> QED
  BY <1>1, <1>2, <1>10, <1>14, FollowsTrans

\* A flush event that runs again later.
LEMMA PushFlushFollows ==
    ASSUME NEW s, NEW c, NEW id, NEW n \in Nodes, NEW root \in Int, NEW off \in Int,
           Acts(s, c, id)
    PROVE  Follows(s, Push(s, c, [Event("flush", n) EXCEPT !.root = root, !.off = off,
                                                           !.parent = id, !.wait = TRUE]))
<1> DEFINE e == [Event("flush", n) EXCEPT !.root = root, !.off = off,
                                          !.parent = id, !.wait = TRUE]
<1>1. /\ DOMAIN e = EventFields /\ e.node = n /\ e.kind = "flush"
      /\ e.idx = NoIndex /\ e.root = root /\ e.off = off /\ e.path = <<>> /\ e.cont = <<>>
      /\ e.frees = FALSE /\ e.kids = <<>> /\ e.st = "held" /\ e.parent = id
  BY DEF Event, EventFields
<1> HIDE DEF e
<1>2. IsEvent(e)
  BY <1>1 DEF IsEvent, NoIndex
<1>3. Follows(s, Push(s, c, e))
  BY <1>1, <1>2, PushChildFollows
<1> QED
  BY <1>3 DEF e

\* The running event's own fields change.
LEMMA TouchFollows ==
    ASSUME NEW s, NEW c, NEW id, NEW e, Acts(s, c, id), IsEvent(e), e.st = "running",
           e.parent = Ev(s, c, id).parent, e.kids = Ev(s, c, id).kids,
           e.node = Ev(s, c, id).node, e.kind = Ev(s, c, id).kind,
           e.rep = Ev(s, c, id).rep
    PROVE  /\ Follows(s, [s EXCEPT !.ctx[c].ev[id] = e])
           /\ [s EXCEPT !.ctx[c].ev[id] = e] =
                [s EXCEPT !.ctx[c] = [s.ctx[c] EXCEPT !.ev[id] = e]]
<1> DEFINE x == s.ctx[c]
           y == [x EXCEPT !.ev[id] = e]
<1>1. /\ Context(x) /\ x.inUse /\ id \in DOMAIN x.ev /\ Core(s) /\ c \in Contexts
      /\ x.ev[id].st = "running"
  BY ActsEvent DEF Acts, Ev
<1>2. Context(y) /\ CalmContext(x, y)
  <2>1. /\ e.parent = x.ev[id].parent /\ e.kids = x.ev[id].kids
        /\ e.node = x.ev[id].node /\ e.kind = x.ev[id].kind /\ e.rep = x.ev[id].rep
    BY DEF Ev
  <2> HIDE DEF x
  <2> QED
    BY <1>1, <2>1, TouchContext
<1>3. [s EXCEPT !.ctx[c].ev[id] = e] = [s EXCEPT !.ctx[c] = y]
  OBVIOUS
<1>4. Follows(s, [s EXCEPT !.ctx[c] = y])
  <2> HIDE DEF y
  <2> QED
    BY <1>1, <1>2, InContext
<1> QED
  BY <1>3, <1>4

\* After a chunk of a raw event.
LEMMA AfterChunkFollows ==
    ASSUME NEW s, NEW c, NEW id, NEW fired, Acts(s, c, id)
    PROVE  LET r == AfterChunk(s, c, id, fired)
           IN  Follows(s, r.s) /\ r.pc \in {"run", "ran"}
<1> DEFINE e == Ev(s, c, id)
           x == s.ctx[c]
           op == IF Operations(x) > 1 THEN e.op + 1 ELSE e.op
           on == [e EXCEPT !.off = e.off + 1, !.op = op]
           later == [e EXCEPT !.cont = <<e.off + 1, op>>]
<1>1. /\ IsEvent(e) /\ DOMAIN e = EventFields /\ e.off \in Int /\ e.st = "running"
      /\ Core(s)
  BY ActsEvent DEF IsEvent, Acts
<1>2. \/ AfterChunk(s, c, id, fired) = [s |-> s, pc |-> "ran"]
      \/ AfterChunk(s, c, id, fired) = [s |-> [s EXCEPT !.ctx[c].ev[id] = on], pc |-> "run"]
      \/ AfterChunk(s, c, id, fired) =
           [s |-> [s EXCEPT !.ctx[c].ev[id].cont = <<e.off + 1, op>>], pc |-> "ran"]
  BY DEF AfterChunk
<1>3. [s EXCEPT !.ctx[c].ev[id].cont = <<e.off + 1, op>>] = [s EXCEPT !.ctx[c].ev[id] = later]
  <2> HIDE DEF op
  <2> QED
    BY DEF Ev
<1> HIDE DEF op, x, e
<1>4. /\ on.st = "running" /\ on.parent = e.parent /\ on.kids = e.kids
      /\ on.node = e.node /\ on.kind = e.kind /\ on.rep = e.rep /\ IsEvent(on)
  BY <1>1 DEF IsEvent, EventFields, IsPoolDelivery
<1>5. /\ later.st = "running" /\ later.parent = e.parent /\ later.kids = e.kids
      /\ later.node = e.node /\ later.kind = e.kind /\ later.rep = e.rep /\ IsEvent(later)
  BY <1>1 DEF IsEvent, EventFields, IsPoolDelivery
<1> HIDE DEF on, later
<1>6. Follows(s, [s EXCEPT !.ctx[c].ev[id] = on])
  BY <1>4, TouchFollows DEF e
<1>7. Follows(s, [s EXCEPT !.ctx[c].ev[id] = later])
  BY <1>5, TouchFollows DEF e
<1>8. Follows(s, s)
  BY <1>1, FollowsRefl
<1>9. CASE AfterChunk(s, c, id, fired) = [s |-> s, pc |-> "ran"]
  BY <1>8, <1>9
<1>10. CASE AfterChunk(s, c, id, fired) = [s |-> [s EXCEPT !.ctx[c].ev[id] = on], pc |-> "run"]
  BY <1>6, <1>10
<1>11. CASE AfterChunk(s, c, id, fired) =
              [s |-> [s EXCEPT !.ctx[c].ev[id].cont = <<e.off + 1, op>>], pc |-> "ran"]
  BY <1>3, <1>7, <1>11
<1> QED
  BY <1>2, <1>9, <1>10, <1>11

\* A pooled node counts a delivery; the last of a window will free the copy.
LEMMA CountFollows ==
    ASSUME NEW s, NEW c, NEW id, NEW n, NEW v, NEW full \in BOOLEAN, Acts(s, c, id),
           IsPoolDelivery(Ev(s, c, id))
    PROVE  Follows(s, [s EXCEPT !.ctx[c] = [s.ctx[c] EXCEPT !.count[n] = v,
                                                            !.ev[id].frees = full]])
<1> DEFINE x == s.ctx[c]
           old == x.ev[id]
           e == [old EXCEPT !.frees = full]
           y == [x EXCEPT !.ev[id] = e]
           z == [x EXCEPT !.count[n] = v, !.ev[id].frees = full]
<1>1. /\ Context(x) /\ x.inUse /\ id \in DOMAIN x.ev /\ Core(s) /\ c \in Contexts
      /\ old.st = "running" /\ IsEvent(old) /\ IsPoolDelivery(old)
      /\ DOMAIN x = ContextFields /\ DOMAIN old = EventFields
  <2>1. Context(x) /\ x.inUse /\ id \in DOMAIN x.ev /\ Core(s) /\ c \in Contexts
    BY ActsEvent DEF Acts
  <2>2. old.st = "running" /\ IsEvent(old) /\ IsPoolDelivery(old)
    BY ActsEvent DEF Ev
  <2> HIDE DEF x, old
  <2> QED
    BY <2>1, <2>2 DEF Context, IsEvent
<1>2. /\ e.st = "running" /\ e.parent = old.parent /\ e.kids = old.kids
      /\ e.node = old.node /\ e.kind = old.kind /\ e.rep = old.rep /\ IsEvent(e)
  <2> HIDE DEF old
  <2>1. /\ e.st = "running" /\ e.parent = old.parent /\ e.kids = old.kids
        /\ e.node = old.node /\ e.kind = old.kind /\ e.rep = old.rep
        /\ e.wire = old.wire /\ e.idx = old.idx /\ e.root = old.root
        /\ e.off = old.off /\ e.path = old.path /\ e.cont = old.cont
        /\ DOMAIN e = EventFields
    BY <1>1 DEF EventFields
  <2> HIDE DEF e
  <2> QED
    BY <1>1, <2>1 DEF IsEvent, IsPoolDelivery
<1>3. Context(y) /\ CalmContext(x, y) /\ SameRecord(x, y)
  <2> HIDE DEF x, e
  <2> QED
    BY <1>1, <1>2, TouchContext DEF old
<1>4. DOMAIN z = ContextFields /\ z.ev = y.ev /\ z.ready = y.ready
      /\ z.inUse = x.inUse /\ z.gated = x.gated /\ z.seq = x.seq /\ z.phase = x.phase
      /\ z.lease = x.lease /\ z.released = x.released /\ z.complete = x.complete
  <2> HIDE DEF x
  <2> QED
    BY <1>1 DEF ContextFields
<1> HIDE DEF y, z
<1>5. SameRecord(y, z) /\ y.inUse
  BY <1>1, <1>3, <1>4 DEF SameRecord
<1>6. Context(z) /\ CalmContext(y, z)
  BY <1>3, <1>4, <1>5, MinorContext
<1>7. CalmContext(x, z)
  BY <1>3, <1>6, CalmContextTrans
<1>8. Follows(s, [s EXCEPT !.ctx[c] = z])
  BY <1>1, <1>6, <1>7, InContext
<1> QED
  BY <1>8 DEF z

\* A node counts a delivery across records.
LEMMA NodeCountFollows ==
    ASSUME NEW s, NEW n, NEW v, Core(s)
    PROVE  Follows(s, [s EXCEPT !.count[n] = v])
<1> DEFINE t == [s EXCEPT !.count[n] = v]
<1>1. DOMAIN s = SchedFields /\ JoinsOK(s)
  BY DEF Core
<1>2. /\ DOMAIN t = SchedFields /\ t.ctx = s.ctx /\ t.active = s.active
      /\ t.next = s.next /\ t.turn = s.turn /\ t.joins = s.joins /\ t.last = s.last
  BY <1>1 DEF SchedFields
<1> HIDE DEF t
<1>3. JoinsOK(t)
  BY <1>1, <1>2 DEF JoinsOK
<1>4. Follows(s, t)
  BY <1>2, <1>3, SideFollows
<1> QED
  BY <1>4 DEF t
=============================================================================
