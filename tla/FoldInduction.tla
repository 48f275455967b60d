---------------------------- MODULE FoldInduction ----------------------------
(***************************************************************************)
(* Induction over the folds a specification is written with.               *)
(*                                                                         *)
(* The provers cannot instantiate a theorem whose parameter is an operator *)
(* but they can use the theorems of an instance: a module that reasons     *)
(* about FoldLeft(LAMBDA t, a : Op(..., t, a), base, seq) instantiates     *)
(* this one with the operator as Step, and with the property it wants as   *)
(* Inv.  Step and Inv carry up to four parameters that stay fixed.        *)
(*                                                                         *)
(* Fold is what the library's FoldLeft unfolds to.  The library itself is  *)
(* not extended: every instance would carry a copy of it into the modules  *)
(* that prove with this one.                                               *)
(***************************************************************************)
EXTENDS Integers, Sequences, WellFoundedInduction

CONSTANTS Step(_, _, _, _, _, _), Inv(_, _)

Last(s) == CHOOSE i \in s : \A j \in s : i >= j

Fold(x, y, z, u, base, seq) ==
    LET iter[s \in SUBSET DOMAIN seq] ==
          IF s = {} THEN base
          ELSE Step(x, y, z, u, iter[s \ {Last(s)}], seq[Last(s)])
    IN  iter[DOMAIN seq]

\* Every non-empty set of naturals has a least element.
LEMMA LeastNatural ==
    ASSUME NEW T, T \subseteq Nat, T # {}
    PROVE  \E m \in T : \A k \in T : m <= k
<1>1. PICK m \in T : \A k \in T : ~ (<<k, m>> \in OpToRel(<, Nat))
  BY NatLessThanWellFounded, WFMin
<1>2. \A k \in T : ~(k < m)
  BY <1>1 DEF OpToRel
<1>3. \A k \in T : m <= k
  BY <1>2
<1> QED
  BY <1>3

\* The greatest element of a set of which m is an upper bound and a member.
LEMMA LastIs ==
    ASSUME NEW S, NEW m \in S, S \subseteq Int, \A k \in S : k <= m
    PROVE  Last(S) = m
<1>1. \A k \in S : m >= k
  OBVIOUS
<1>2. Last(S) \in S /\ \A k \in S : Last(S) >= k
  BY <1>1 DEF Last
<1>3. Last(S) >= m /\ m >= Last(S)
  BY <1>1, <1>2
<1>4. Last(S) \in Int /\ m \in Int
  BY <1>2
<1> HIDE DEF Last
<1> QED
  BY <1>3, <1>4

\* The function by which Fold is defined over 1..n exists, and
\* takes one step from 1..m - 1 to 1..m.
LEMMA FoldEquation ==
    ASSUME NEW x, NEW y, NEW z, NEW u, NEW base, NEW A, NEW seq \in Seq(A)
    PROVE  \E iter :
             /\ Fold(x, y, z, u, base, seq) = iter[1 .. Len(seq)]
             /\ iter[{}] = base
             /\ \A m \in 1 .. Len(seq) :
                  iter[1 .. m] = Step(x, y, z, u, iter[1 .. m - 1], seq[m])
<1> DEFINE n == Len(seq)
           Solves(g, S) ==
               g = [s \in SUBSET S |->
                      IF s = {} THEN base
                      ELSE Step(x, y, z, u, g[s \ {Last(s)}], seq[Last(s)])]
           Solved(m) == \E g : Solves(g, 1 .. m)
<1>1. n \in Nat /\ DOMAIN seq = 1 .. n
  OBVIOUS
<1>2. Solved(0)
  <2>1. Solves([s \in SUBSET (1 .. 0) |-> base], 1 .. 0)
    OBVIOUS
  <2> QED
    BY <2>1
<1>3. ASSUME NEW m \in Nat, m < n, Solved(m) PROVE Solved(m + 1)
  <2>1. PICK g : Solves(g, 1 .. m)
    BY <1>3
  <2> DEFINE h == [s \in SUBSET (1 .. m + 1) |->
                     IF m + 1 \in s
                     THEN Step(x, y, z, u, g[s \ {m + 1}], seq[m + 1]) ELSE g[s]]
  <2>2. ASSUME NEW s \in SUBSET (1 .. m + 1)
        PROVE  h[s] = IF s = {} THEN base
                      ELSE Step(x, y, z, u, h[s \ {Last(s)}], seq[Last(s)])
    <3>1. CASE m + 1 \in s
      <4>1. Last(s) = m + 1
        <5>1. \A k \in s : k \in Int /\ k <= m + 1
          OBVIOUS
        <5> QED
          BY <3>1, <5>1, LastIs
      <4>2. s \ {m + 1} \in SUBSET (1 .. m)
        OBVIOUS
      <4>3. h[s \ {m + 1}] = g[s \ {m + 1}]
        BY <4>2
      <4> QED
        BY <3>1, <4>1, <4>3
    <3>2. CASE m + 1 \notin s
      <4>1. s \in SUBSET (1 .. m)
        BY <3>2
      <4>2. s \ {Last(s)} \in SUBSET (1 .. m)
        BY <4>1
      <4>3. h[s] = g[s] /\ h[s \ {Last(s)}] = g[s \ {Last(s)}]
        BY <4>1, <4>2, <3>2
      <4>4. g[s] = IF s = {} THEN base
                   ELSE Step(x, y, z, u, g[s \ {Last(s)}], seq[Last(s)])
        BY <2>1, <4>1
      <4> QED
        BY <4>3, <4>4
    <3> QED
      BY <3>1, <3>2
  <2>3. Solves(h, 1 .. m + 1)
    BY <2>2
  <2> QED
    BY <2>3
<1>4. Solved(n)
  <2> HIDE DEF Solved
  <2> DEFINE T == {m \in 0 .. n : ~Solved(m)}
  <2>1. SUFFICES ASSUME T # {} PROVE FALSE
    BY <1>1
  <2>2. T \subseteq Nat
    BY <1>1
  <2>3. PICK m \in T : \A k \in T : m <= k
    <3> HIDE DEF T
    <3> QED
      BY <2>1, <2>2, LeastNatural
  <2>4. m # 0 /\ m \in 0 .. n
    BY <1>2
  <2>5. m - 1 \in Nat /\ m - 1 < n /\ m - 1 \notin T
    BY <2>3, <2>4, <1>1
  <2>6. Solved(m - 1)
    BY <2>5, <1>1
  <2>7. Solved(m - 1 + 1)
    BY <2>5, <2>6, <1>3
  <2> QED
    BY <2>7, <2>4, <1>1
<1> DEFINE iter == CHOOSE g : Solves(g, DOMAIN seq)
<1>5. Solves(iter, 1 .. n)
  BY <1>4, <1>1
<1>6. Fold(x, y, z, u, base, seq) = iter[1 .. n]
  BY <1>1 DEF Fold
<1>7. iter[{}] = base
  BY <1>5
<1>8. ASSUME NEW m \in 1 .. n
      PROVE  iter[1 .. m] = Step(x, y, z, u, iter[1 .. m - 1], seq[m])
  <2>1. Last(1 .. m) = m
    <3>1. m \in 1 .. m /\ 1 .. m \subseteq Int /\ \A k \in 1 .. m : k <= m
      BY <1>1
    <3> QED
      BY <3>1, LastIs
  <2>2. (1 .. m) \ {m} = 1 .. m - 1
    BY <1>1
  <2>3. m \in 1 .. m /\ 1 .. m \subseteq 1 .. n
    BY <1>1
  <2> HIDE DEF iter
  <2> QED
    BY <1>5, <2>1, <2>2, <2>3
<1> HIDE DEF iter
<1> QED
  BY <1>6, <1>7, <1>8

\* What holds of the base and is kept by every step holds of the fold.
LEMMA FoldInv ==
    ASSUME NEW p, NEW x, NEW y, NEW z, NEW u, NEW base, NEW A, NEW seq \in Seq(A),
           Inv(p, base),
           \A t : \A i \in 1 .. Len(seq) :
               Inv(p, t) => Inv(p, Step(x, y, z, u, t, seq[i]))
    PROVE  Inv(p, Fold(x, y, z, u, base, seq))
<1>1. PICK iter : /\ Fold(x, y, z, u, base, seq) = iter[1 .. Len(seq)]
                  /\ iter[{}] = base
                  /\ \A m \in 1 .. Len(seq) :
                       iter[1 .. m] = Step(x, y, z, u, iter[1 .. m - 1], seq[m])
  BY FoldEquation
<1> DEFINE n == Len(seq)
           T == {m \in 0 .. n : ~Inv(p, iter[1 .. m])}
<1>2. n \in Nat
  OBVIOUS
<1>3. T = {}
  <2>1. SUFFICES ASSUME T # {} PROVE FALSE
    OBVIOUS
  <2>2. T \subseteq Nat
    BY <1>2
  <2>3. PICK m \in T : \A k \in T : m <= k
    <3> HIDE DEF T
    <3> QED
      BY <2>1, <2>2, LeastNatural
  <2>4. m \in 0 .. n /\ ~Inv(p, iter[1 .. m])
    OBVIOUS
  <2>5. 1 .. 0 = {}
    OBVIOUS
  <2>6. m # 0
    BY <2>4, <2>5, <1>1
  <2>7. m \in 1 .. n /\ m - 1 \in 0 .. n /\ m - 1 \notin T
    BY <2>3, <2>4, <2>6, <1>2
  <2>8. Inv(p, iter[1 .. m - 1])
    BY <2>7
  <2> QED
    BY <2>4, <2>7, <2>8, <1>1
<1>4. Inv(p, iter[1 .. n])
  BY <1>2, <1>3
<1> QED
  BY <1>1, <1>4
=============================================================================
