------------------------------ MODULE Folding ------------------------------
(***************************************************************************)
(* The equations of a fold over a sequence, for any step: the fold of the  *)
(* empty sequence is the base, and one more element takes one more step.   *)
(* FoldLeft is defined over the set of positions, the last one taken off   *)
(* at a time, so both rest on that recursion having a solution, which is   *)
(* an induction over the number of positions.  A module that folds         *)
(* instantiates this one, Step being what it folds with.                   *)
(***************************************************************************)
EXTENDS Naturals, Sequences, SequencesExt, TLAPS, WellFoundedInduction

CONSTANT Step(_, _)

Fold(base, s) == FoldLeft(Step, base, s)
-----------------------------------------------------------------------------
(* Induction.                                                              *)

(* A set of numbers with 0 and with the successor of each of its members   *)
(* holds every number.                                                     *)
LEMMA SetInduction ==
    ASSUME NEW S \in SUBSET Nat, 0 \in S, \A n \in S : n + 1 \in S
    PROVE  S = Nat
<1> SUFFICES ASSUME Nat \ S # {} PROVE FALSE
  OBVIOUS
<1> DEFINE Less == OpToRel(<, Nat)
<1>1. PICK least \in Nat \ S : \A n \in Nat \ S : ~(<<n, least>> \in Less)
  BY NatLessThanWellFounded, WFMin, Zenon
<1>2. least # 0 /\ least - 1 \in Nat /\ least - 1 < least
  OBVIOUS
<1>3. <<least - 1, least>> \in Less
  BY <1>2, Zenon DEF OpToRel
<1>4. least - 1 \in S
  BY <1>1, <1>2, <1>3
<1>5. (least - 1) + 1 \in S
  BY <1>4
<1> QED
  BY <1>5

(* A property of the empty sequence that appending preserves holds of      *)
(* every sequence.                                                         *)
LEMMA SequenceInduction ==
    ASSUME NEW A, NEW P \in SUBSET Seq(A), << >> \in P,
           \A s \in P, x \in A : Append(s, x) \in P
    PROVE  P = Seq(A)
<1> DEFINE Fine == {n \in Nat : \A s \in Seq(A) : Len(s) = n => s \in P}
<1>1. 0 \in Fine
  <2>1. \A s \in Seq(A) : Len(s) = 0 => s = << >>
    OBVIOUS
  <2> QED
    BY <2>1
<1>2. ASSUME NEW n \in Fine
      PROVE  n + 1 \in Fine
  <2> SUFFICES ASSUME NEW s \in Seq(A), Len(s) = n + 1 PROVE s \in P
    OBVIOUS
  <2> DEFINE t == [i \in 1..n |-> s[i]]
  <2>1. n \in Nat /\ DOMAIN s = 1..(n + 1)
    OBVIOUS
  <2>2. t \in Seq(A) /\ Len(t) = n /\ s[n + 1] \in A
    BY <2>1
  <2>3. s = Append(t, s[n + 1])
    BY <2>1
  <2>4. t \in P
    BY <2>2
  <2> HIDE DEF t
  <2> QED
    BY <2>2, <2>3, <2>4
<1>3. Fine = Nat
  <2>1. Fine \in SUBSET Nat /\ \A n \in Fine : n + 1 \in Fine
    BY <1>2
  <2> HIDE DEF Fine
  <2> QED
    BY <1>1, <2>1, SetInduction
<1>4. ASSUME NEW s \in Seq(A)
      PROVE  s \in P
  <2>1. Len(s) \in Nat /\ Len(s) \in Fine
    BY <1>3
  <2> QED
    BY <2>1
<1> QED
  BY <1>4

-----------------------------------------------------------------------------
(* The recursion over sets of positions.                                   *)

(* A finite set of positions has a last one.                               *)
LEMMA LastOf ==
    ASSUME NEW n \in Nat, NEW T \in SUBSET (1..n), T # {}
    PROVE  Max(T) \in T /\ \A i \in T : i <= Max(T)
<1> DEFINE Above == {m \in Nat : \A i \in T : i <= m}
<1> DEFINE Less == OpToRel(<, Nat)
<1>0. Above \subseteq Nat /\ n \in Above
  OBVIOUS
<1>1. PICK least \in Above : \A m \in Above : ~(<<m, least>> \in Less)
  <2> HIDE DEF Above
  <2> QED
    BY <1>0, NatLessThanWellFounded, WFMin, Zenon
<1>2. \A m \in Above : least <= m
  <2> SUFFICES ASSUME NEW m \in Above, m < least PROVE FALSE
    BY <1>0
  <2>1. <<m, least>> \in Less
    BY Zenon DEF OpToRel
  <2> QED
    BY <1>1, <2>1
<1> HIDE DEF Less
<1>3. least \in T
  <2> SUFFICES ASSUME least \notin T PROVE FALSE
    OBVIOUS
  <2>1. PICK i \in T : TRUE
    OBVIOUS
  <2>2. least - 1 \in Nat /\ \A j \in T : j <= least - 1
    BY <2>1
  <2> QED
    BY <1>2, <2>2
<1> QED
  BY <1>3 DEF Max

(* g takes the steps of the fold of s on every set of its first n          *)
(* positions.                                                              *)
Steps(g, base, s, n) ==
    g = [T \in SUBSET (1..n) |->
            IF T = {} THEN base ELSE Step(g[T \ {Max(T)}], s[Max(T)])]

(* Some function does, however many positions there are.                   *)
LEMMA StepsExist ==
    ASSUME NEW base, NEW s
    PROVE  \A n \in Nat : \E g : Steps(g, base, s, n)
<1> DEFINE Fine == {n \in Nat : \E g : Steps(g, base, s, n)}
<1>1. 0 \in Fine
  <2> DEFINE g == [T \in SUBSET (1..0) |-> base]
  <2>1. \A T \in SUBSET (1..0) : T = {}
    OBVIOUS
  <2>2. Steps(g, base, s, 0)
    BY <2>1 DEF Steps
  <2> QED
    BY <2>2
<1>2. ASSUME NEW n \in Fine
      PROVE  n + 1 \in Fine
  <2>1. PICK g : Steps(g, base, s, n)
    OBVIOUS
  <2> DEFINE h == [T \in SUBSET (1..(n + 1)) |->
                      IF n + 1 \in T THEN Step(g[T \ {n + 1}], s[n + 1]) ELSE g[T]]
  <2>2. ASSUME NEW T \in SUBSET (1..(n + 1)), n + 1 \in T
        PROVE  h[T] = Step(h[T \ {Max(T)}], s[Max(T)])
    <3>1. Max(T) = n + 1
      <4>1. n + 1 \in Nat /\ T # {}
        BY <2>2
      <4>2. PICK m \in T : m = Max(T) /\ \A i \in T : i <= m
        BY <4>1, LastOf
      <4>3. n + 1 <= m /\ m \in 1..(n + 1)
        BY <2>2, <4>2
      <4> QED
        BY <4>2, <4>3
    <3>2. T \ {n + 1} \in SUBSET (1..(n + 1)) /\ n + 1 \notin T \ {n + 1}
      OBVIOUS
    <3>3. h[T \ {n + 1}] = g[T \ {n + 1}]
      BY <3>2
    <3> QED
      BY <2>2, <3>1, <3>3
  <2>3. ASSUME NEW T \in SUBSET (1..(n + 1)), n + 1 \notin T
        PROVE  h[T] = IF T = {} THEN base ELSE Step(h[T \ {Max(T)}], s[Max(T)])
    <3>0. \A i \in 1..(n + 1) : i # n + 1 => i \in 1..n
      OBVIOUS
    <3>1. T \in SUBSET (1..n) /\ T \ {Max(T)} \in SUBSET (1..(n + 1)) /\ n + 1 \notin T \ {Max(T)}
      BY <2>3, <3>0
    <3>2. h[T] = g[T] /\ h[T \ {Max(T)}] = g[T \ {Max(T)}]
      BY <2>3, <3>1
    <3>3. g[T] = IF T = {} THEN base ELSE Step(g[T \ {Max(T)}], s[Max(T)])
      BY <2>1, <3>1 DEF Steps
    <3> QED
      BY <3>2, <3>3
  <2>4. h = [T \in SUBSET (1..(n + 1)) |->
               IF T = {} THEN base ELSE Step(h[T \ {Max(T)}], s[Max(T)])]
    <3>1. \A T \in SUBSET (1..(n + 1)) :
             h[T] = IF T = {} THEN base ELSE Step(h[T \ {Max(T)}], s[Max(T)])
      <4>1. ASSUME NEW T \in SUBSET (1..(n + 1))
            PROVE  h[T] = IF T = {} THEN base ELSE Step(h[T \ {Max(T)}], s[Max(T)])
        <5> HIDE DEF h
        <5>1. CASE n + 1 \in T
          <6>1. T # {}
            BY <5>1
          <6> QED
            BY <5>1, <6>1, <2>2
        <5>2. CASE n + 1 \notin T
          BY <5>2, <2>3
        <5> QED
          BY <5>1, <5>2
      <4> HIDE DEF h
      <4> QED
        BY <4>1
    <3> DEFINE r == [T \in SUBSET (1..(n + 1)) |->
               IF T = {} THEN base ELSE Step(h[T \ {Max(T)}], s[Max(T)])]
    <3>2. DOMAIN h = SUBSET (1..(n + 1)) /\ DOMAIN r = SUBSET (1..(n + 1))
      OBVIOUS
    <3>3. \A T \in SUBSET (1..(n + 1)) : h[T] = r[T]
      BY <3>1
    <3>4. h = [T \in DOMAIN h |-> h[T]] /\ r = [T \in DOMAIN r |-> r[T]]
      OBVIOUS
    <3> HIDE DEF h, r
    <3>5. h = r
      BY <3>2, <3>3, <3>4
    <3> QED
      BY <3>5 DEF r
  <2>5. Steps(h, base, s, n + 1)
    BY <2>4 DEF Steps
  <2> HIDE DEF h
  <2> QED
    BY <2>5
<1>3. Fine = Nat
  <2>1. Fine \in SUBSET Nat /\ \A n \in Fine : n + 1 \in Fine
    BY <1>2
  <2> HIDE DEF Fine
  <2> QED
    BY <1>1, <2>1, SetInduction
<1> QED
  BY <1>3

(* The fold is such a function, on all the positions.                      *)
LEMMA FoldSteps ==
    ASSUME NEW base, NEW s, NEW n \in Nat, DOMAIN s = 1..n
    PROVE  \E g : Steps(g, base, s, n) /\ Fold(base, s) = g[1..n]
<1> DEFINE g == CHOOSE h : Steps(h, base, s, n)
<1>1. Steps(g, base, s, n)
  BY StepsExist
<1>2. Fold(base, s) = g[1..n]
  BY DEF Fold, FoldLeft, MapThenFoldSet, Steps
<1> HIDE DEF g
<1> QED
  BY <1>1, <1>2

(* Intervals.                                                              *)
LEMMA UpTo ==
    ASSUME NEW n \in Nat
    PROVE  /\ 1..(n + 1) # {} /\ (1..(n + 1)) \ {n + 1} = 1..n
           /\ \A m \in Nat : n <= m => 1..n \in SUBSET (1..m)
OBVIOUS

(* What the function says of an interval.                                  *)
LEMMA StepAt ==
    ASSUME NEW base, NEW s, NEW g, NEW m \in Nat, Steps(g, base, s, m), NEW k \in Nat, k + 1 <= m
    PROVE  g[1..(k + 1)] = Step(g[1..k], s[k + 1])
<1>1. k + 1 \in Nat
  OBVIOUS
<1> DEFINE T == 1..(k + 1)
<1>2. T # {} /\ T \in SUBSET (1..m) /\ T \in SUBSET (1..(k + 1)) /\ T \ {k + 1} = 1..k
  BY <1>1, UpTo
<1>3. Max(T) = k + 1
  <2>1. PICK x \in T : x = Max(T) /\ \A i \in T : i <= x
    BY <1>1, <1>2, LastOf
  <2>2. k + 1 \in T /\ x \in 1..(k + 1)
    OBVIOUS
  <2> QED
    BY <2>1, <2>2
<1> HIDE DEF T
<1>4. g[T] = Step(g[T \ {Max(T)}], s[Max(T)])
  BY <1>2 DEF Steps
<1> QED
  BY <1>2, <1>3, <1>4 DEF T

LEMMA StepAtNone ==
    ASSUME NEW base, NEW s, NEW g, NEW m \in Nat, Steps(g, base, s, m)
    PROVE  g[1..0] = base
<1>1. 1..0 = {} /\ {} \in SUBSET (1..m)
  OBVIOUS
<1> QED
  BY <1>1 DEF Steps

Agree(s, t, n) == \A i \in 1..n : s[i] = t[i]

(* Up to where two sequences agree, so do the folds of them.               *)
LEMMA StepsAgree ==
    ASSUME NEW base, NEW s, NEW t, NEW n \in Nat, Agree(s, t, n), NEW g, Steps(g, base, s, n)
    PROVE  \A m \in Nat : \A h : n <= m /\ Steps(h, base, t, m) => g[1..n] = h[1..n]
<1> SUFFICES ASSUME NEW m \in Nat, NEW h, n <= m, Steps(h, base, t, m)
             PROVE  g[1..n] = h[1..n]
  OBVIOUS
<1> DEFINE Fine == {k \in Nat : k <= n => g[1..k] = h[1..k]}
<1>1. 0 \in Fine
  BY StepAtNone
<1>2. ASSUME NEW k \in Fine
      PROVE  k + 1 \in Fine
  <2> SUFFICES ASSUME k + 1 <= n PROVE g[1..(k + 1)] = h[1..(k + 1)]
    OBVIOUS
  <2>1. k \in Nat /\ k <= n /\ k + 1 <= m /\ k + 1 \in 1..n
    OBVIOUS
  <2>2. g[1..k] = h[1..k] /\ s[k + 1] = t[k + 1]
    BY <2>1 DEF Agree
  <2> HIDE DEF Fine
  <2>3. g[1..(k + 1)] = Step(g[1..k], s[k + 1])
    BY <2>1, StepAt
  <2>4. h[1..(k + 1)] = Step(h[1..k], t[k + 1])
    BY <2>1, StepAt
  <2> QED
    BY <2>2, <2>3, <2>4
<1>3. Fine = Nat
  <2>1. Fine \in SUBSET Nat /\ \A k \in Fine : k + 1 \in Fine
    BY <1>2
  <2> HIDE DEF Fine
  <2> QED
    BY <1>1, <2>1, SetInduction
<1> QED
  BY <1>3

-----------------------------------------------------------------------------
(* Folding nothing leaves the base.                                        *)
LEMMA FoldEmpty ==
    ASSUME NEW base
    PROVE  Fold(base, << >>) = base
<1>1. PICK g : Steps(g, base, << >>, 0) /\ Fold(base, << >>) = g[1..0]
  <2>1. DOMAIN << >> = 1..0
    OBVIOUS
  <2> QED
    BY <2>1, FoldSteps
<1>2. 1..0 = {} /\ {} \in SUBSET (1..0)
  OBVIOUS
<1> QED
  BY <1>1, <1>2 DEF Steps

(* So a sequence one longer takes one more step.                           *)
LEMMA OneMoreStep ==
    ASSUME NEW base, NEW s, NEW t, NEW n \in Nat,
           DOMAIN s = 1..n, DOMAIN t = 1..(n + 1), Agree(s, t, n)
    PROVE  Fold(base, t) = Step(Fold(base, s), t[n + 1])
<1>1. n + 1 \in Nat /\ n <= n + 1
  OBVIOUS
<1>2. PICK g : Steps(g, base, s, n) /\ Fold(base, s) = g[1..n]
  BY FoldSteps
<1>3. PICK h : Steps(h, base, t, n + 1) /\ Fold(base, t) = h[1..(n + 1)]
  BY <1>1, FoldSteps
<1>4. g[1..n] = h[1..n]
  <2>1. \A m \in Nat : \A f : n <= m /\ Steps(f, base, t, m) => g[1..n] = f[1..n]
    BY <1>2, StepsAgree
  <2> QED
    BY <1>1, <1>3, <2>1
<1>5. h[1..(n + 1)] = Step(h[1..n], t[n + 1])
  BY <1>1, <1>3, StepAt
<1> QED
  BY <1>2, <1>3, <1>4, <1>5

(* Folding one more element takes one more step.                           *)
LEMMA FoldAppend ==
    ASSUME NEW base, NEW A, NEW s \in Seq(A), NEW x \in A
    PROVE  Fold(base, Append(s, x)) = Step(Fold(base, s), x)
<1> DEFINE t == Append(s, x)
           n == Len(s)
<1>1. n \in Nat /\ DOMAIN s = 1..n /\ DOMAIN t = 1..(n + 1) /\ t[n + 1] = x
  OBVIOUS
<1>2. Agree(s, t, n)
  BY DEF Agree
<1> HIDE DEF t, n
<1>3. Fold(base, t) = Step(Fold(base, s), t[n + 1])
  BY <1>1, <1>2, OneMoreStep
<1> QED
  BY <1>1, <1>3 DEF t

(* The fold of one sequence after another goes on from the fold of the     *)
(* first.                                                                  *)
LEMMA FoldConcat ==
    ASSUME NEW base, NEW A, NEW s \in Seq(A), NEW t \in Seq(A)
    PROVE  Fold(base, s \o t) = Fold(Fold(base, s), t)
<1> DEFINE Fine == {u \in Seq(A) : Fold(base, s \o u) = Fold(Fold(base, s), u)}
<1>1. << >> \in Fine
  BY FoldEmpty
<1>2. ASSUME NEW u \in Fine, NEW x \in A
      PROVE  Append(u, x) \in Fine
  <2>1. s \o u \in Seq(A) /\ s \o Append(u, x) = Append(s \o u, x) /\ Append(u, x) \in Seq(A)
    OBVIOUS
  <2>2. Fold(base, Append(s \o u, x)) = Step(Fold(base, s \o u), x)
    <3> DEFINE v == s \o u
    <3> HIDE DEF v
    <3>1. v \in Seq(A)
      BY <2>1 DEF v
    <3>2. Fold(base, Append(v, x)) = Step(Fold(base, v), x)
      BY <3>1, FoldAppend
    <3> QED
      BY <3>2 DEF v
  <2>3. Fold(Fold(base, s), Append(u, x)) = Step(Fold(Fold(base, s), u), x)
    BY FoldAppend
  <2>4. Fold(base, s \o u) = Fold(Fold(base, s), u)
    OBVIOUS
  <2>5. Fold(base, s \o Append(u, x)) = Fold(Fold(base, s), Append(u, x))
    BY <2>1, <2>2, <2>3, <2>4, Zenon
  <2> QED
    BY <2>1, <2>5
<1>3. Fine = Seq(A)
  <2>1. Fine \in SUBSET Seq(A)
    OBVIOUS
  <2> HIDE DEF Fine
  <2> QED
    BY <1>1, <1>2, <2>1, SequenceInduction
<1> QED
  BY <1>3
=============================================================================
