---------------------------- MODULE ListTheorems ----------------------------
(***************************************************************************)
(* What the proofs about the status page need of lists: the orders a set   *)
(* can be listed in, lists that are shortened, put together or inserted    *)
(* into, and functions defined by recursion on the place in a list.        *)
(***************************************************************************)
EXTENDS Integers, SequencesExt, FiniteSetTheorems, SequenceTheorems,
        WellFoundedInduction, TLAPS

(***************************************************************************)
(* Listing a finite set: every member has its place, and only one.         *)
(***************************************************************************)
LEMMA Listed ==
  ASSUME NEW S, IsFiniteSet(S), NEW f \in SetToSeqs(S)
  PROVE  /\ f \in Seq(S) /\ ToSet(f) = S /\ IsInjective(f)
         /\ DOMAIN f = 1 .. Len(f) /\ Len(f) \in Nat
<1> DEFINE n == Cardinality(S)
<1>1. n \in Nat
  BY FS_CardinalityType
<1>2. f \in [1 .. n -> S] /\ \A j, k \in 1 .. n : j # k => f[j] # f[k]
  BY DEF SetToSeqs
<1>3. f \in Seq(S) /\ Len(f) = n /\ DOMAIN f = 1 .. n
  BY <1>1, <1>2, IsASeq
<1>4. IsFiniteSet(1 .. n) /\ Cardinality(1 .. n) = n
  BY <1>1, FS_Interval
<1>5. f \in Injection(1 .. n, S)
  BY <1>2 DEF Injection, IsInjective
<1>6. f \in Surjection(1 .. n, S)
  BY <1>4, <1>5, FS_Injection
<1>7. ToSet(f) = S
  BY <1>2, <1>3, <1>6 DEF Surjection, ToSet
<1>8. IsInjective(f)
  BY <1>2, <1>3 DEF IsInjective
<1>9. QED
  BY <1>1, <1>3, <1>7, <1>8

(***************************************************************************)
(* Where c is in a list, and that it is in one place of it at most.        *)
(***************************************************************************)
Holds(P, c) == \E k \in DOMAIN P : P[k] = c
Once(P, c) == \A j, k \in DOMAIN P : P[j] = c /\ P[k] = c => j = k

\* shift() n times leaves what is after the first n.
LEMMA ShiftKeeps ==
  ASSUME NEW X, NEW P \in Seq(X), NEW n \in Nat, NEW c
  PROVE  LET T == SubSeq(P, n + 1, Len(P))
         IN  /\ T \in Seq(X)
             /\ Holds(T, c) <=> \E k \in DOMAIN P : ~(k <= n) /\ P[k] = c
             /\ Once(P, c) => Once(T, c)
<1> DEFINE T == SubSeq(P, n + 1, Len(P))
<1>1. Len(P) \in Nat /\ DOMAIN P = 1 .. Len(P)
  BY LenProperties
<1>2. CASE n <= Len(P)
  <2>1. \A k \in (n + 1) .. Len(P) : P[k] \in X
    BY <1>1, ElementOfSeq
  <2>2. /\ T \in Seq(X) /\ Len(T) = Len(P) - n
        /\ \A k \in 1 .. (Len(P) - n) : T[k] = P[n + k]
    <3>1. n + 1 \in Int /\ Len(P) \in Int
      BY <1>1
    <3>2. /\ T \in Seq(X)
          /\ Len(T) = IF n + 1 <= Len(P) THEN Len(P) - (n + 1) + 1 ELSE 0
          /\ \A k \in 1 .. Len(P) - (n + 1) + 1 : T[k] = P[(n + 1) + k - 1]
      BY <2>1, <3>1, SubSeqProperties
    <3> HIDE DEF T
    <3>3. Len(P) - (n + 1) + 1 = Len(P) - n
      BY <1>1
    <3>4. Len(T) = Len(P) - n
      <4>1. CASE n + 1 <= Len(P)
        BY <3>2, <3>3, <4>1
      <4>2. CASE ~(n + 1 <= Len(P))
        <5>1. \A l \in Nat : n <= l /\ ~(n + 1 <= l) => l - n = 0
          OBVIOUS
        <5>2. Len(P) - n = 0
          BY <1>1, <1>2, <4>2, <5>1
        <5>3. QED
          BY <3>2, <4>2, <5>2
      <4>3. QED
        BY <4>1, <4>2
    <3>5. ASSUME NEW k \in 1 .. (Len(P) - n) PROVE T[k] = P[n + k]
      <4>1. (n + 1) + k - 1 = n + k
        BY <1>1
      <4>2. QED
        BY <3>2, <3>3, <4>1
    <3>6. QED
      BY <3>2, <3>4, <3>5
  <2>3. DOMAIN T = 1 .. (Len(P) - n)
    BY <2>2, LenProperties
  <2> HIDE DEF T
  <2>4. ASSUME NEW k \in DOMAIN T
        PROVE  n + k \in DOMAIN P /\ ~(n + k <= n) /\ T[k] = P[n + k]
    BY <1>1, <1>2, <2>2, <2>3, <2>4
  <2>5. ASSUME NEW k \in DOMAIN P, ~(k <= n)
        PROVE  k - n \in DOMAIN T /\ T[k - n] = P[k]
    <3>1. k - n \in 1 .. (Len(P) - n) /\ n + (k - n) = k
      BY <1>1, <1>2, <2>5
    <3>2. QED
      BY <2>2, <2>3, <3>1
  <2>6. Once(P, c) => Once(T, c)
    <3>1. SUFFICES ASSUME Once(P, c), NEW j \in DOMAIN T, NEW k \in DOMAIN T,
                          T[j] = c, T[k] = c
                   PROVE  j = k
      BY DEF Once
    <3>2. n + j = n + k
      BY <2>4, <3>1 DEF Once
    <3>3. QED
      BY <1>1, <1>2, <2>3, <3>2
  <2>7. QED
    BY <2>2, <2>4, <2>5, <2>6 DEF Holds, T
<1>3. CASE ~(n <= Len(P))
  <2>1. T = << >>
    BY <1>1, <1>3, SubSeqEmpty
  <2>2. T \in Seq(X) /\ DOMAIN T = {}
    BY <2>1, EmptySeq
  <2>3. \A k \in DOMAIN P : k <= n
    BY <1>1, <1>3
  <2>4. QED
    BY <2>2, <2>3 DEF Holds, Once
<1>4. QED
  BY <1>2, <1>3

\* The places of one list after the other.
LEMMA ConcatPlaces ==
  ASSUME NEW X, NEW P \in Seq(X), NEW G \in Seq(X)
  PROVE  /\ P \o G \in Seq(X) /\ DOMAIN (P \o G) = 1 .. (Len(P) + Len(G))
         /\ Len(P \o G) = Len(P) + Len(G)
         /\ \A k \in 1 .. Len(P) : (P \o G)[k] = P[k]
         /\ \A k \in 1 .. Len(G) : (P \o G)[Len(P) + k] = G[k]
<1> DEFINE Q == P \o G
<1>1. Len(P) \in Nat /\ Len(G) \in Nat
  BY LenProperties
<1>2. /\ Q \in Seq(X) /\ Len(Q) = Len(P) + Len(G)
      /\ \A k \in 1 .. (Len(P) + Len(G)) :
           Q[k] = IF k <= Len(P) THEN P[k] ELSE G[k - Len(P)]
  BY ConcatProperties
<1>3. DOMAIN Q = 1 .. (Len(P) + Len(G))
  BY <1>2, LenProperties
<1> HIDE DEF Q
<1>4. ASSUME NEW k \in 1 .. Len(P) PROVE Q[k] = P[k]
  <2>1. k \in 1 .. (Len(P) + Len(G)) /\ k <= Len(P)
    BY <1>1, <1>4
  <2>2. QED
    BY <1>2, <2>1
<1>5. ASSUME NEW k \in 1 .. Len(G) PROVE Q[Len(P) + k] = G[k]
  <2>1. /\ Len(P) + k \in 1 .. (Len(P) + Len(G))
        /\ ~(Len(P) + k <= Len(P)) /\ (Len(P) + k) - Len(P) = k
    BY <1>1, <1>5
  <2>2. QED
    BY <1>2, <2>1
<1>6. QED
  BY <1>2, <1>3, <1>4, <1>5 DEF Q

\* push() of what G lists.
LEMMA PushKeeps ==
  ASSUME NEW X, NEW P \in Seq(X), NEW G \in Seq(X), NEW c
  PROVE  /\ P \o G \in Seq(X)
         /\ Holds(P \o G, c) <=> Holds(P, c) \/ Holds(G, c)
         /\ Once(P, c) /\ Once(G, c) /\ ~(Holds(P, c) /\ Holds(G, c)) => Once(P \o G, c)
<1> DEFINE Q == P \o G
<1>1. /\ Len(P) \in Nat /\ DOMAIN P = 1 .. Len(P)
      /\ Len(G) \in Nat /\ DOMAIN G = 1 .. Len(G)
  BY LenProperties
<1>2. /\ Q \in Seq(X) /\ DOMAIN Q = 1 .. (Len(P) + Len(G))
      /\ \A k \in 1 .. Len(P) : Q[k] = P[k]
      /\ \A k \in 1 .. Len(G) : Q[Len(P) + k] = G[k]
  BY ConcatPlaces
<1> HIDE DEF Q
<1>3. ASSUME NEW k \in DOMAIN Q
      PROVE  \/ k \in DOMAIN P /\ Q[k] = P[k]
             \/ k - Len(P) \in DOMAIN G /\ Q[k] = G[k - Len(P)]
  <2>1. CASE k <= Len(P)
    BY <1>1, <1>2, <1>3, <2>1
  <2>2. CASE ~(k <= Len(P))
    <3>1. k - Len(P) \in 1 .. Len(G) /\ Len(P) + (k - Len(P)) = k
      BY <1>1, <1>2, <1>3, <2>2
    <3>2. QED
      BY <1>1, <1>2, <3>1
  <2>3. QED
    BY <2>1, <2>2
<1>4. ASSUME NEW k \in DOMAIN P
      PROVE  k \in DOMAIN Q /\ Q[k] = P[k]
  BY <1>1, <1>2, <1>4
<1>5. ASSUME NEW k \in DOMAIN G
      PROVE  Len(P) + k \in DOMAIN Q /\ Q[Len(P) + k] = G[k]
  BY <1>1, <1>2, <1>5
<1>6. Holds(Q, c) <=> Holds(P, c) \/ Holds(G, c)
  BY <1>3, <1>4, <1>5 DEF Holds
<1>7. ASSUME Once(P, c), Once(G, c), ~(Holds(P, c) /\ Holds(G, c))
      PROVE  Once(Q, c)
  <2>1. SUFFICES ASSUME NEW j \in DOMAIN Q, NEW k \in DOMAIN Q, Q[j] = c, Q[k] = c
                 PROVE  j = k
    BY DEF Once
  <2>2. CASE Holds(P, c)
    BY <1>3, <1>7, <2>1, <2>2 DEF Holds, Once
  <2>3. CASE ~Holds(P, c)
    <3>1. j - Len(P) = k - Len(P)
      BY <1>3, <1>7, <2>1, <2>3 DEF Holds, Once
    <3>2. QED
      BY <1>1, <1>2, <3>1
  <2>4. QED
    BY <2>2, <2>3
<1>8. QED
  BY <1>2, <1>6, <1>7 DEF Q

\* Two lists with no member in common, one after the other.
LEMMA Concatenated ==
  ASSUME NEW X, NEW P \in Seq(X), NEW G \in Seq(X),
         IsInjective(P), IsInjective(G), ToSet(P) \intersect ToSet(G) = {}
  PROVE  /\ P \o G \in Seq(X) /\ IsInjective(P \o G)
         /\ ToSet(P \o G) = ToSet(P) \union ToSet(G)
<1> DEFINE Q == P \o G
<1>1. ASSUME NEW c
      PROVE  /\ Holds(Q, c) <=> Holds(P, c) \/ Holds(G, c)
             /\ Once(P, c) /\ Once(G, c) /\ ~(Holds(P, c) /\ Holds(G, c)) => Once(Q, c)
  BY PushKeeps
<1>2. Q \in Seq(X)
  BY PushKeeps
<1> HIDE DEF Q
<1>3. \A c : /\ c \in ToSet(Q) <=> Holds(Q, c)
             /\ c \in ToSet(P) <=> Holds(P, c)
             /\ c \in ToSet(G) <=> Holds(G, c)
  BY DEF ToSet, Holds
<1>4. ToSet(Q) = ToSet(P) \union ToSet(G)
  BY <1>1, <1>3
<1>5. \A c : Once(P, c) /\ Once(G, c)
  BY DEF IsInjective, Once
<1>6. \A c : Once(Q, c)
  BY <1>1, <1>3, <1>5
<1>7. IsInjective(Q)
  BY <1>6 DEF IsInjective, Once
<1>8. QED
  BY <1>2, <1>4, <1>7 DEF Q

(***************************************************************************)
(* Induction and recursion.                                                *)
(***************************************************************************)
\* A set of numbers has a least one: what holds of 0 and goes on to the next
\* number holds of all, because there is no least one it does not hold of.
LEMMA Least ==
  ASSUME NEW S \in SUBSET Nat, S # {}
  PROVE  \E x \in S : \A y \in S : x <= y
<1>1. IsWellFoundedOn(OpToRel(<, Nat), Nat)
  BY NatLessThanWellFounded
<1>2. PICK x \in S : \A y \in S : ~(<<y, x>> \in OpToRel(<, Nat))
  BY <1>1, WFMin
<1>3. \A y \in Nat : <<y, x>> \in OpToRel(<, Nat) <=> y < x
  BY DEF OpToRel
<1>4. ASSUME NEW y \in S PROVE x <= y
  <2>1. ~(y < x) /\ x \in Nat /\ y \in Nat
    BY <1>2, <1>3
  <2>2. QED
    BY <2>1
<1>5. QED
  BY <1>4

\* A table that is changed step by step goes through these tables.
Iterates(g, n, T, base, next) ==
  /\ g \in [0 .. n -> T]
  /\ g[0] = base
  /\ \A k \in 1 .. n : g[k] = next[k][g[k - 1]]

LEMMA Iterated ==
  ASSUME NEW n \in Nat, NEW T, NEW base \in T, NEW next \in [1 .. n -> [T -> T]]
  PROVE  \E g : Iterates(g, n, T, base, next)
<1> DEFINE To(m) == \E g \in [0 .. m -> T] :
                      g[0] = base /\ \A k \in 1 .. m : g[k] = next[k][g[k - 1]]
           Bad == {m \in 0 .. n : ~To(m)}
<1>1. SUFFICES ASSUME Bad # {} PROVE FALSE
  <2>1. ASSUME Bad = {} PROVE To(n)
    <3> HIDE DEF To
    <3>1. n \in 0 .. n
      OBVIOUS
    <3>2. QED
      BY <2>1, <3>1
  <2>2. QED
    BY <2>1 DEF Iterates
<1>2. PICK m \in Bad : \A j \in Bad : m <= j
  <2>1. Bad \in SUBSET Nat
    OBVIOUS
  <2> HIDE DEF Bad
  <2>2. QED
    BY <1>1, <2>1, Least
<1>3. CASE m = 0
  <2> DEFINE g == [k \in 0 .. 0 |-> base]
  <2>1. g \in [0 .. 0 -> T] /\ g[0] = base
    OBVIOUS
  <2>2. \A k \in 1 .. 0 : g[k] = next[k][g[k - 1]]
    OBVIOUS
  <2>3. To(0)
    <3> HIDE DEF g
    <3>1. QED
      BY <2>1, <2>2
  <2>4. QED
    BY <1>2, <1>3, <2>3
<1>4. CASE m # 0
  <2>1. m - 1 \in 0 .. n /\ m \in 1 .. n /\ ~(m <= m - 1)
    BY <1>2, <1>4
  <2>2. To(m - 1)
    <3> HIDE DEF To
    <3>1. m - 1 \notin Bad
      BY <1>2, <2>1
    <3>2. QED
      BY <2>1, <3>1
  <2>3. PICK g \in [0 .. m - 1 -> T] :
          g[0] = base /\ \A k \in 1 .. m - 1 : g[k] = next[k][g[k - 1]]
    BY <2>2
  <2> DEFINE h == [k \in 0 .. m |-> IF k = m THEN next[m][g[m - 1]] ELSE g[k]]
  <2>4. h \in [0 .. m -> T]
    BY <2>1, <2>3
  <2>5. h[0] = base
    BY <2>1, <2>3
  <2>6. ASSUME NEW k \in 1 .. m PROVE h[k] = next[k][h[k - 1]]
    <3>1. k - 1 \in 0 .. m /\ k - 1 # m /\ k \in 0 .. m
      BY <2>1
    <3>2. h[k - 1] = g[k - 1]
      BY <3>1
    <3>3. CASE k = m
      BY <3>1, <3>2, <3>3
    <3>4. CASE k # m
      <4>1. k \in 1 .. m - 1
        BY <2>1, <3>4
      <4>2. QED
        BY <2>3, <3>1, <3>2, <3>4, <4>1
    <3>5. QED
      BY <3>3, <3>4
  <2>7. To(m)
    <3> HIDE DEF h
    <3>1. QED
      BY <2>4, <2>5, <2>6
  <2>8. QED
    BY <1>2, <2>7
<1>5. QED
  BY <1>3, <1>4
=============================================================================
