-------------------------- MODULE StatisticsProofs --------------------------
(***************************************************************************)
(* The rows of the Mesh-VPN table are the peers of the last report, in the *)
(* order of their names, for every set of peers and every order they come  *)
(* and go in; and the types of the page.                                   *)
(***************************************************************************)
EXTENDS StatusPageProofs, ListTheorems

TableRow == [path : Path, shown : Status]

(***************************************************************************)
(* Inserting a row.                                                        *)
(***************************************************************************)
\* e is inserted into t after its first m members.
Inserted(t, m, e, Q) ==
  /\ DOMAIN Q = 1 .. (Len(t) + 1)
  /\ \A k \in 1 .. m : Q[k] = t[k]
  /\ Q[m + 1] = e
  /\ \A k \in (m + 2) .. (Len(t) + 1) : Q[k] = t[k - 1]

LEMMA InsertAtInserts ==
  ASSUME NEW X, NEW t \in Seq(X), NEW e \in X, NEW m \in 0 .. Len(t)
  PROVE  InsertAt(t, m + 1, e) \in Seq(X) /\ Inserted(t, m, e, InsertAt(t, m + 1, e))
<1> DEFINE n == Len(t)
           A == SubSeq(t, 1, m)
           B == SubSeq(t, m + 1, n)
           Q == (A \o <<e>>) \o B
<1>1. n \in Nat /\ m \in Nat /\ m <= n
  BY LenProperties
<1>2. \A k \in 1 .. n : t[k] \in X
  BY ElementOfSeq
<1>3. A \in Seq(X) /\ Len(A) = m /\ \A k \in 1 .. m : A[k] = t[k]
  OBVIOUS
<1>4. B \in Seq(X) /\ Len(B) = n - m /\ \A k \in 1 .. (n - m) : B[k] = t[m + k]
  OBVIOUS
<1>5. <<e>> \in Seq(X) /\ Len(<<e>>) = 1 /\ <<e>>[1] = e
  OBVIOUS
<1> HIDE DEF A, B, n
<1>6. /\ A \o <<e>> \in Seq(X) /\ Len(A \o <<e>>) = m + 1
      /\ \A k \in 1 .. m : (A \o <<e>>)[k] = t[k]
      /\ (A \o <<e>>)[m + 1] = e
  <2>1. /\ A \o <<e>> \in Seq(X) /\ Len(A \o <<e>>) = m + 1
        /\ \A k \in 1 .. m : (A \o <<e>>)[k] = A[k]
        /\ \A k \in 1 .. 1 : (A \o <<e>>)[m + k] = <<e>>[k]
    BY <1>3, <1>5, ConcatPlaces
  <2>2. QED
    BY <1>3, <1>5, <2>1
<1>7. /\ Q \in Seq(X) /\ DOMAIN Q = 1 .. ((m + 1) + (n - m))
      /\ \A k \in 1 .. (m + 1) : Q[k] = (A \o <<e>>)[k]
      /\ \A k \in 1 .. (n - m) : Q[(m + 1) + k] = B[k]
  <2>1. A \o <<e>> \in Seq(X) /\ B \in Seq(X)
    BY <1>4, <1>6
  <2> DEFINE C == A \o <<e>>
  <2> HIDE DEF C
  <2>2. /\ C \o B \in Seq(X) /\ DOMAIN (C \o B) = 1 .. (Len(C) + Len(B))
        /\ \A k \in 1 .. Len(C) : (C \o B)[k] = C[k]
        /\ \A k \in 1 .. Len(B) : (C \o B)[Len(C) + k] = B[k]
    BY <2>1, ConcatPlaces DEF C
  <2>3. Len(C) = m + 1 /\ Len(B) = n - m
    BY <1>4, <1>6 DEF C
  <2>4. QED
    BY <2>2, <2>3 DEF C
<1> HIDE DEF Q
<1>8. DOMAIN Q = 1 .. (n + 1)
  <2>1. (m + 1) + (n - m) = n + 1
    BY <1>1
  <2>2. QED
    BY <1>7, <2>1
<1>9. ASSUME NEW k \in 1 .. m PROVE Q[k] = t[k]
  <2>1. k \in 1 .. (m + 1)
    BY <1>1, <1>9
  <2>2. QED
    BY <1>6, <1>7, <2>1
<1>10. Q[m + 1] = e
  <2>1. m + 1 \in 1 .. (m + 1)
    BY <1>1
  <2>2. QED
    BY <1>6, <1>7, <2>1
<1>11. ASSUME NEW k \in (m + 2) .. (n + 1) PROVE Q[k] = t[k - 1]
  <2>1. /\ k - (m + 1) \in 1 .. (n - m) /\ (m + 1) + (k - (m + 1)) = k
        /\ m + (k - (m + 1)) = k - 1
    BY <1>1, <1>11
  <2>2. QED
    BY <1>4, <1>7, <2>1
<1>12. InsertAt(t, m + 1, e) = Q
  <2>1. (m + 1) - 1 = m
    BY <1>1
  <2>2. QED
    BY <2>1 DEF InsertAt, Q, A, B, n
<1>13. QED
  BY <1>7, <1>8, <1>9, <1>10, <1>11, <1>12 DEF Inserted, n

\* mkRow: the new row comes after the rows up to the first one with a greater label.
LEMMA MkRowInserts ==
  ASSUME NEW t \in Seq(TableRow), NEW r \in TableRow
  PROVE  /\ MkRow(t, r) \in Seq(TableRow)
         /\ \E m \in 0 .. Len(t) :
              /\ Inserted(t, m, r, MkRow(t, r))
              /\ \A k \in 1 .. m : Label[t[k].path] <= Label[r.path]
              /\ m < Len(t) => Label[r.path] < Label[t[m + 1].path]
<1> DEFINE n == Len(t)
           above == {i \in 1 .. n : \A j \in 1 .. i : Label[r.path] >= Label[t[j].path]}
           below == {i \in 1 .. (n + 1) : i \notin above}
<1>1. n \in Nat
  BY LenProperties
<1>2. PICK c \in below : \A i \in below : c <= i
  <2>1. n + 1 \in below
    BY <1>1
  <2>2. below \in SUBSET Nat
    BY <1>1
  <2> HIDE DEF below
  <2>3. QED
    BY <2>1, <2>2, Least
<1> DEFINE m == c - 1
<1>3. m \in 0 .. n /\ c = m + 1
  BY <1>1, <1>2
<1>4. above = 1 .. m
  <2>1. ASSUME NEW i \in 1 .. m PROVE i \in above
    BY <1>1, <1>2, <1>3, <2>1
  <2>2. ASSUME NEW i \in above, ~(i \in 1 .. m) PROVE FALSE
    <3>1. i \in 1 .. n /\ c \in 1 .. n /\ c \in 1 .. i
      BY <1>1, <1>3, <2>2
    <3>2. c \notin above
      BY <1>2
    <3>3. PICK j \in 1 .. c : ~(Label[r.path] >= Label[t[j].path])
      BY <3>1, <3>2
    <3>4. j \in 1 .. i
      BY <1>1, <1>3, <3>1
    <3>5. QED
      BY <2>2, <3>3, <3>4
  <2>3. QED
    BY <2>1, <2>2
<1> HIDE DEF above, m
<1>5. Cardinality(above) = m
  <2>1. m \in Nat /\ (IF 1 > m THEN 0 ELSE m - 1 + 1) = m
    BY <1>1, <1>3
  <2>2. QED
    BY <1>4, <2>1, FS_Interval
<1>6. MkRow(t, r) = InsertAt(t, m + 1, r)
  <2>1. MkRow(t, r) = InsertAt(t, Cardinality(above) + 1, r)
    BY DEF MkRow, above
  <2>2. QED
    BY <1>5, <2>1
<1>7. /\ MkRow(t, r) \in Seq(TableRow)
      /\ Inserted(t, m, r, MkRow(t, r))
  <2>1. m \in 0 .. Len(t)
    BY <1>3
  <2>2. QED
    BY <1>6, <2>1, InsertAtInserts
<1>8. ASSUME NEW k \in 1 .. m PROVE Label[t[k].path] <= Label[r.path]
  <2>1. k \in above
    BY <1>4, <1>8
  <2>2. Label[r.path] >= Label[t[k].path]
    BY <2>1 DEF above
  <2>3. t[k].path \in Path /\ r.path \in Path
    <3>1. t[k] \in TableRow
      BY <1>1, <1>3, ElementOfSeq
    <3>2. QED
      BY <3>1 DEF TableRow
  <2>4. Label[t[k].path] \in Nat /\ Label[r.path] \in Nat
    BY <2>3, LabelsAssumption
  <2>5. QED
    BY <2>2, <2>4
<1>9. ASSUME m < n PROVE Label[r.path] < Label[t[m + 1].path]
  <2>1. c \in 1 .. n /\ c \notin above
    BY <1>1, <1>2, <1>3, <1>9
  <2>2. PICK j \in 1 .. c : ~(Label[r.path] >= Label[t[j].path])
    BY <2>1 DEF above
  <2>3. t[j] \in TableRow
    BY <1>1, <1>3, <2>1, ElementOfSeq
  <2>4. Label[r.path] < Label[t[j].path]
    BY <2>2, <2>3, LabelsAssumption DEF TableRow
  <2>5. ~(j \in 1 .. m)
    BY <1>8, <2>3, <2>4, LabelsAssumption DEF TableRow
  <2>6. j = m + 1
    BY <1>1, <1>3, <2>5
  <2>7. QED
    BY <2>4, <2>6
<1>10. QED
  BY <1>3, <1>7, <1>8, <1>9

(***************************************************************************)
(* A table that has the rows of the peers in S, once each, as they are in  *)
(* the report d, and sorted.                                               *)
(***************************************************************************)
Orderly(t) ==
  /\ t \in Seq(TableRow)
  /\ \A i, j \in 1 .. Len(t) : t[i].path = t[j].path => i = j
  /\ \A i, j \in 1 .. Len(t) : i < j => Label[t[i].path] <= Label[t[j].path]
Showing(t, d, S) ==
  /\ Orderly(t)
  /\ \A i \in 1 .. Len(t) : t[i].path \in S /\ t[i].shown = d[t[i].path]
  /\ \A p \in S : \E i \in 1 .. Len(t) : t[i].path = p
Peers(d) ==
  DOMAIN d \subseteq Path /\ IsFiniteSet(DOMAIN d) /\ \A p \in DOMAIN d : d[p] \in Status

LEMMA NewRowIsRow ==
  ASSUME NEW d, Peers(d), NEW p \in DOMAIN d
  PROVE  NewRow(d, p) \in TableRow /\ NewRow(d, p).path = p /\ NewRow(d, p).shown = d[p]
BY DEF NewRow, TableRow, Peers

\* mkRow for a peer that has no row yet.
LEMMA MkRowShows ==
  ASSUME NEW d, Peers(d), NEW S \in SUBSET DOMAIN d, NEW t, Showing(t, d, S),
         NEW p \in DOMAIN d, p \notin S
  PROVE  Showing(MkRow(t, NewRow(d, p)), d, S \union {p})
<1> DEFINE r == NewRow(d, p)
           Q == MkRow(t, r)
           n == Len(t)
<1>1. r \in TableRow /\ r.path = p /\ r.shown = d[p]
  BY NewRowIsRow
<1>2. t \in Seq(TableRow) /\ n \in Nat
  BY LenProperties DEF Showing, Orderly
<1> HIDE DEF r, Q
<1>3. PICK m \in 0 .. n :
        /\ Q \in Seq(TableRow)
        /\ Inserted(t, m, r, Q)
        /\ \A k \in 1 .. m : Label[t[k].path] <= Label[r.path]
        /\ m < n => Label[r.path] < Label[t[m + 1].path]
  BY <1>1, <1>2, MkRowInserts DEF Q
<1>4. Len(Q) = n + 1
  BY <1>2, <1>3, LenProperties DEF Inserted
<1> DEFINE Old(k) == IF k <= m THEN k ELSE k - 1
<1>5. ASSUME NEW k \in 1 .. (n + 1), k # m + 1
      PROVE  Old(k) \in 1 .. n /\ Q[k] = t[Old(k)]
  <2>1. CASE k <= m
    BY <1>2, <1>3, <1>5, <2>1 DEF Inserted
  <2>2. CASE ~(k <= m)
    <3>1. k \in (m + 2) .. (n + 1)
      BY <1>2, <1>5, <2>2
    <3>2. QED
      BY <1>2, <1>3, <2>2, <3>1 DEF Inserted
  <2>3. QED
    BY <2>1, <2>2
<1>6. Q[m + 1] = r /\ m + 1 \in 1 .. (n + 1)
  BY <1>2, <1>3 DEF Inserted
<1>7. ASSUME NEW i \in 1 .. n
      PROVE  \E k \in 1 .. (n + 1) : k # m + 1 /\ Old(k) = i
  <2>1. CASE i <= m
    BY <1>2, <1>7, <2>1
  <2>2. CASE ~(i <= m)
    <3>1. i + 1 \in 1 .. (n + 1) /\ i + 1 # m + 1 /\ Old(i + 1) = i
      BY <1>2, <1>7, <2>2
    <3>2. QED
      BY <3>1
  <2>3. QED
    BY <2>1, <2>2
<1>8. ASSUME NEW j \in 1 .. (n + 1), NEW k \in 1 .. (n + 1), j # m + 1, k # m + 1, j < k
      PROVE  Old(j) < Old(k)
  BY <1>2, <1>8
<1>9. ASSUME NEW k \in 1 .. n
      PROVE  /\ t[k].path \in S /\ t[k].path \in Path /\ t[k].path # p
             /\ t[k].shown = d[t[k].path] /\ Label[t[k].path] \in Nat
  <2>1. t[k] \in TableRow
    BY <1>2, ElementOfSeq
  <2>2. t[k].path \in Path
    BY <2>1 DEF TableRow
  <2>3. QED
    BY <2>2, LabelsAssumption DEF Showing
<1>10. Label[r.path] \in Nat
  BY <1>1, LabelsAssumption DEF TableRow
<1> HIDE DEF Old
<1>11. ASSUME NEW i \in 1 .. (n + 1), NEW j \in 1 .. (n + 1), Q[i].path = Q[j].path
       PROVE  i = j
  <2>1. CASE i # m + 1 /\ j # m + 1
    <3>1. Old(i) = Old(j) /\ Old(i) \in 1 .. n
      BY <1>5, <1>11, <2>1 DEF Showing, Orderly
    <3>2. ~(i < j) /\ ~(j < i)
      BY <1>2, <1>8, <2>1, <3>1
    <3>3. QED
      BY <3>2
  <2>2. CASE i = m + 1 /\ j # m + 1
    BY <1>1, <1>5, <1>6, <1>9, <1>11, <2>2
  <2>3. CASE i # m + 1 /\ j = m + 1
    BY <1>1, <1>5, <1>6, <1>9, <1>11, <2>3
  <2>4. QED
    BY <2>1, <2>2, <2>3
<1>12. ASSUME NEW i \in 1 .. (n + 1), NEW j \in 1 .. (n + 1), i < j
       PROVE  Label[Q[i].path] <= Label[Q[j].path]
  <2>1. CASE i # m + 1 /\ j # m + 1
    <3>1. Old(i) < Old(j) /\ Old(i) \in 1 .. n /\ Old(j) \in 1 .. n
      BY <1>5, <1>8, <1>12, <2>1
    <3>2. Label[t[Old(i)].path] <= Label[t[Old(j)].path]
      BY <3>1 DEF Showing, Orderly
    <3>3. QED
      BY <1>5, <2>1, <3>2
  <2>2. CASE j = m + 1
    <3>1. i \in 1 .. m /\ i # m + 1
      BY <1>2, <1>12, <2>2
    <3>2. Q[i] = t[i]
      BY <1>3, <3>1 DEF Inserted
    <3>3. QED
      BY <1>3, <1>6, <2>2, <3>1, <3>2
  <2>3. CASE i = m + 1
    <3>1. m < n /\ j # m + 1 /\ ~(j <= m)
      BY <1>2, <1>12, <2>3
    <3>2. Old(j) \in 1 .. n /\ Old(j) = j - 1 /\ Q[j] = t[Old(j)]
      BY <1>5, <3>1 DEF Old
    <3>3. m + 1 \in 1 .. n /\ (m + 1 < Old(j) \/ m + 1 = Old(j))
      BY <1>2, <1>12, <2>3, <3>1, <3>2
    <3>4. Label[t[m + 1].path] <= Label[t[Old(j)].path]
      BY <1>9, <3>2, <3>3 DEF Showing, Orderly
    <3>5. Label[r.path] < Label[t[m + 1].path]
      BY <1>3, <3>1
    <3>6. Label[t[m + 1].path] \in Nat /\ Label[t[Old(j)].path] \in Nat
      BY <1>9, <3>2, <3>3
    <3>7. Label[r.path] <= Label[t[Old(j)].path]
      BY <1>10, <3>4, <3>5, <3>6
    <3>8. QED
      BY <1>6, <2>3, <3>2, <3>7
  <2>4. QED
    BY <2>1, <2>2, <2>3
<1>13. Orderly(Q)
  BY <1>3, <1>4, <1>11, <1>12 DEF Orderly
<1>14. ASSUME NEW k \in 1 .. (n + 1)
       PROVE  Q[k].path \in S \union {p} /\ Q[k].shown = d[Q[k].path]
  <2>1. CASE k = m + 1
    BY <1>1, <1>6, <2>1
  <2>2. CASE k # m + 1
    BY <1>5, <1>9, <2>2
  <2>3. QED
    BY <2>1, <2>2
<1>15. ASSUME NEW q \in S \union {p}
       PROVE  \E k \in 1 .. (n + 1) : Q[k].path = q
  <2>1. CASE q = p
    BY <1>1, <1>6, <2>1
  <2>2. CASE q \in S
    <3>1. PICK i \in 1 .. n : t[i].path = q
      BY <2>2 DEF Showing
    <3>2. PICK k \in 1 .. (n + 1) : k # m + 1 /\ Old(k) = i
      BY <1>7
    <3>3. QED
      BY <1>5, <3>1, <3>2
  <2>3. QED
    BY <1>15, <2>1, <2>2
<1>16. QED
  BY <1>4, <1>13, <1>14, <1>15 DEF Showing, Q, r

(***************************************************************************)
(* A report.                                                               *)
(***************************************************************************)
\* The recursion of Filled goes through a table per missing peer.
LEMMA FilledSteps ==
  ASSUME NEW d, Peers(d), NEW t \in Seq(TableRow), NEW missing \in Seq(DOMAIN d)
  PROVE  \E after :
           /\ after[0] = t
           /\ \A k \in 1 .. Len(missing) :
                after[k] = MkRow(after[k - 1], NewRow(d, missing[k]))
           /\ Filled(t, d, missing) = after[Len(missing)]
<1> DEFINE n == Len(missing)
           T == Seq(TableRow)
           Next1 == [k \in 1 .. n |-> [u \in T |-> MkRow(u, NewRow(d, missing[k]))]]
           Def(f) == [k \in 0 .. n |->
                        IF k = 0 THEN t ELSE MkRow(f[k - 1], NewRow(d, missing[k]))]
           after == CHOOSE f : f = Def(f)
<1>1. n \in Nat
  BY LenProperties
<1>2. Next1 \in [1 .. n -> [T -> T]]
  <2>1. ASSUME NEW k \in 1 .. n, NEW u \in T
        PROVE  MkRow(u, NewRow(d, missing[k])) \in T
    <3>1. missing[k] \in DOMAIN d
      BY <1>1, ElementOfSeq
    <3>2. QED
      BY <3>1, NewRowIsRow, MkRowInserts
  <2>2. QED
    BY <2>1
<1>3. PICK g : Iterates(g, n, T, t, Next1)
  <2> HIDE DEF Next1, T, n
  <2>1. t \in T
    BY DEF T
  <2>2. QED
    BY <1>1, <1>2, <2>1, Iterated
<1>4. /\ g \in [0 .. n -> T] /\ g[0] = t
      /\ \A k \in 1 .. n : g[k] = Next1[k][g[k - 1]]
  <2> HIDE DEF Next1, T, n
  <2>1. QED
    BY <1>3 DEF Iterates
<1>5. g = Def(g)
  <2>1. ASSUME NEW k \in 0 .. n
        PROVE  g[k] = IF k = 0 THEN t ELSE MkRow(g[k - 1], NewRow(d, missing[k]))
    <3>1. CASE k = 0
      BY <1>4, <3>1
    <3>2. CASE k # 0
      <4>1. k \in 1 .. n /\ k - 1 \in 0 .. n
        BY <1>1, <3>2
      <4>2. g[k - 1] \in T
        BY <1>4, <4>1
      <4>3. QED
        BY <1>4, <3>2, <4>1, <4>2
    <3>3. QED
      BY <3>1, <3>2
  <2>2. QED
    BY <1>4, <2>1
<1> HIDE DEF Def
<1>6. after = Def(after)
  BY <1>5
<1>7. Filled(t, d, missing) = after[n]
  BY DEF Filled, Def
<1> HIDE DEF after
<1>8. after[0] = t
  BY <1>1, <1>6 DEF Def
<1>9. \A k \in 1 .. n : after[k] = MkRow(after[k - 1], NewRow(d, missing[k]))
  BY <1>1, <1>6 DEF Def
<1>10. QED
  BY <1>7, <1>8, <1>9

\* Rows are made for the peers in missing, whatever order they are listed in.
LEMMA FilledShows ==
  ASSUME NEW d, Peers(d), NEW S \in SUBSET DOMAIN d, NEW t, Showing(t, d, S),
         NEW missing \in Seq(DOMAIN d), IsInjective(missing),
         S \intersect ToSet(missing) = {}
  PROVE  Showing(Filled(t, d, missing), d, S \union ToSet(missing))
<1> DEFINE n == Len(missing)
           Made(k) == {missing[j] : j \in 1 .. k}
<1>1. n \in Nat /\ DOMAIN missing = 1 .. n
  BY LenProperties
<1>2. t \in Seq(TableRow)
  BY DEF Showing, Orderly
<1>3. PICK after :
        /\ after[0] = t
        /\ \A k \in 1 .. n : after[k] = MkRow(after[k - 1], NewRow(d, missing[k]))
        /\ Filled(t, d, missing) = after[n]
  BY <1>2, FilledSteps
<1> DEFINE Good(k) == Showing(after[k], d, S \union Made(k))
           Bad == {k \in 0 .. n : ~Good(k)}
<1>4. Bad = {}
  <2>1. SUFFICES ASSUME Bad # {} PROVE FALSE
    OBVIOUS
  <2>2. PICK m \in Bad : \A k \in Bad : m <= k
    <3>1. Bad \in SUBSET Nat
      OBVIOUS
    <3> HIDE DEF Bad
    <3>2. QED
      BY <2>1, <3>1, Least
  <2>3. m # 0
    <3>1. S \union Made(0) = S
      OBVIOUS
    <3>2. Good(0)
      BY <1>3, <3>1
    <3>3. QED
      BY <2>2, <3>2
  <2>4. m \in 1 .. n /\ m - 1 \in 0 .. n /\ ~(m <= m - 1)
    BY <1>1, <2>2, <2>3
  <2>5. Good(m - 1)
    <3> HIDE DEF Good
    <3>1. m - 1 \notin Bad
      BY <2>2, <2>4
    <3>2. QED
      BY <2>4, <3>1
  <2>6. missing[m] \in DOMAIN d /\ missing[m] \notin S \union Made(m - 1)
    <3>1. missing[m] \in DOMAIN d /\ missing[m] \notin S
      BY <1>1, <2>4, ElementOfSeq DEF ToSet
    <3>2. \A j \in 1 .. (m - 1) : j \in 1 .. n /\ j # m
      BY <1>1, <2>4
    <3>3. \A j \in 1 .. (m - 1) : missing[j] # missing[m]
      BY <1>1, <2>4, <3>2 DEF IsInjective
    <3>4. QED
      BY <3>1, <3>3
  <2>7. S \union Made(m - 1) \in SUBSET DOMAIN d
    <3>1. \A j \in 1 .. (m - 1) : j \in 1 .. n
      BY <1>1, <2>4
    <3>2. \A j \in 1 .. (m - 1) : missing[j] \in DOMAIN d
      BY <1>1, <3>1, ElementOfSeq
    <3>3. QED
      BY <3>2
  <2>8. Showing(after[m], d, (S \union Made(m - 1)) \union {missing[m]})
    <3> DEFINE u == after[m - 1]
               p == missing[m]
               W == S \union Made(m - 1)
    <3>1. Showing(u, d, W) /\ p \in DOMAIN d /\ p \notin W /\ W \in SUBSET DOMAIN d
      BY <2>5, <2>6, <2>7
    <3>2. after[m] = MkRow(u, NewRow(d, p))
      BY <1>3, <2>4
    <3> HIDE DEF u, p, W
    <3>3. Showing(MkRow(u, NewRow(d, p)), d, W \union {p})
      BY <3>1, MkRowShows
    <3>4. Showing(after[m], d, W \union {p})
      BY <3>2, <3>3
    <3>5. QED
      BY <3>4 DEF W, p
  <2>9. (S \union Made(m - 1)) \union {missing[m]} = S \union Made(m)
    <3>1. \A j : j \in 1 .. m <=> j \in 1 .. (m - 1) \/ j = m
      BY <1>1, <2>4
    <3>2. QED
      BY <3>1
  <2>10. QED
    <3> HIDE DEF Made
    <3>1. Good(m)
      BY <2>8, <2>9
    <3>2. QED
      BY <2>2, <3>1
<1>5. Good(n)
  <2> HIDE DEF Good
  <2>1. n \in 0 .. n /\ n \notin Bad
    BY <1>1, <1>4
  <2>2. QED
    BY <2>1
<1>6. Made(n) = ToSet(missing)
  BY <1>1 DEF ToSet
<1>7. QED
  BY <1>3, <1>5, <1>6

\* The rows that stay, in their order.
LEMMA RemainingShows ==
  ASSUME NEW d, Peers(d), NEW t, Orderly(t), NEW kept \in Staying(t, d)
  PROVE  Showing(Remaining(t, d, kept), d, {p \in DOMAIN d : HasRow(t, p)})
<1> DEFINE n == Len(t)
           K == {i \in 1 .. n : t[i].path \in DOMAIN d}
           R == Remaining(t, d, kept)
           S == {p \in DOMAIN d : HasRow(t, p)}
<1>1. t \in Seq(TableRow) /\ n \in Nat
  BY LenProperties DEF Orderly
<1>2. /\ kept \in Seq(K) /\ ToSet(kept) = K /\ IsInjective(kept)
      /\ DOMAIN kept = 1 .. Len(kept) /\ Len(kept) \in Nat
  <2>1. IsFiniteSet(K)
    <3>1. IsFiniteSet(1 .. n)
      BY <1>1, FS_Interval
    <3>2. QED
      BY <3>1, FS_Subset
  <2>2. kept \in SetToSeqs(K)
    BY DEF Staying
  <2> HIDE DEF K
  <2>3. QED
    BY <2>1, <2>2, Listed
<1>3. \A j, k \in DOMAIN kept : j < k => kept[j] < kept[k]
  BY DEF Staying
<1>4. ASSUME NEW k \in DOMAIN kept
      PROVE  /\ kept[k] \in 1 .. n /\ t[kept[k]].path \in DOMAIN d
             /\ R[k] = NewRow(d, t[kept[k]].path)
             /\ R[k] \in TableRow /\ R[k].path = t[kept[k]].path /\ R[k].shown = d[R[k].path]
  <2>1. kept[k] \in K
    BY <1>2, ElementOfSeq
  <2>2. R[k] = NewRow(d, t[kept[k]].path)
    BY DEF Remaining
  <2> HIDE DEF R
  <2>3. QED
    BY <2>1, <2>2, NewRowIsRow
<1>5. R \in Seq(TableRow) /\ Len(R) = Len(kept) /\ DOMAIN R = DOMAIN kept
  <2>1. R \in [1 .. Len(kept) -> TableRow]
    BY <1>2, <1>4 DEF Remaining
  <2>2. QED
    BY <1>2, <2>1, IsASeq
<1> HIDE DEF R
<1>6. Orderly(R)
  <2>1. ASSUME NEW i \in DOMAIN kept, NEW j \in DOMAIN kept, R[i].path = R[j].path
        PROVE  i = j
    <3>1. kept[i] = kept[j]
      BY <1>4, <2>1 DEF Orderly
    <3>2. QED
      BY <1>2, <3>1 DEF IsInjective
  <2>2. ASSUME NEW i \in DOMAIN kept, NEW j \in DOMAIN kept, i < j
        PROVE  Label[R[i].path] <= Label[R[j].path]
    <3>1. kept[i] < kept[j] /\ kept[i] \in 1 .. n /\ kept[j] \in 1 .. n
      BY <1>3, <1>4, <2>2
    <3>2. Label[t[kept[i]].path] <= Label[t[kept[j]].path]
      BY <3>1 DEF Orderly
    <3>3. QED
      BY <1>4, <3>2
  <2>3. QED
    BY <1>2, <1>5, <2>1, <2>2 DEF Orderly
<1>7. ASSUME NEW k \in DOMAIN kept PROVE R[k].path \in S /\ R[k].shown = d[R[k].path]
  BY <1>4 DEF HasRow
<1>8. ASSUME NEW p \in S PROVE \E k \in DOMAIN kept : R[k].path = p
  <2>1. PICK i \in 1 .. n : t[i].path = p
    BY DEF HasRow
  <2>2. i \in ToSet(kept)
    BY <1>2, <2>1
  <2>3. PICK k \in DOMAIN kept : kept[k] = i
    BY <2>2 DEF ToSet
  <2>4. QED
    BY <1>4, <2>1, <2>3
<1>9. QED
  BY <1>2, <1>5, <1>6, <1>7, <1>8 DEF Showing, R

\* mkMeshVPN: every peer of the report has a row then, and nobody else.
LEMMA TableShows ==
  ASSUME NEW d, Peers(d), NEW t, Orderly(t),
         NEW kept \in Staying(t, d), NEW missing \in Orders(t, d)
  PROVE  Showing(Filled(Remaining(t, d, kept), d, missing), d, DOMAIN d)
<1> DEFINE S == {p \in DOMAIN d : HasRow(t, p)}
           M == {p \in DOMAIN d : ~HasRow(t, p)}
           R == Remaining(t, d, kept)
<1>1. Showing(R, d, S)
  BY RemainingShows
<1>2. missing \in Seq(M) /\ ToSet(missing) = M /\ IsInjective(missing)
  <2>1. M \in SUBSET DOMAIN d /\ IsFiniteSet(DOMAIN d)
    BY DEF Peers
  <2>2. missing \in SetToSeqs(M)
    BY DEF Orders
  <2> HIDE DEF M
  <2>3. IsFiniteSet(M)
    BY <2>1, FS_Subset
  <2>4. QED
    BY <2>2, <2>3, Listed
<1>3. S \union M = DOMAIN d /\ S \intersect M = {}
  OBVIOUS
<1>4. S \in SUBSET DOMAIN d /\ M \in SUBSET DOMAIN d
  OBVIOUS
<1> HIDE DEF S, M, R
<1>5. missing \in Seq(DOMAIN d)
  BY <1>2, <1>4
<1>6. Showing(Filled(R, d, missing), d, S \union ToSet(missing))
  <2>1. S \intersect ToSet(missing) = {}
    BY <1>2, <1>3
  <2>2. QED
    BY <1>1, <1>2, <1>4, <1>5, <2>1, FilledShows
<1>7. QED
  BY <1>2, <1>3, <1>6 DEF R

\* A table without rows shows the report of a node that has no peers.
LEMMA EmptyTable ==
  ASSUME NEW d
  PROVE  Showing(<<>>, d, {})
<1>1. <<>> \in Seq(TableRow) /\ Len(<<>>) = 0
  OBVIOUS
<1>2. 1 .. 0 = {}
  OBVIOUS
<1>3. QED
  BY <1>1, <1>2 DEF Showing, Orderly

-----------------------------------------------------------------------------
(***************************************************************************)
(* The panel.                                                              *)
(***************************************************************************)
\* The table shows the last report, and the window the uptimes of the last two.
TableInv ==
  /\ vpn \in Vpn
  /\ heading \in BOOLEAN
  /\ heading <=> vpn # NoVpn
  /\ vpn = NoVpn => rows = <<>>
  /\ vpn # NoVpn => Peers(vpn) /\ Showing(rows, vpn, DOMAIN vpn)
UptimesInv ==
  \/ window = <<>>
  \/ \E s \in Uptime : window = <<s>>
  \/ \E s, t \in Uptime : window = <<s, t>>
StatInv == TableInv /\ UptimesInv

\* Whatever happens, the panel is made anew, left alone or gets a report.
LEMMA PanelSteps ==
  ASSUME [Next]_vars
  PROVE  NewPanel \/ UNCHANGED statVars \/ \E m \in Message : Report(m)
<1>1. CASE Ask
  BY <1>1 DEF Ask
<1>2. CASE BootstrapFails /\ UNCHANGED statVars
  BY <1>2
<1>3. ASSUME NEW a \in Address, NEW e \in DOMAIN races, Answer(e, a)
      PROVE  NewPanel \/ UNCHANGED statVars
  BY <1>3 DEF Answer
<1>4. ASSUME NEW a \in Address, Panels(a)
      PROVE  UNCHANGED statVars
  BY <1>4 DEF Panels
<1>5. ASSUME NEW a \in Address, Statistics(a)
      PROVE  \E m \in Message : Report(m)
  BY <1>5 DEF Statistics
<1>6. CASE UNCHANGED vars
  BY <1>6 DEF vars
<1>7. QED
  BY <1>1, <1>2, <1>3, <1>4, <1>5, <1>6 DEF Next

LEMMA NewPanelKeeps ==
  ASSUME NewPanel
  PROVE  StatInv'
BY DEF NewPanel, StatInv, TableInv, UptimesInv, Vpn

\* The rows after a report.
LEMMA ReportShows ==
  ASSUME TableInv, NEW m \in Message, Report(m)
  PROVE  TableInv'
<1>1. vpn' = m.vpn /\ MeshVPN(m.vpn) /\ m.vpn \in Vpn
  BY DEF Report, Vpn
<1>2. CASE m.vpn = NoVpn
  BY <1>1, <1>2 DEF MeshVPN, TableInv
<1>3. CASE m.vpn # NoVpn
  <2> DEFINE d == m.vpn
  <2>1. Peers(d)
    BY <1>3, MessagesAssumption DEF Peers
  <2>2. Orderly(rows)
    <3>1. CASE vpn = NoVpn
      BY <3>1, EmptyTable DEF TableInv, Showing
    <3>2. CASE vpn # NoVpn
      BY <3>2 DEF TableInv, Showing
    <3>3. QED
      BY <3>1, <3>2
  <2>3. PICK kept \in Staying(rows, d), missing \in Orders(rows, d) :
          rows' = Filled(Remaining(rows, d, kept), d, missing)
    BY <1>1, <1>3 DEF MeshVPN
  <2>4. heading' = TRUE
    BY <1>1, <1>3 DEF MeshVPN
  <2>5. Showing(rows', d, DOMAIN d)
    BY <2>1, <2>2, <2>3, TableShows
  <2> HIDE DEF d
  <2>6. vpn' = d /\ d \in Vpn /\ d # NoVpn
    BY <1>1, <1>3 DEF d
  <2>7. QED
    BY <2>1, <2>4, <2>5, <2>6 DEF TableInv
<1>4. QED
  BY <1>2, <1>3

\* The uptimes after a report.
LEMMA ReportSlides ==
  ASSUME UptimesInv, NEW m \in Message, Report(m)
  PROVE  UptimesInv'
<1> DEFINE u == m.uptime
<1>1. window' = Slide(window, u) /\ u \in Uptime /\ Uptime \subseteq Nat
  BY MessagesAssumption DEF Report, Uptime
<1> HIDE DEF u
<1>2. CASE window = <<>>
  <2>1. window' = <<u>>
    BY <1>1, <1>2 DEF Slide
  <2>2. QED
    BY <1>1, <2>1 DEF UptimesInv
<1>3. ASSUME NEW s \in Uptime, window = <<s>>
      PROVE  UptimesInv'
  <2>1. window' = <<s, u>>
    BY <1>1, <1>3, OneMore DEF Slide
  <2>2. QED
    BY <1>1, <2>1 DEF UptimesInv
<1>4. ASSUME NEW s \in Uptime, NEW t \in Uptime, window = <<s, t>>
      PROVE  UptimesInv'
  <2>1. window' = <<t, u>>
    BY <1>1, <1>4 DEF Slide
  <2>2. QED
    BY <1>1, <2>1 DEF UptimesInv
<1>5. QED
  BY <1>2, <1>3, <1>4 DEF UptimesInv

LEMMA PanelStepKeeps ==
  ASSUME StatInv, [Next]_vars
  PROVE  StatInv'
<1>1. CASE NewPanel
  BY <1>1, NewPanelKeeps
<1>2. CASE UNCHANGED statVars
  BY <1>2 DEF statVars, StatInv, TableInv, UptimesInv
<1>3. ASSUME NEW m \in Message, Report(m)
      PROVE  StatInv'
  BY <1>3, ReportShows, ReportSlides DEF StatInv
<1>4. QED
  BY <1>1, <1>2, <1>3, PanelSteps

LEMMA PanelAlways == Spec => []StatInv
<1>1. Init => StatInv
  BY DEF Init, StatInit, StatInv, TableInv, UptimesInv, Vpn
<1>2. StatInv /\ [Next]_vars => StatInv'
  BY PanelStepKeeps
<1>3. QED
  BY <1>1, <1>2, PTL DEF Spec

\* The table has one row for every peer of the last report, with the state reported
\* there, whatever peers came and went before (mkMeshVPN in statistics.js).
THEOREM TableIsCurrent == Spec => []RowsAreCurrent
<1>1. ASSUME TableInv PROVE RowsAreCurrent
  <2>1. heading <=> vpn # NoVpn
    BY <1>1 DEF TableInv
  <2>2. CASE vpn = NoVpn
    <3>1. Len(rows) = 0 /\ 1 .. 0 = {}
      BY <1>1, <2>2 DEF TableInv
    <3>2. QED
      BY <2>1, <2>2, <3>1 DEF RowsAreCurrent
  <2>3. CASE vpn # NoVpn
    <3>1. Showing(rows, vpn, DOMAIN vpn) /\ Peers(vpn)
      BY <1>1, <2>3 DEF TableInv
    <3>2. \A i \in 1 .. Len(rows) : rows[i] \in TableRow
      BY <3>1, ElementOfSeq DEF Showing, Orderly
    <3>3. \A i \in 1 .. Len(rows) :
            /\ rows[i].path \in DOMAIN vpn
            /\ rows[i] = [path |-> rows[i].path, shown |-> vpn[rows[i].path]]
      BY <3>1, <3>2 DEF Showing, TableRow
    <3>4. \A p \in DOMAIN vpn : \E i \in 1 .. Len(rows) :
            rows[i] = [path |-> p, shown |-> vpn[p]]
      BY <3>1, <3>3 DEF Showing
    <3>5. {rows[i] : i \in 1 .. Len(rows)} = {[path |-> p, shown |-> vpn[p]] : p \in DOMAIN vpn}
      <4> DEFINE Cell(p) == [path |-> p, shown |-> vpn[p]]
      <4>1. \A i \in 1 .. Len(rows) : rows[i].path \in DOMAIN vpn /\ rows[i] = Cell(rows[i].path)
        BY <3>3
      <4>2. \A p \in DOMAIN vpn : \E i \in 1 .. Len(rows) : rows[i] = Cell(p)
        BY <3>4
      <4> HIDE DEF Cell
      <4>3. {rows[i] : i \in 1 .. Len(rows)} = {Cell(p) : p \in DOMAIN vpn}
        BY <4>1, <4>2
      <4>4. QED
        BY <4>3 DEF Cell
    <3>6. \A i, j \in 1 .. Len(rows) : rows[i].path = rows[j].path => i = j
      BY <3>1 DEF Showing, Orderly
    <3>7. QED
      BY <2>1, <2>3, <3>5, <3>6 DEF RowsAreCurrent
  <2>4. QED
    BY <2>2, <2>3
<1>2. StatInv => RowsAreCurrent
  BY <1>1 DEF StatInv
<1>3. QED
  BY <1>2, PanelAlways, PTL

\* The rows stay in the order of their labels, whatever order peers come and go in and
\* a report lists them in (mkRow in statistics.js).
THEOREM TableIsSorted == Spec => []RowsAreSorted
<1>1. ASSUME TableInv PROVE RowsAreSorted
  <2>1. CASE vpn = NoVpn
    <3>1. Len(rows) = 0 /\ 1 .. 0 = {}
      BY <1>1, <2>1 DEF TableInv
    <3>2. QED
      BY <3>1 DEF RowsAreSorted
  <2>2. CASE vpn # NoVpn
    BY <1>1, <2>2 DEF TableInv, Showing, Orderly, RowsAreSorted
  <2>3. QED
    BY <2>1, <2>2
<1>2. StatInv => RowsAreSorted
  BY <1>1 DEF StatInv
<1>3. QED
  BY <1>2, PanelAlways, PTL

-----------------------------------------------------------------------------
(***************************************************************************)
(* The types of the page.                                                  *)
(***************************************************************************)
\* Only the page's own node can be gone to once more than the user may: the bound on
\* gotoEpoch needs that this happens once.
EpochInv ==
  /\ gotoEpoch \in 0 .. MaxPicks + 1
  /\ bootstrap = "pending" => gotoEpoch <= MaxPicks
ListInv ==
  /\ lsavailable \in BOOLEAN /\ garbled \in BOOLEAN
  /\ stored \subseteq Node /\ nodes \subseteq Node
  /\ bootstrap \in {"pending", "done", "failed"}
  /\ reloads \in 0 .. MaxReloads
Race == [node : Node, open : SUBSET Address]
OpenInv == \A e \in DOMAIN races : e # 0 /\ races[e] \in Race /\ races[e].open # {}
Connected == [kind : ConnectionKind, ip : Address]
ConnectionsInv == connections \subseteq Connected

\* Each changes with few of the others, and needs little of what the page shows.
TypesInv == EpochInv /\ ListInv /\ OpenInv /\ ConnectionsInv

LEMMA ConnectionTypes ==
  ASSUME NEW a \in Address
  PROVE  \A k \in ConnectionKind : Connection(k, a) \in Connected
BY DEF Connection, Connected

LEMMA GotoTypes ==
  ASSUME PageInv, TypesInv, NEW n \in Node, Goto(n)
  PROVE  OpenInv' /\ ConnectionsInv' /\ garbled' \in BOOLEAN /\ gotoEpoch' = gotoEpoch + 1
<1>1. garbled' \in BOOLEAN /\ gotoEpoch' = gotoEpoch + 1
  BY DEF Goto
<1>2. ConnectionsInv'
  BY DEF Goto, Kept, TypesInv, ConnectionsInv
<1>3. OpenInv'
  <2>1. CASE Addresses[n] = {}
    BY <2>1 DEF Goto, TypesInv, OpenInv
  <2>2. CASE Addresses[n] # {}
    <3>1. /\ DOMAIN races' = DOMAIN races \union {gotoEpoch + 1}
          /\ races'[gotoEpoch + 1] = [node |-> n, open |-> Addresses[n]]
          /\ \A d \in DOMAIN races \ {gotoEpoch + 1} : races'[d] = races[d]
      BY <2>2, RaceStarts DEF Goto, RaceEpoch
    <3>2. gotoEpoch + 1 # 0
      BY DEF PageInv, RaceInv
    <3>3. races'[gotoEpoch + 1] \in Race /\ races'[gotoEpoch + 1].open # {}
      <4>1. Addresses[n] \in SUBSET Address
        BY DEF Address
      <4>2. QED
        BY <2>2, <3>1, <4>1 DEF Race
    <3>4. QED
      BY <3>1, <3>2, <3>3 DEF TypesInv, OpenInv
  <2>3. QED
    BY <2>1, <2>2
<1>4. QED
  BY <1>1, <1>2, <1>3

LEMMA AskTypes ==
  ASSUME PageInv, TypesInv, Ask
  PROVE  TypesInv'
<1> USE BoundsAssumption
<1>1. CASE \E n \in Node : Pick(n)
  <2>1. PICK n \in Node : Pick(n)
    BY <1>1
  <2>2. OpenInv' /\ ConnectionsInv' /\ garbled' \in BOOLEAN /\ gotoEpoch' = gotoEpoch + 1
    BY <2>1, GotoTypes DEF Pick
  <2>3. gotoEpoch < MaxPicks /\ UNCHANGED <<store, bootstrap, reloads>>
    BY <2>1 DEF Pick
  <2>4. EpochInv'
    BY <2>2, <2>3 DEF TypesInv, EpochInv
  <2>5. ListInv'
    BY <2>2, <2>3 DEF TypesInv, ListInv, store
  <2>6. QED
    BY <2>2, <2>4, <2>5 DEF TypesInv
<1>2. CASE Bootstrapped
  <2>1. OpenInv' /\ ConnectionsInv' /\ garbled' \in BOOLEAN /\ gotoEpoch' = gotoEpoch + 1
    BY <1>2, GotoTypes, NodesAssumption DEF Bootstrapped
  <2>2. /\ bootstrap = "pending" /\ bootstrap' = "done" /\ reloads' = reloads
        /\ KnownNodes(nodes \union {BootNode})
    BY <1>2 DEF Bootstrapped
  <2>3. EpochInv'
    BY <2>1, <2>2 DEF TypesInv, EpochInv
  <2>4. ListInv'
    BY <2>1, <2>2, NodesAssumption DEF TypesInv, ListInv, KnownNodes
  <2>5. QED
    BY <2>1, <2>3, <2>4 DEF TypesInv
<1>3. CASE Reload
  <2>1. /\ gotoEpoch' = 0 /\ DOMAIN races' = {} /\ garbled' = FALSE /\ connections' = {}
        /\ bootstrap' = "pending" /\ reloads < MaxReloads /\ reloads' = reloads + 1
    BY <1>3 DEF Reload, EmptyPage, NoRaces
  <2>2. lsavailable' = lsavailable /\ stored' \subseteq Node /\ nodes' \subseteq Node
    BY <1>3 DEF Reload, Loaded, TypesInv, ListInv
  <2>3. ListInv'
    <3>1. lsavailable' \in BOOLEAN /\ garbled' \in BOOLEAN
      BY <2>1, <2>2, Zenon DEF TypesInv, ListInv
    <3>2. reloads' \in 0 .. MaxReloads
      BY <2>1 DEF TypesInv, ListInv
    <3>3. QED
      BY <2>1, <2>2, <3>1, <3>2, Zenon DEF ListInv
  <2>4. QED
    BY <2>1, <2>3 DEF TypesInv, EpochInv, OpenInv, ConnectionsInv
<1>4. QED
  BY <1>1, <1>2, <1>3 DEF Ask

\* A race that is decided or loses a request, but not its last one.
LEMMA RaceTypes ==
  ASSUME OpenInv, NEW e \in DOMAIN races, NEW a,
         races' = Without(e) \/ (races' = [races EXCEPT ![e].open = @ \ {a}]
                                 /\ a \in races[e].open /\ races[e].open # {a})
  PROVE  OpenInv'
<1>1. CASE races' = Without(e)
  BY <1>1, WithoutRace DEF OpenInv
<1>2. CASE /\ races' = [races EXCEPT ![e].open = @ \ {a}]
           /\ a \in races[e].open /\ races[e].open # {a}
  <2>1. /\ DOMAIN races' = DOMAIN races
        /\ \A d \in DOMAIN races \ {e} : races'[d] = races[d]
        /\ races'[e] = [races[e] EXCEPT !.open = races[e].open \ {a}]
    BY <1>2
  <2>2. races[e] \in Race
    BY DEF OpenInv
  <2>3. races'[e].open = races[e].open \ {a} /\ races'[e] \in Race
    BY <2>1, <2>2 DEF Race
  <2>4. races'[e].open # {}
    BY <1>2, <2>3
  <2>5. QED
    BY <2>1, <2>3, <2>4 DEF OpenInv
<1>3. QED
  BY <1>1, <1>2

LEMMA AnswerTypes ==
  ASSUME TypesInv, NEW e \in DOMAIN races, NEW a \in Address, Answer(e, a)
  PROVE  TypesInv'
<1>1. /\ UNCHANGED <<gotoEpoch, bootstrap, reloads, lsavailable, stored, nodes>>
      /\ garbled \in BOOLEAN => garbled' \in BOOLEAN
  BY DEF Answer, Arrive, ArriveLate, RequestFails, Garble, store, OnEpoch
<1>2. EpochInv' /\ ListInv'
  BY <1>1 DEF TypesInv, EpochInv, ListInv
<1>3. ConnectionsInv'
  <2>1. \/ connections' = connections
        \/ connections' = connections \union {Connection("statistics", a), Connection("interfaces", a)}
    BY DEF Answer, Arrive, ArriveLate, RequestFails, Garble
  <2>2. QED
    BY <2>1, ConnectionTypes DEF TypesInv, ConnectionsInv, ConnectionKind
<1>4. OpenInv'
  <2>1. \/ races' = Without(e)
        \/ /\ races' = [races EXCEPT ![e].open = @ \ {a}]
           /\ a \in races[e].open /\ races[e].open # {a}
    BY DEF Answer, Arrive, ArriveLate, RequestFails, Garble, Open
  <2>2. QED
    BY <2>1, RaceTypes DEF TypesInv
<1>5. QED
  BY <1>2, <1>3, <1>4 DEF TypesInv

LEMMA PanelsTypes ==
  ASSUME TypesInv, NEW a \in Address, Panels(a)
  PROVE  TypesInv'
<1>1. UNCHANGED <<gotoEpoch, races, garbled, bootstrap, reloads, lsavailable>>
  BY DEF Panels, Interfaces, InterfacesFail, AskAgain, Hear, EndOfTransmission, store, page,
         KnownNodes
<1>2. stored' \subseteq Node /\ nodes' \subseteq Node
  <2>1. CASE \E n \in Node : Hear(a, n)
    BY <2>1 DEF Hear, KnownNodes, TypesInv, ListInv
  <2>2. CASE Interfaces(a) \/ InterfacesFail(a) \/ AskAgain(a) \/ EndOfTransmission(a)
    BY <2>2 DEF Interfaces, InterfacesFail, AskAgain, EndOfTransmission, store, TypesInv, ListInv
  <2>3. QED
    BY <2>1, <2>2 DEF Panels
<1>3. ConnectionsInv'
  <2>1. connections' \subseteq
          connections \union {Connection("neighbours", a), Connection("nodeinfo", a)}
    BY DEF Panels, Interfaces, InterfacesFail, AskAgain, Hear, EndOfTransmission, page
  <2>2. QED
    BY <2>1, ConnectionTypes DEF TypesInv, ConnectionsInv, ConnectionKind
<1>4. QED
  BY <1>1, <1>2, <1>3 DEF TypesInv, EpochInv, ListInv, OpenInv

\* A page that is left as it is.
LEMMA SameTypes ==
  ASSUME TypesInv, UNCHANGED navVars
  PROVE  TypesInv'
BY DEF navVars, store, page, TypesInv, EpochInv, ListInv, OpenInv, ConnectionsInv

LEMMA StepTypes ==
  ASSUME PageInv, TypesInv, [Next]_vars
  PROVE  TypesInv'
<1>1. CASE Ask
  BY <1>1, AskTypes
<1>2. CASE BootstrapFails
  BY <1>2 DEF BootstrapFails, store, page, TypesInv, EpochInv, ListInv, OpenInv, ConnectionsInv
<1>3. ASSUME NEW a \in Address, NEW e \in DOMAIN races, Answer(e, a)
      PROVE  TypesInv'
  BY <1>3, AnswerTypes
<1>4. ASSUME NEW a \in Address, Panels(a)
      PROVE  TypesInv'
  BY <1>4, PanelsTypes
<1>5. ASSUME NEW a \in Address, Statistics(a)
      PROVE  TypesInv'
  BY <1>5, SameTypes DEF Statistics
<1>6. CASE UNCHANGED vars
  BY <1>6, SameTypes DEF vars
<1>7. QED
  BY <1>1, <1>2, <1>3, <1>4, <1>5, <1>6 DEF Next

\* Every variable of the page has its type: no race is for an epoch that has not been,
\* none is open without a request, and the page goes to no more nodes than it is told to.
THEOREM PageTypeCorrect == Spec => []TypeOK
<1>1. ASSUME NavInit PROVE TypesInv
  <2>1. EpochInv
    <3>1. gotoEpoch = 0 /\ MaxPicks \in Nat
      BY <1>1, BoundsAssumption DEF NavInit
    <3>2. QED
      BY <3>1 DEF EpochInv
  <2>2. lsavailable \in BOOLEAN /\ garbled \in BOOLEAN
    BY <1>1, Zenon DEF NavInit
  <2>3. ListInv
    <3>1. /\ stored = {} /\ nodes = {} /\ bootstrap = "pending"
          /\ reloads = 0 /\ MaxReloads \in Nat
      BY <1>1, BoundsAssumption DEF NavInit
    <3>2. reloads \in 0 .. MaxReloads
      BY <3>1
    <3>3. QED
      BY <2>2, <3>1, <3>2, Zenon DEF ListInv
  <2>4. OpenInv /\ ConnectionsInv
    BY <1>1 DEF NavInit, NoRaces, OpenInv, ConnectionsInv
  <2>5. QED
    BY <2>1, <2>3, <2>4 DEF TypesInv
<1>2. PageInv /\ TypesInv /\ [Next]_vars => TypesInv'
  BY StepTypes
<1>3. ASSUME PageInv, TypesInv PROVE NavTypeOK
  <2>1. DOMAIN races \subseteq 1 .. gotoEpoch
    BY <1>3 DEF PageInv, RaceInv, TypesInv, OpenInv
  <2>2. \A e \in DOMAIN races :
          /\ races[e].node \in Node
          /\ races[e].open \subseteq Addresses[races[e].node] /\ races[e].open # {}
    BY <1>3 DEF PageInv, RaceInv, TypesInv, OpenInv
  <2>3. panels \in Seq([kind : PanelKind, node : Node])
    <3>1. CASE title = NoNode
      BY <1>3, <3>1 DEF PageInv, PageIsWhole
    <3>2. CASE title # NoNode
      <4>1. title \in Node
        BY <1>3, <3>2 DEF PageInv, TitleInv
      <4> DEFINE P == [kind : PanelKind, node : Node]
                 o == Panel("nodeinfo", title)
                 s == Panel("statistics", title)
                 n == Panel("neighbours", title)
      <4>2. o \in P /\ s \in P /\ n \in P
        BY <4>1 DEF Panel, PanelKind
      <4>3. panels = <<o>> \o (IF icon = "" THEN <<s, n>> ELSE <<>>)
        BY <1>3, <3>2 DEF PageInv, PageIsWhole
      <4> HIDE DEF P, o, s, n
      <4>4. <<o>> \in Seq(P) /\ <<s, n>> \in Seq(P) /\ <<>> \in Seq(P)
        BY <4>2
      <4>5. panels \in Seq(P)
        BY <4>3, <4>4, ConcatPlaces
      <4>6. QED
        BY <4>5 DEF P
    <3>3. QED
      BY <3>1, <3>2
  <2>4. QED
    BY <1>3, <2>1, <2>2, <2>3
       DEF PageInv, TitleInv, TypesInv, EpochInv, ListInv, ConnectionsInv, Connected, NavTypeOK
<1>4. ASSUME StatInv PROVE StatTypeOK
  <2>1. window \in Seq(Uptime) /\ Len(window) <= 2
    <3>1. CASE window = <<>>
      BY <3>1
    <3>2. ASSUME NEW u \in Uptime, window = <<u>>
          PROVE  window \in Seq(Uptime) /\ Len(window) <= 2
      BY <3>2
    <3>3. ASSUME NEW u \in Uptime, NEW v \in Uptime, window = <<u, v>>
          PROVE  window \in Seq(Uptime) /\ Len(window) <= 2
      BY <3>3
    <3>4. QED
      BY <1>4, <3>1, <3>2, <3>3 DEF StatInv, UptimesInv
  <2>2. rows \in Seq([path : Path, shown : Status])
    <3>1. CASE vpn = NoVpn
      BY <1>4, <3>1 DEF StatInv, TableInv
    <3>2. CASE vpn # NoVpn
      <4>1. rows \in Seq(TableRow)
        BY <1>4, <3>2 DEF StatInv, TableInv, Showing, Orderly
      <4>2. QED
        BY <4>1 DEF TableRow
    <3>3. QED
      BY <3>1, <3>2
  <2>3. QED
    BY <1>4, <2>1, <2>2 DEF StatInv, TableInv, StatTypeOK
<1>5. PageInv /\ TypesInv /\ StatInv => TypeOK
  BY <1>3, <1>4 DEF TypeOK
<1>6. Init => TypesInv
  BY <1>1 DEF Init
<1>7. QED
  BY <1>2, <1>5, <1>6, Invariance, PanelAlways, PTL DEF Spec

=============================================================================
