-------------------------- MODULE NeighboursProofs --------------------------
(***************************************************************************)
(* Theorems about Neighbours, for every set of interfaces, stations and    *)
(* colours: the types, who listens, and where the colours are.             *)
(***************************************************************************)
EXTENDS Neighbours, ListTheorems

Row == [color : Colour \union {NoColour}, name : Name]

(***************************************************************************)
(* One table's colours: c is the colour of one row or is in one place of   *)
(* the pool.                                                               *)
(***************************************************************************)
Unique(R, P, c) ==
  /\ \A s, t \in DOMAIN R : R[s].color = c /\ R[t].color = c => s = t
  /\ Once(P, c)
  /\ (\E s \in DOMAIN R : R[s].color = c) <=> ~Holds(P, c)

\* What TypeOK says of the table of i.
TableTypeOK(i) ==
  /\ DOMAIN rows[i] \subseteq StationOn[i]
  /\ rows[i] \in [DOMAIN rows[i] -> Row]
  /\ colors[i] \in Seq(Colour \union {NoColour})

\* Interface.update of one table, which loses no colour and gives none twice.
LEMMA Recolour ==
  ASSUME NEW i \in Ifname, TableTypeOK(i),
         NEW S \in SUBSET StationOn[i], NEW known,
         NEW new \in SetToSeqs(S \ DOMAIN rows[i]),
         NEW gone \in SetToSeqs(DOMAIN rows[i] \ S)
  PROVE  LET R == RowsAfter(i, S, known, new)
             Q == PoolAfter(i, new, gone)
         IN  /\ R \in [S -> Row] /\ DOMAIN R = S
             /\ Q \in Seq(Colour \union {NoColour})
             /\ \A c \in Colour : Unique(rows[i], colors[i], c) => Unique(R, Q, c)
<1> DEFINE D == DOMAIN rows[i]
           P == colors[i]
           G == Pushed(i, gone)
           X == Colour \union {NoColour}
           R == RowsAfter(i, S, known, new)
           T == SubSeq(P, Len(new) + 1, Len(P))
<1>1. IsFiniteSet(S) /\ IsFiniteSet(D)
  <2>1. IsFiniteSet(StationOn[i])
    BY InterfacesAssumption
  <2>2. S \subseteq StationOn[i] /\ D \subseteq StationOn[i]
    BY DEF TableTypeOK
  <2>3. QED
    BY <2>1, <2>2, FS_Subset
<1>2. /\ new \in Seq(S \ D) /\ ToSet(new) = S \ D /\ IsInjective(new)
      /\ DOMAIN new = 1 .. Len(new) /\ Len(new) \in Nat
  <2>1. IsFiniteSet(S \ D)
    BY <1>1, FS_Difference
  <2>2. QED
    BY <2>1, Listed
<1>3. /\ gone \in Seq(D \ S) /\ ToSet(gone) = D \ S /\ IsInjective(gone)
      /\ DOMAIN gone = 1 .. Len(gone) /\ Len(gone) \in Nat
  <2>1. IsFiniteSet(D \ S)
    BY <1>1, FS_Difference
  <2>2. QED
    BY <2>1, Listed
<1>4. P \in Seq(X) /\ Len(P) \in Nat /\ DOMAIN P = 1 .. Len(P)
  BY LenProperties DEF TableTypeOK
<1>5. \A s \in D : rows[i][s] \in Row /\ rows[i][s].color \in X
  BY DEF TableTypeOK, Row
<1>6. \A k \in DOMAIN gone : gone[k] \in D \ S
  BY <1>3, ElementOfSeq
<1>7. /\ G \in Seq(X) /\ DOMAIN G = DOMAIN gone
      /\ \A k \in DOMAIN gone : G[k] = rows[i][gone[k]].color
  <2>1. G \in [1 .. Len(gone) -> X]
    BY <1>3, <1>5, <1>6 DEF Pushed
  <2>2. QED
    BY <1>3, <2>1, IsASeq DEF Pushed
<1>8. ASSUME NEW c
      PROVE  /\ T \in Seq(X)
             /\ Holds(T, c) <=> \E k \in DOMAIN P : ~(k <= Len(new)) /\ P[k] = c
             /\ Once(P, c) => Once(T, c)
  BY <1>2, <1>4, ShiftKeeps
<1> HIDE DEF T, G, P, X
<1>9. \A k \in DOMAIN new : (CHOOSE j \in DOMAIN new : new[j] = new[k]) = k
  <2>1. SUFFICES ASSUME NEW k \in DOMAIN new
                 PROVE  (CHOOSE j \in DOMAIN new : new[j] = new[k]) = k
    OBVIOUS
  <2>2. \A j \in DOMAIN new : new[j] = new[k] => j = k
    BY <1>2 DEF IsInjective
  <2>3. QED
    BY <2>2
<1>10. \A k \in DOMAIN new : Shifted(P, k) \in X
  BY <1>2, <1>4, ElementOfSeq DEF Shifted, X
<1>11. \A s \in S \ D : \E k \in DOMAIN new : new[k] = s
  BY <1>2 DEF ToSet
<1>12. \A k \in DOMAIN new :
         /\ new[k] \in S \ D
         /\ R[new[k]] \in Row /\ R[new[k]].color = Shifted(P, k)
  <2>1. SUFFICES ASSUME NEW k \in DOMAIN new
                 PROVE  /\ new[k] \in S \ D
                        /\ R[new[k]] \in Row /\ R[new[k]].color = Shifted(P, k)
    OBVIOUS
  <2>2. new[k] \in S \ D
    BY <1>2, ElementOfSeq
  <2>3. R[new[k]] = NewRow(P, new, new[k])
    BY <2>2 DEF RowsAfter, RowAfter, P
  <2>4. R[new[k]] = [color |-> Shifted(P, k), name |-> ""]
    BY <1>9, <2>3 DEF NewRow
  <2>5. /\ [color |-> Shifted(P, k), name |-> ""] \in Row
        /\ [color |-> Shifted(P, k), name |-> ""].color = Shifted(P, k)
    BY <1>10 DEF Row, Name, X
  <2>6. QED
    BY <2>2, <2>4, <2>5
<1>13. \A s \in S \intersect D : R[s] \in Row /\ R[s].color = rows[i][s].color
  <2>1. SUFFICES ASSUME NEW s \in S \intersect D
                 PROVE  R[s] \in Row /\ R[s].color = rows[i][s].color
    OBVIOUS
  <2>2. R[s] = Named(rows[i][s], s \in known)
    BY DEF RowsAfter, RowAfter
  <2>3. rows[i][s] \in [color : X, name : Name]
    BY <1>5 DEF Row, X
  <2>4. QED
    BY <2>2, <2>3 DEF Named, Row, Name, X
<1>14. DOMAIN R = S /\ R \in [S -> Row]
  <2>1. \A s \in S : R[s] \in Row
    BY <1>11, <1>12, <1>13
  <2>2. QED
    BY <2>1 DEF RowsAfter
<1> HIDE DEF R
<1>15. ASSUME NEW c \in Colour, Unique(rows[i], P, c)
       PROVE  Unique(R, T \o G, c)
  <2>1. c # NoColour
    BY ColoursAssumption
  <2>2. /\ \A s, t \in D : rows[i][s].color = c /\ rows[i][t].color = c => s = t
        /\ Once(P, c)
        /\ (\E s \in D : rows[i][s].color = c) <=> ~Holds(P, c)
    BY <1>15 DEF Unique
  <2>3. \A k \in DOMAIN new : R[new[k]].color = c <=> k \in DOMAIN P /\ P[k] = c
    BY <1>12, <2>1 DEF Shifted
  <2>4. \A k \in DOMAIN P : k <= Len(new) => k \in DOMAIN new
    BY <1>2, <1>4
  <2>5. \A k \in DOMAIN new : k <= Len(new)
    BY <1>2
  <2>6. Holds(G, c) <=> \E s \in D \ S : rows[i][s].color = c
    BY <1>3, <1>6, <1>7 DEF Holds, ToSet
  <2>7. Once(G, c)
    BY <1>3, <1>6, <1>7, <2>2 DEF Once, IsInjective
  <2>8. ~(Holds(T, c) /\ Holds(G, c))
    BY <1>8, <2>2, <2>6 DEF Holds
  <2>9. /\ Once(T \o G, c)
        /\ Holds(T \o G, c) <=> Holds(T, c) \/ Holds(G, c)
    BY <1>7, <1>8, <2>2, <2>7, <2>8, PushKeeps
  <2>10. \A s, t \in S : R[s].color = c /\ R[t].color = c => s = t
    BY <1>11, <1>13, <2>2, <2>3 DEF Holds, Once
  <2>11. (\E s \in S : R[s].color = c) <=> ~(Holds(T, c) \/ Holds(G, c))
    <3>1. CASE Holds(P, c)
      <4>1. PICK k \in DOMAIN P : P[k] = c
        BY <3>1 DEF Holds
      <4>2. /\ ~Holds(G, c) /\ ~(\E s \in D : rows[i][s].color = c)
            /\ \A j \in DOMAIN P : P[j] = c => j = k
        BY <2>2, <2>6, <3>1, <4>1 DEF Once
      <4>3. Holds(T, c) <=> ~(k <= Len(new))
        BY <1>8, <4>1, <4>2
      <4>4. (\E s \in S : R[s].color = c) <=> k \in DOMAIN new
        BY <1>11, <1>12, <1>13, <2>3, <4>1, <4>2
      <4>5. QED
        BY <2>4, <2>5, <4>1, <4>2, <4>3, <4>4
    <3>2. CASE ~Holds(P, c)
      BY <1>8, <1>11, <1>13, <2>2, <2>3, <2>6, <3>2 DEF Holds
    <3>3. QED
      BY <3>1, <3>2
  <2>12. QED
    BY <1>14, <2>9, <2>10, <2>11 DEF Unique
<1>16. PoolAfter(i, new, gone) = T \o G /\ T \o G \in Seq(X)
  BY <1>7, <1>8, PushKeeps DEF PoolAfter, T, G, P
<1>17. QED
  BY <1>14, <1>15, <1>16 DEF P, R, X

(***************************************************************************)
(* The inductive invariant: a table that is not there has no rows and all  *)
(* its colours, and every table has every colour once.                     *)
(***************************************************************************)
Untouched ==
  \A i \in Ifname : i \notin ToSet(children) => rows[i] = NoRows /\ colors[i] = Colours
EveryColourOnce ==
  \A i \in Ifname : \A c \in Colour : Unique(rows[i], colors[i], c)
PanelInv == TypeOK /\ Untouched /\ EveryColourOnce /\ OnlyTheVisibleListen

\* A new table: no rows, and all the colours.
LEMMA NewTable ==
  /\ DOMAIN NoRows = {} /\ NoRows \in [{} -> Row]
  /\ Colours \in Seq(Colour \union {NoColour})
  /\ \A c \in Colour : Unique(NoRows, Colours, c)
<1>1. DOMAIN NoRows = {} /\ NoRows \in [{} -> Row]
  BY DEF NoRows
<1>2. Colours \in Seq(Colour \union {NoColour})
  <2>1. \A k \in 1 .. Len(Colours) : Colours[k] \in Colour
    BY ColoursAssumption, ElementOfSeq
  <2>2. Len(Colours) \in Nat /\ Colours \in [1 .. Len(Colours) -> Colour]
    BY ColoursAssumption, LenProperties
  <2>3. Colours \in [1 .. Len(Colours) -> Colour \union {NoColour}]
    BY <2>1, <2>2
  <2>4. QED
    BY <2>2, <2>3, IsASeq
<1>3. \A c \in Colour : Unique(NoRows, Colours, c)
  BY <1>1, ColoursAssumption DEF Unique, Holds, Once, ToSet, IsInjective
<1>4. QED
  BY <1>1, <1>2, <1>3

\* What a report of both sources is.
Report(w, b) ==
  /\ DOMAIN w = Ifname /\ DOMAIN b = Ifname
  /\ \A i \in Ifname :
       /\ w[i] = Silent \/ (i \in Wireless /\ w[i] \subseteq StationOn[i])
       /\ b[i] \subseteq StationOn[i]

LEMMA Combined ==
  ASSUME StreamTypeOK, NEW w, NEW b, Report(w, b), NEW ms \in SUBSET Station,
         Combine(w, b, ms)
  PROVE  StreamTypeOK'
<1>1. /\ wifi' = w /\ batadv' = b /\ macs' = ms
      /\ asked' \subseteq Ifname /\ querying' \subseteq Ifname
  BY DEF Combine, StreamTypeOK, Interfaces
<1>2. QED
  BY <1>1 DEF StreamTypeOK, Report

LEMMA StationsOfReport ==
  ASSUME NEW w, NEW b, Report(w, b), NEW i \in Ifname
  PROVE  Stations(w, b, i) \subseteq StationOn[i] /\ StationOn[i] \subseteq Station
BY DEF Report, Stations, Station

\* The subscriptions of the panel, a table and a row are different ones.
LEMMA Subscriptions ==
  /\ \A i : Table(i) # Panel
  /\ \A i, j : Table(i) = Table(j) => i = j
  /\ \A i, s : Panel \notin Views(i, s)
  /\ \A i, j, s : Table(i) \notin Views(j, s)
  /\ \A i, j, s, t, x : x \in Views(i, s) /\ x \in Views(j, t) => i = j /\ s = t
<1>1. \A i : Table(i) # Panel
  BY DEF Table, Panel
<1>2. \A i, j : Table(i) = Table(j) => i = j
  BY DEF Table
<1>3. \A i, s : Panel \notin Views(i, s)
  BY DEF Panel, Views
<1>4. \A i, j, s : Table(i) \notin Views(j, s)
  BY DEF Table, Views
<1>5. \A i, j, s, t, x : x \in Views(i, s) /\ x \in Views(j, t) => i = j /\ s = t
  BY DEF Views
<1>6. QED
  BY <1>1, <1>2, <1>3, <1>4, <1>5

\* One event of the stream.
LEMMA Delivered ==
  ASSUME PanelInv, shown, NEW w, NEW b, Report(w, b), NEW known, Deliver(w, b, known)
  PROVE  /\ shown' = shown
         /\ children' \in Seq(Ifname) /\ IsInjective(children')
         /\ heard' \subseteq ToSet(children')
         /\ DOMAIN rows' = Ifname /\ DOMAIN colors' = Ifname
         /\ \A i \in Ifname : TableTypeOK(i)'
         /\ Untouched' /\ EveryColourOnce' /\ OnlyTheVisibleListen'
<1> DEFINE present == Interfaces(w, b)
           C == ToSet(children)
           left == C \ present
           fresh == Missing(present)
<1>1. PICK reached \in Reached(present), added \in SetToSeqs(fresh),
           kept \in SetToSeqs(C \intersect present) :
        /\ children' = kept \o added
        /\ \E new \in Listings([i \in reached |-> Stations(w, b, i) \ DOMAIN rows[i]]),
              gone \in Listings([i \in reached |-> DOMAIN rows[i] \ Stations(w, b, i)]) :
             UpdateTables(w, b, known, reached, new, gone)
        /\ UNCHANGED shown
  BY Zenon DEF Deliver
<1>2. PICK new \in Listings([i \in reached |-> Stations(w, b, i) \ DOMAIN rows[i]]),
           gone \in Listings([i \in reached |-> DOMAIN rows[i] \ Stations(w, b, i)]) :
        UpdateTables(w, b, known, reached, new, gone)
  BY <1>1
<1>3. reached \subseteq C \intersect present
  BY DEF Reached
<1>4. C \subseteq Ifname /\ present \subseteq Ifname /\ fresh = present \ C
  <2>1. C \subseteq Ifname
    BY ElementOfSeq, LenProperties DEF PanelInv, TypeOK, ToSet
  <2>2. QED
    BY <2>1 DEF Interfaces, Missing
<1>5. /\ children' \in Seq(Ifname) /\ IsInjective(children')
      /\ ToSet(children') = present
  <2>1. IsFiniteSet(C \intersect present) /\ IsFiniteSet(fresh)
    BY <1>4, FS_Subset, InterfacesAssumption
  <2>2. /\ kept \in Seq(C \intersect present) /\ ToSet(kept) = C \intersect present
        /\ IsInjective(kept)
    BY <2>1, Listed
  <2>3. added \in Seq(fresh) /\ ToSet(added) = fresh /\ IsInjective(added)
    BY <2>1, Listed
  <2>4. kept \in Seq(Ifname) /\ added \in Seq(Ifname)
    BY <1>4, <2>2, <2>3, SeqMonotonic
  <2>5. ToSet(kept) \intersect ToSet(added) = {}
    BY <1>4, <2>2, <2>3
  <2>6. /\ kept \o added \in Seq(Ifname) /\ IsInjective(kept \o added)
        /\ ToSet(kept \o added) = ToSet(kept) \union ToSet(added)
    BY <2>2, <2>3, <2>4, <2>5, Concatenated
  <2>7. ToSet(kept) \union ToSet(added) = present
    BY <1>4, <2>2, <2>3
  <2>8. QED
    BY <1>1, <2>6, <2>7
<1>6. \A i \in Ifname : /\ TableTypeOK(i)
                        /\ \A c \in Colour : Unique(rows[i], colors[i], c)
                        /\ Stations(w, b, i) \subseteq StationOn[i]
                        /\ StationOn[i] \subseteq Station
  BY StationsOfReport DEF PanelInv, TypeOK, TableTypeOK, EveryColourOnce, Row
<1>7. ASSUME NEW i \in reached
      PROVE  /\ rows'[i] \in [DOMAIN rows'[i] -> Row]
             /\ DOMAIN rows'[i] = Stations(w, b, i)
             /\ colors'[i] \in Seq(Colour \union {NoColour})
             /\ \A c \in Colour : Unique(rows'[i], colors'[i], c)
  <2>1. i \in Ifname
    BY <1>3, <1>4, <1>7
  <2>2. /\ new[i] \in SetToSeqs(Stations(w, b, i) \ DOMAIN rows[i])
        /\ gone[i] \in SetToSeqs(DOMAIN rows[i] \ Stations(w, b, i))
    BY <1>7 DEF Listings
  <2>3. /\ rows'[i] = RowsAfter(i, Stations(w, b, i), known, new[i])
        /\ colors'[i] = PoolAfter(i, new[i], gone[i])
    BY <1>2, <1>7, <2>1 DEF UpdateTables
  <2>4. Stations(w, b, i) \in SUBSET StationOn[i]
    BY <1>6, <2>1
  <2>5. LET R == RowsAfter(i, Stations(w, b, i), known, new[i])
            Q == PoolAfter(i, new[i], gone[i])
        IN  /\ R \in [Stations(w, b, i) -> Row] /\ DOMAIN R = Stations(w, b, i)
            /\ Q \in Seq(Colour \union {NoColour})
            /\ \A c \in Colour : Unique(rows[i], colors[i], c) => Unique(R, Q, c)
    BY <1>6, <2>1, <2>2, <2>4, Recolour
  <2>6. QED
    BY <1>6, <2>1, <2>3, <2>5
<1>8. ASSUME NEW i \in left
      PROVE  rows'[i] = NoRows /\ colors'[i] = Colours
  BY <1>2, <1>3, <1>4, <1>8 DEF UpdateTables
<1>9. ASSUME NEW i \in Ifname, i \notin left, i \notin reached
      PROVE  rows'[i] = rows[i] /\ colors'[i] = colors[i]
  BY <1>2, <1>9 DEF UpdateTables
<1>10. DOMAIN rows' = Ifname /\ DOMAIN colors' = Ifname
  BY <1>2 DEF UpdateTables
<1>11. heard' \subseteq ToSet(children')
  <2>1. heard' = (heard \ left) \union reached
    BY <1>2 DEF UpdateTables
  <2>2. heard \subseteq C
    BY DEF PanelInv, TypeOK
  <2>3. QED
    BY <1>3, <1>5, <2>1, <2>2
<1>12. ASSUME NEW i \in Ifname
       PROVE  TableTypeOK(i)' /\ \A c \in Colour : Unique(rows'[i], colors'[i], c)
  <2>1. CASE i \in reached
    BY <1>6, <1>7, <2>1 DEF TableTypeOK
  <2>2. CASE i \in left
    BY <1>8, <2>2, NewTable DEF TableTypeOK
  <2>3. CASE i \notin left /\ i \notin reached
    BY <1>6, <1>9, <2>3 DEF TableTypeOK
  <2>4. QED
    BY <2>1, <2>2, <2>3
<1>13. Untouched'
  <2>1. ASSUME NEW i \in Ifname, i \notin present
        PROVE  rows'[i] = NoRows /\ colors'[i] = Colours
    <3>1. CASE i \in C
      BY <1>8, <2>1, <3>1
    <3>2. CASE i \notin C
      BY <1>3, <1>9, <2>1, <3>2 DEF PanelInv, Untouched
    <3>3. QED
      BY <3>1, <3>2
  <2>2. QED
    BY <1>5, <2>1 DEF Untouched
<1>14. OnlyTheVisibleListen'
  <2>1. shown'
    BY <1>1
  <2>2. subscribers =
          {Panel} \union {Table(i) : i \in C}
            \union UNION {UNION {Views(i, s) : s \in DOMAIN rows[i]} : i \in C}
    BY DEF PanelInv, OnlyTheVisibleListen
  <2> DEFINE on == [i \in Ifname |-> Stations(w, b, i)]
  <2>3. subscribers' =
          (subscribers \ UNION ({Ended(i) : i \in left} \union
                                {Views(i, s) : i \in reached, s \in Station}))
          \union {Table(i) : i \in fresh}
          \union UNION {UNION {Views(i, s) : s \in on[i]} : i \in reached}
    BY <1>2 DEF UpdateTables
  <2>4. \A x : x \in subscribers <=>
          \/ x = Panel
          \/ \E i \in C : x = Table(i) \/ \E s \in DOMAIN rows[i] : x \in Views(i, s)
    BY <2>2
  <2>5. \A x : x \in subscribers' <=>
          \/ /\ x \in subscribers
             /\ ~\E i \in left : x = Table(i) \/ \E s \in DOMAIN rows[i] : x \in Views(i, s)
             /\ ~\E i \in reached : \E s \in Station : x \in Views(i, s)
          \/ \E i \in fresh : x = Table(i)
          \/ \E i \in reached : \E s \in Stations(w, b, i) : x \in Views(i, s)
    <3> DEFINE Lost == UNION ({Ended(i) : i \in left} \union
                              {Views(i, s) : i \in reached, s \in Station})
    <3>1. \A x : x \in Lost <=>
            \/ \E i \in left : x \in Ended(i)
            \/ \E i \in reached : \E s \in Station : x \in Views(i, s)
      OBVIOUS
    <3>2. \A x, i : x \in Ended(i) <=>
            x = Table(i) \/ \E s \in DOMAIN rows[i] : x \in Views(i, s)
      BY DEF Ended
    <3> HIDE DEF Lost
    <3>3. subscribers' =
            (subscribers \ Lost)
            \union {Table(i) : i \in fresh}
            \union UNION {UNION {Views(i, s) : s \in on[i]} : i \in reached}
      BY <2>3 DEF Lost
    <3>4. \A i \in reached : on[i] = Stations(w, b, i)
      BY <1>3, <1>4
    <3> HIDE DEF on
    <3>5. QED
      BY <3>1, <3>2, <3>3, <3>4
  <2>6. \A i \in fresh : DOMAIN rows'[i] = {}
    BY <1>3, <1>4, <1>9, NewTable DEF PanelInv, Untouched
  <2>7. \A i \in reached : DOMAIN rows'[i] = Stations(w, b, i)
    BY <1>7
  <2>8. \A i \in (C \intersect present) \ reached : DOMAIN rows'[i] = DOMAIN rows[i]
    BY <1>4, <1>9
  <2>9. \A i \in C : DOMAIN rows[i] \subseteq Station
    BY <1>4, <1>6 DEF TableTypeOK
  <2>10. ASSUME NEW x, x \in subscribers'
         PROVE  \/ x = Panel
                \/ \E i \in present :
                     x = Table(i) \/ \E s \in DOMAIN rows'[i] : x \in Views(i, s)
    BY <1>3, <1>4, <2>4, <2>5, <2>7, <2>8, <2>9, <2>10
  <2>11. Panel \in subscribers'
    BY <2>4, <2>5, Subscriptions
  <2>12. ASSUME NEW i \in present PROVE Table(i) \in subscribers'
    BY <1>4, <2>4, <2>5, <2>12, Subscriptions
  <2>13. ASSUME NEW i \in present, NEW s \in DOMAIN rows'[i], NEW x \in Views(i, s)
         PROVE  x \in subscribers'
    <3>1. CASE i \in reached
      BY <2>5, <2>7, <2>13, <3>1
    <3>2. CASE i \in fresh
      BY <2>6, <2>13, <3>2
    <3>3. CASE i \in (C \intersect present) \ reached
      BY <2>4, <2>5, <2>8, <2>13, <3>3, Subscriptions
    <3>4. QED
      BY <1>4, <3>1, <3>2, <3>3
  <2>14. \A x : x \in subscribers' <=>
           \/ x = Panel
           \/ \E i \in present :
                x = Table(i) \/ \E s \in DOMAIN rows'[i] : x \in Views(i, s)
    BY <2>10, <2>11, <2>12, <2>13
  <2>15. subscribers' =
           {Panel} \union {Table(i) : i \in present}
             \union UNION {UNION {Views(i, s) : s \in DOMAIN rows'[i]} : i \in present}
    BY <2>14
  <2>16. QED
    BY <1>5, <2>1, <2>15 DEF OnlyTheVisibleListen
<1>15. QED
  BY <1>1, <1>5, <1>10, <1>11, <1>12, <1>13, <1>14 DEF EveryColourOnce

\* Whatever reaches the panel, and what does not reach it any more.
LEMMA Emitted ==
  ASSUME PanelInv, NEW w, NEW b, Report(w, b), NEW known \in SUBSET Station,
         Emit(w, b, known)
  PROVE  PanelInv'
<1>1. StreamTypeOK /\ Combine(w, b, known)
  BY DEF PanelInv, TypeOK, Emit
<1>2. StreamTypeOK'
  BY <1>1, Combined
<1>3. shown \in BOOLEAN
  BY DEF PanelInv, TypeOK
<1>4. CASE shown
  <2>1. Deliver(w, b, known)
    BY <1>4 DEF Emit
  <2>2. QED
    BY <1>2, <1>3, <1>4, <2>1, Delivered DEF PanelInv, TypeOK, TableTypeOK, Row
<1>5. CASE ~shown
  <2>1. UNCHANGED panelVars
    BY <1>5 DEF Emit
  <2>2. QED
    BY <1>2, <2>1 DEF PanelInv, TypeOK, Untouched, EveryColourOnce,
                      OnlyTheVisibleListen, panelVars
<1>6. QED
  BY <1>4, <1>5

LEMMA Left ==
  ASSUME PanelInv, Leave
  PROVE  PanelInv'
<1>1. /\ ~shown' /\ shown' \in BOOLEAN
      /\ children' = << >> /\ heard' = {}
      /\ rows' = [i \in Ifname |-> NoRows] /\ colors' = [i \in Ifname |-> Colours]
      /\ UNCHANGED streamVars
  BY DEF Leave
<1>2. subscribers' = {}
  BY DEF Leave, PanelInv, OnlyTheVisibleListen, Ended
<1>3. children' \in Seq(Ifname) /\ IsInjective(children')
  BY <1>1, EmptySeq DEF IsInjective
<1>4. StreamTypeOK'
  BY <1>1 DEF PanelInv, TypeOK, StreamTypeOK, streamVars
<1>5. TypeOK'
  BY <1>1, <1>3, <1>4, NewTable DEF TypeOK, Row
<1>6. QED
  BY <1>1, <1>2, <1>5, NewTable
     DEF PanelInv, Untouched, EveryColourOnce, OnlyTheVisibleListen

LEMMA PanelInit ==
  ASSUME Init
  PROVE  PanelInv
<1>1. StreamTypeOK
  BY InterfacesAssumption DEF Init, StreamInit, StreamTypeOK
<1>2. children = << >> /\ children \in Seq(Ifname) /\ IsInjective(children)
      /\ ToSet(children) = {}
  BY EmptySeq DEF Init, IsInjective, ToSet
<1>3. TypeOK
  BY <1>1, <1>2, NewTable DEF Init, TypeOK, Row
<1>4. QED
  BY <1>2, <1>3, NewTable DEF Init, PanelInv, Untouched, EveryColourOnce, OnlyTheVisibleListen

LEMMA PanelStep ==
  ASSUME PanelInv, [Next]_vars
  PROVE  PanelInv'
<1> USE DEF PanelInv
<1>1. StreamTypeOK /\ macs \subseteq Station /\ Report(wifi, batadv)
  BY DEF TypeOK, StreamTypeOK, Report
<1>2. ASSUME NEW i \in Wireless, NEW s \in SUBSET StationOn[i], HearStations(i, s)
      PROVE  PanelInv'
  <2>1. Report([wifi EXCEPT ![i] = s], batadv)
    BY <1>1, <1>2 DEF Report
  <2>2. QED
    BY <1>1, <1>2, <2>1, Emitted DEF HearStations
<1>3. ASSUME NEW b \in BatadvReport, HearBatadv(b)
      PROVE  PanelInv'
  <2>1. Report(wifi, b)
    BY <1>1, InterfacesAssumption DEF Report
  <2>2. QED
    BY <1>1, <1>3, <2>1, Emitted DEF HearBatadv
<1>4. ASSUME NEW i \in Ifname, NEW s \in StationOn[i], Learn(i, s)
      PROVE  PanelInv'
  <2>1. macs \union {s} \in SUBSET Station
    BY <1>1 DEF Station
  <2>2. CASE Emit(wifi, batadv, macs \union {s})
    BY <1>1, <2>1, <2>2, Emitted
  <2>3. CASE LearnLate(s) /\ UNCHANGED panelVars
    BY <2>1, <2>3 DEF LearnLate, TypeOK, StreamTypeOK, Untouched, EveryColourOnce,
                      OnlyTheVisibleListen, panelVars
  <2>4. QED
    BY <1>4, <2>2, <2>3 DEF Learn
<1>5. ASSUME NEW i \in Ifname, Ends(i) \/ TimePasses(i)
      PROVE  PanelInv'
  <2>1. UNCHANGED <<panelVars, wifi, batadv, macs>>
        /\ asked' \subseteq Ifname /\ querying' \subseteq Ifname
    BY <1>5 DEF Ends, TimePasses, EndOfTransmission, SixSeconds, TypeOK, StreamTypeOK
  <2>2. QED
    BY <2>1 DEF TypeOK, StreamTypeOK, Untouched, EveryColourOnce, OnlyTheVisibleListen,
                panelVars
<1>6. CASE Leave
  BY <1>6, Left
<1>7. CASE UNCHANGED vars
  BY <1>7 DEF TypeOK, StreamTypeOK, Untouched, EveryColourOnce, OnlyTheVisibleListen,
              vars, streamVars, panelVars
<1>8. QED
  BY <1>2, <1>3, <1>4, <1>5, <1>6, <1>7 DEF Next

\* A colour that is in one place is counted once.
LEMMA Counted ==
  ASSUME NEW R, NEW P, NEW c, Unique(R, P, c)
  PROVE  Cardinality({s \in DOMAIN R : R[s].color = c})
           + Cardinality({k \in DOMAIN P : P[k] = c}) = 1
<1> DEFINE A == {s \in DOMAIN R : R[s].color = c}
           B == {k \in DOMAIN P : P[k] = c}
<1>1. CASE Holds(P, c)
  <2>1. PICK k \in DOMAIN P : P[k] = c
    BY <1>1 DEF Holds
  <2>2. A = {} /\ B = {k}
    BY <1>1, <2>1 DEF Unique, Once
  <2>3. Cardinality(A) = 0 /\ Cardinality(B) = 1
    BY <2>2, FS_EmptySet, FS_Singleton
  <2>4. QED
    BY <2>3
<1>2. CASE ~Holds(P, c)
  <2>1. PICK s \in DOMAIN R : R[s].color = c
    BY <1>2 DEF Unique
  <2>2. A = {s} /\ B = {}
    BY <1>2, <2>1 DEF Unique, Holds
  <2>3. Cardinality(A) = 1 /\ Cardinality(B) = 0
    BY <2>2, FS_EmptySet, FS_Singleton
  <2>4. QED
    BY <2>3
<1>3. QED
  BY <1>1, <1>2

LEMMA PanelInvariant == Spec => []PanelInv
BY PanelInit, PanelStep, PTL DEF Spec

(***************************************************************************)
(* The theorems.                                                           *)
(***************************************************************************)
\* Tables, rows, colours and the stream stay what they are, for every mesh.
THEOREM PanelTypeCorrect == Spec => []TypeOK
BY PanelInvariant, PTL DEF PanelInv

\* subscriptions (neighbours.js:167-210): only what is in the page listens, and
\* nothing does once the user has gone.
THEOREM OnlyTheVisible == Spec => []OnlyTheVisibleListen
BY PanelInvariant, PTL DEF PanelInv

\* colors (neighbours.js:181, 195): for every number of neighbours and of colours
\* shift() and push() lose no colour and give none to two rows.
THEOREM ColoursStay == Spec => []ColoursConserved
<1>1. PanelInv => ColoursConserved
  BY Counted DEF PanelInv, EveryColourOnce, ColoursConserved
<1>2. QED
  BY <1>1, PanelInvariant, PTL
=============================================================================
