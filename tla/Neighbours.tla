----------------------------- MODULE Neighbours -----------------------------
(***************************************************************************)
(* gui/neighbours.js: the panel with one table and one signal graph per    *)
(* interface, kept up to date from the combined stream.                    *)
(*                                                                         *)
(* Bacon gives a subscriber the events after the one in whose handler it   *)
(* subscribed: a new table fills with the next event, a new row with the   *)
(* next but one.  skipDuplicates(sameKeys) of a table whose interface is   *)
(* missing throws, and the subscribers after it do not get that event.     *)
(***************************************************************************)
EXTENDS NeighbourStream, Sequences, SequencesExt

CONSTANTS
  Colour,    \* graphColors
  Colours,   \* the same as a sequence
  NoColour   \* what shift() returns of an empty array

ASSUME ColoursAssumption ==
  /\ NoColour \notin Colour
  /\ Colours \in Seq(Colour) /\ ToSet(Colours) = Colour /\ IsInjective(Colours)

Name == {"", "id", "link"}

VARIABLES
  shown,        \* the panel is in the page
  children,     \* interfaces with a table, oldest first
  heard,        \* those whose table has got an event (the prev of skipDuplicates)
  rows,         \* per interface: managedNeighbours
  colors,       \* per interface: the colours left
  subscribers   \* of the combined stream; its sources are open while there is one

panelVars == <<shown, children, heard, rows, colors, subscribers>>
vars == <<streamVars, panelVars>>

Panel == <<"panel">>
Table(i) == <<"table", i>>
Views(i, s) == {<<"signal", i, s>>, <<"row", i, s>>}

TypeOK ==
  /\ StreamTypeOK
  /\ shown \in BOOLEAN
  /\ children \in Seq(Ifname) /\ IsInjective(children)
  /\ heard \subseteq ToSet(children)
  /\ DOMAIN rows = Ifname /\ DOMAIN colors = Ifname
  /\ \A i \in Ifname :
       /\ DOMAIN rows[i] \subseteq StationOn[i]
       /\ rows[i] \in [DOMAIN rows[i] -> [color : Colour \union {NoColour}, name : Name]]
       /\ colors[i] \in Seq(Colour \union {NoColour})
-----------------------------------------------------------------------------
NoRows == [s \in {} |-> 0]

Init ==
  /\ StreamInit
  /\ shown = TRUE /\ children = <<>> /\ heard = {}
  /\ rows = [i \in Ifname |-> NoRows]
  /\ colors = [i \in Ifname |-> Colours]
  /\ subscribers = {Panel}

\* TableEntry.update: the first nodeinfo makes the link, until then it is the id.
Named(r, known) ==
  [r EXCEPT !.name = IF r.name = "link" \/ known THEN "link" ELSE "id"]

\* Interface.update makes rows for the stations that are new, listed in new, and
\* removes those of the ones in gone.  Each new row shifts a colour, as long as
\* there are any, each old one pushes its colour back.
Shifted(pool, k) == IF k \in DOMAIN pool THEN pool[k] ELSE NoColour
NewRow(pool, new, s) ==
  [color |-> Shifted(pool, CHOOSE k \in DOMAIN new : new[k] = s), name |-> ""]

\* Mutant: the colour is not given back.
PushedNever(i, gone) == <<>>
Pushed(i, gone) == [k \in DOMAIN gone |-> rows[i][gone[k]].color]
PoolAfter(i, new, gone) ==
  SubSeq(colors[i], Len(new) + 1, Len(colors[i])) \o Pushed(i, gone)

\* The rows that are there already get the event too: TableEntry.update.
RowAfter(i, s, known, new) ==
  IF s \in DOMAIN rows[i] THEN Named(rows[i][s], s \in known)
                          ELSE NewRow(colors[i], new, s)
RowsAfter(i, stations, known, new) ==
  [s \in stations |-> RowAfter(i, s, known, new)]

\* The ways to list the members of each of the sets.
Listings(sets) ==
  {f \in [DOMAIN sets -> UNION {SetToSeqs(sets[i]) : i \in DOMAIN sets}] :
     \A i \in DOMAIN sets : f[i] \in SetToSeqs(sets[i])}

\* Mutant: the rows are removed with the table and not destroyed.
EndedTable(i) == {Table(i)}
\* Interface.destroy: the table's subscription and those of its rows.
Ended(i) == {Table(i)} \union UNION {Views(i, s) : s \in DOMAIN rows[i]}

\* Mutant: every event after the first is taken for a duplicate.
ReachedOnce(present) == {(ToSet(children) \intersect present) \ heard}
\* The tables that get an event with these interfaces: all up to the first one that
\* throws; a later one, or rows made later, may get it or not.
Reached(present) ==
  LET throws == {k \in DOMAIN children : children[k] \in heard \ present}
      before == {children[k] : k \in {j \in DOMAIN children : \A t \in throws : j < t}}
      stay == ToSet(children) \intersect present
  IN  {r \in SUBSET stay : stay \intersect before \subseteq r}

\* Mutant: a table is made for every interface of the event.
MissingAll(present) == present
Missing(present) == present \ ToSet(children)

\* The tables whose interface is missing are destroyed, those reached are updated.
UpdateTables(w, b, known, reached, new, gone) ==
  LET left == ToSet(children) \ Interfaces(w, b)
      on == [i \in Ifname |-> Stations(w, b, i)]
  IN  /\ heard' = (heard \ left) \union reached
      /\ rows' = [i \in Ifname |->
                   IF i \in reached THEN RowsAfter(i, on[i], known, new[i])
                   ELSE IF i \in left THEN NoRows ELSE rows[i]]
      /\ colors' = [i \in Ifname |->
                     IF i \in reached THEN PoolAfter(i, new[i], gone[i])
                     ELSE IF i \in left THEN Colours ELSE colors[i]]
      /\ subscribers' =
           (subscribers \ UNION ({Ended(i) : i \in left} \union
                                 {Views(i, s) : i \in reached, s \in Station}))
           \union {Table(i) : i \in Missing(Interfaces(w, b))}
           \union UNION {UNION {Views(i, s) : s \in on[i]} : i \in reached}

\* One event of the combined stream: the panel removes and adds tables, the others
\* keep their order; then the tables that get it are updated.
InOrder(kept) ==
  \A a, b \in DOMAIN kept : a < b =>
    \E j, k \in DOMAIN children : j < k /\ children[j] = kept[a] /\ children[k] = kept[b]
Deliver(w, b, known) ==
  LET present == Interfaces(w, b)
  IN \E reached \in Reached(present), added \in SetToSeqs(Missing(present)),
        kept \in SetToSeqs(ToSet(children) \intersect present) :
       /\ InOrder(kept) /\ children' = kept \o added
       /\ \E new \in Listings([i \in reached |-> Stations(w, b, i) \ DOMAIN rows[i]]),
             gone \in Listings([i \in reached |-> DOMAIN rows[i] \ Stations(w, b, i)]) :
            UpdateTables(w, b, known, reached, new, gone)
       /\ UNCHANGED shown

\* Mutant: the sources have no tearDown.
ListeningForEver == TRUE
Listening == subscribers # {}
Emit(w, b, known) ==
  /\ Listening
  /\ Combine(w, b, known)
  /\ IF shown THEN Deliver(w, b, known) ELSE UNCHANGED panelVars

HearStations(i, s) == Emit([wifi EXCEPT ![i] = s], batadv, macs)
HearBatadv(b) == Emit(wifi, b, macs)

\* A neighbour answers: mgmtBus, nodesBusIn and combine follow at once, and nothing
\* more if nobody listens to the combination.
Learn(i, s) ==
  /\ i \in querying /\ s \in StationOn[i] \intersect Answering
  /\ \/ Emit(wifi, batadv, macs \union {s})
     \/ ~Listening /\ LearnLate(s) /\ UNCHANGED panelVars

\* destroy() of the panel: the user goes to another node.
Leave ==
  /\ shown /\ shown' = FALSE
  /\ children' = <<>> /\ heard' = {}
  /\ rows' = [i \in Ifname |-> NoRows] /\ colors' = [i \in Ifname |-> Colours]
  /\ subscribers' = subscribers \ ({Panel} \union UNION {Ended(i) : i \in ToSet(children)})
  /\ UNCHANGED streamVars

Again == \/ \E i \in Wireless : wifi[i] # Silent /\ HearStations(i, wifi[i])
         \/ HearBatadv(batadv)
Ends(i) == EndOfTransmission(i) /\ UNCHANGED panelVars
TimePasses(i) == SixSeconds(i) /\ UNCHANGED panelVars

Next ==
  \/ \E i \in Wireless : \E s \in SUBSET StationOn[i] : HearStations(i, s)
  \/ \E b \in BatadvReport : HearBatadv(b)
  \/ \E i \in Ifname : Ends(i) \/ TimePasses(i) \/ \E s \in StationOn[i] : Learn(i, s)
  \/ Leave

\* The node repeats its reports once a second, a question has an end, time passes,
\* and a node that is asked over and over answers.
Fairness ==
  /\ WF_vars(Again)
  /\ WF_vars(\E i \in Ifname : Ends(i))
  /\ \A i \in Ifname :
       /\ WF_vars(TimePasses(i))
       /\ \A s \in StationOn[i] \intersect Answering : SF_vars(Learn(i, s))

Spec == Init /\ [][Next]_vars /\ Fairness
-----------------------------------------------------------------------------
(***************************************************************************)
(* Properties.                                                             *)
(***************************************************************************)
\* What is subscribed to the combined stream is what can be seen: no table or row
\* that was removed listens on, whichever events it missed, and after destroy()
\* nobody does, so that the sources are closed.
OnlyTheVisibleListen ==
  subscribers =
    IF ~shown THEN {}
    ELSE {Panel} \union {Table(i) : i \in ToSet(children)}
           \union UNION {UNION {Views(i, s) : s \in DOMAIN rows[i]} : i \in ToSet(children)}

\* Per table, each colour of graphColors belongs to one row or is free, and never
\* both, never to two rows, and never lost, however neighbours come and go.
ColoursConserved ==
  \A i \in Ifname : \A c \in Colour :
    Cardinality({s \in DOMAIN rows[i] : rows[i][s].color = c})
      + Cardinality({k \in DOMAIN colors[i] : colors[i][k] = c}) = 1

Shows ==
  /\ ToSet(children) = Interfaces(wifi, batadv)
  /\ \A i \in ToSet(children) : DOMAIN rows[i] = Stations(wifi, batadv, i)
Linked == \A i \in Ifname : \A s \in DOMAIN rows[i] \intersect Answering : rows[i][s].name = "link"

Quiet == <>[][UNCHANGED <<wifi, batadv>>]_<<wifi, batadv>>

\* Once the neighbours stay the same the tables show them, no matter which events
\* were lost to an exception before.
TablesFollowMesh == Quiet => <>[](shown => Shows)

\* ... and every neighbour that answers has its link, because an interface with a
\* station nobody knows is asked again until it is known.
NeighboursGetNames == Quiet => <>[](shown => Linked)

\* When the user has gone on, the questions to the node come to an end.
LeavingEndsQueries == ~shown ~> [](querying = {})
=============================================================================
