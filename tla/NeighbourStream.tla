--------------------------- MODULE NeighbourStream ---------------------------
(***************************************************************************)
(* neighbourstream.js: the stations of the wireless interfaces and the     *)
(* neighbours of batman-adv, combined per interface with the nodeinfo of   *)
(* those already known, and the querier that asks for the others.          *)
(*                                                                         *)
(* A station is known when its MAC is in nodesBus; nodes a querier has     *)
(* found once stay known.  Time is a flag per interface: whether the last  *)
(* question is less than 6 s old.                                          *)
(***************************************************************************)
EXTENDS Naturals, FiniteSets

CONSTANTS
  Ifname,     \* interfaces in the reply to "interfaces"
  Wireless,   \* those whose stations source ever sends anything
  StationOn,  \* per interface: what may be met there
  Answering,  \* stations that belong to nodes which answer with their nodeinfo
  BatadvReport,  \* what batman-adv may report, per interface
  Silent      \* wifi[ifname] before the first event of its source

Station == UNION {StationOn[i] : i \in Ifname}

ASSUME InterfacesAssumption ==
  /\ IsFiniteSet(Ifname) /\ \A i \in Ifname : IsFiniteSet(StationOn[i])
  /\ Wireless \subseteq Ifname /\ DOMAIN StationOn = Ifname
  /\ Answering \subseteq Station
  /\ \A b \in BatadvReport : DOMAIN b = Ifname /\ \A i \in Ifname : b[i] \subseteq StationOn[i]
  /\ \A s \in SUBSET Station : s # Silent

VARIABLES
  wifi,     \* per interface: the last stations event
  batadv,   \* per interface: its part of the last batadv event
  macs,     \* stations in the macs of nodesBus
  asked,    \* interfaces asked for less than 6 s ago
  querying  \* interfaces with a neighbours-nodeinfo source before its end

streamVars == <<wifi, batadv, macs, asked, querying>>

StreamTypeOK ==
  /\ DOMAIN wifi = Ifname /\ DOMAIN batadv = Ifname
  /\ \A i \in Ifname :
       /\ wifi[i] = Silent \/ (i \in Wireless /\ wifi[i] \subseteq StationOn[i])
       /\ batadv[i] \subseteq StationOn[i]
  /\ macs \subseteq Station
  /\ asked \subseteq Ifname /\ querying \subseteq Ifname
-----------------------------------------------------------------------------
\* magic: every interface is asked for before anything is known.
StreamInit ==
  /\ wifi = [i \in Ifname |-> Silent]
  /\ batadv = [i \in Ifname |-> {}]
  /\ macs \in SUBSET Answering
  /\ asked = Ifname /\ querying = Ifname

\* combineWithIfnames: an interface is there from the first event of its stations
\* source on, or as long as batman-adv has a neighbour on it.
Interfaces(w, b) == {i \in Ifname : w[i] # Silent \/ b[i] # {}}

\* combineWifiBatadv: a station is there if either source has it.
Stations(w, b, i) == b[i] \union (IF w[i] = Silent THEN {} ELSE w[i])

\* Mutant: an interface is asked once and never again.
DueOnce(i) == FALSE
\* nodeQuerier: one question per interface and 6 s.
Due(i) == i \notin asked

\* combine asks for every interface with a station that is in no nodeinfo.
Combine(w, b, ms) ==
  LET ask == {i \in Interfaces(w, b) : ~(Stations(w, b, i) \subseteq ms) /\ Due(i)}
  IN  /\ wifi' = w /\ batadv' = b /\ macs' = ms
      /\ asked' = asked \union ask
      /\ querying' = querying \union ask

LearnLate(s) ==
  /\ macs' = macs \union {s}
  /\ UNCHANGED <<wifi, batadv, asked, querying>>

EndOfTransmission(i) ==
  /\ i \in querying /\ querying' = querying \ {i}
  /\ UNCHANGED <<wifi, batadv, macs, asked>>

SixSeconds(i) ==
  /\ i \in asked /\ asked' = asked \ {i}
  /\ UNCHANGED <<wifi, batadv, macs, querying>>
=============================================================================
