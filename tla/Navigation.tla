----------------------------- MODULE Navigation -----------------------------
(***************************************************************************)
(* The status page of gluon-status-page-ffgt in one browser tab: main.js   *)
(* with its race of requests to the addresses of a node, gui.js with the   *)
(* title and the panels, the list of known nodes and its copy in           *)
(* localStorage, and what the panels keep open towards the node.           *)
(*                                                                         *)
(* One action is one event of the browser: the handlers it runs, those of  *)
(* gui.js before those of main.js, are one step, as Bacon runs them.       *)
(***************************************************************************)
EXTENDS Naturals, Sequences, Functions

CONSTANTS
  Node,       \* nodes whose nodeinfo the page may get to know
  Addresses,  \* per node: network.addresses without the fe80: ones
  BootNode,   \* the node that serves the page
  NoNode,     \* the title "(not connected)"
  MaxPicks,   \* bound: gotos by the user between two loads of the page
  MaxReloads  \* bound: reloads

Address == UNION {Addresses[n] : n \in Node}

ASSUME NodesAssumption ==
  /\ BootNode \in Node /\ NoNode \notin Node
  /\ DOMAIN Addresses = Node
  /\ \A n, m \in Node : n # m => Addresses[n] \intersect Addresses[m] = {}
ASSUME BoundsAssumption == MaxPicks \in Nat /\ MaxReloads \in Nat

PanelKind == {"nodeinfo", "statistics", "neighbours"}
\* "interfaces" is a request, "neighbours" the batadv and stations sources it
\* is answered with, "nodeinfo" the sources opened by the querier.
ConnectionKind == {"statistics", "interfaces", "neighbours", "nodeinfo"}

VARIABLES
  lsavailable,  \* localStorage can be written
  stored,       \* localStorage.nodes
  nodes,        \* the scan of nodesBusIn
  bootstrap,    \* the request for the page's own nodeinfo
  gotoEpoch,    \* number of gotos since the page was loaded
  races,        \* per epoch, while undecided: the node and its open requests
  garbled,      \* history: the present race was won by a reply that is no JSON
  title, icon,  \* as set by setTitle
  panels,       \* the children of content
  connections,  \* what the panels wait for or listen to
  reloads       \* history: how often the page was reloaded

store == <<lsavailable, stored, nodes>>
page == <<gotoEpoch, races, garbled, title, icon, panels, connections>>
navVars == <<store, page, bootstrap, reloads>>

Panel(kind, n) == [kind |-> kind, node |-> n]
Connection(kind, a) == [kind |-> kind, ip |-> a]

NavTypeOK ==
  /\ lsavailable \in BOOLEAN
  /\ stored \subseteq Node /\ nodes \subseteq Node
  /\ bootstrap \in {"pending", "done", "failed"}
  /\ gotoEpoch \in 0 .. MaxPicks + 1
  /\ DOMAIN races \subseteq 1 .. gotoEpoch
  /\ \A e \in DOMAIN races :
       /\ races[e].node \in Node
       /\ races[e].open \subseteq Addresses[races[e].node] /\ races[e].open # {}
  /\ garbled \in BOOLEAN
  /\ title \in Node \union {NoNode}
  /\ icon \in {"", "connect", "fail"}
  /\ panels \in Seq([kind : PanelKind, node : Node])
  /\ connections \subseteq [kind : ConnectionKind, ip : Address]
  /\ reloads \in 0 .. MaxReloads
-----------------------------------------------------------------------------
NoRaces == [e \in {} |-> 0]
\* Race e is decided.
Without(e) == Restrict(races, DOMAIN races \ {e})

\* Mutant: the writer is subscribed first and writes the empty list.
LoadedAfterWriting(s) == {}
\* localStorage is read before the writer is subscribed (main.js 96 and 99).
Loaded(s) == s
EmptyPage ==
  /\ gotoEpoch' = 0 /\ races' = NoRaces /\ garbled' = FALSE
  /\ title' = NoNode /\ icon' = ""
  /\ panels' = <<>> /\ connections' = {}

NavInit ==
  /\ lsavailable \in BOOLEAN
  /\ stored = {} /\ nodes = {}
  /\ bootstrap = "pending"
  /\ gotoEpoch = 0 /\ races = NoRaces /\ garbled = FALSE
  /\ title = NoNode /\ icon = ""
  /\ panels = <<>> /\ connections = {}
  /\ reloads = 0

\* Every change of nodesBus is written out as a whole.
KnownNodes(ns) ==
  /\ nodes' = ns
  /\ stored' = IF lsavailable THEN ns ELSE stored
  /\ UNCHANGED lsavailable

\* clear() destroys the panels, which ends their subscriptions.  The sources
\* of the querier have a subscriber that is never removed.
\* Mutant: the panels are removed and not destroyed.
KeptAll == connections
Kept == {c \in connections : c.kind = "nodeinfo"}

\* Mutant: the race is for the epoch before it is counted up.
RaceEpochBefore == gotoEpoch
RaceEpoch == gotoEpoch + 1

\* The races under way and one for n.
WithRace(n) ==
  [e \in DOMAIN races \union {RaceEpoch} |->
     IF e = RaceEpoch THEN [node |-> n, open |-> Addresses[n]] ELSE races[e]]

\* nodeChanged, then gotoNode.  For a node without addresses the state machine
\* returns undefined at the end of the empty race, and gotoNode throws.
Goto(n) ==
  /\ title' = n /\ icon' = "connect"
  /\ panels' = <<Panel("nodeinfo", n)>>
  /\ connections' = Kept
  /\ gotoEpoch' = gotoEpoch + 1 /\ garbled' = FALSE
  /\ races' = IF Addresses[n] = {} THEN races ELSE WithRace(n)

\* An entry of the menu, or the link in a row of the neighbours table.
Pick(n) ==
  /\ n \in nodes
  /\ gotoEpoch < MaxPicks
  /\ Goto(n)
  /\ UNCHANGED <<store, bootstrap, reloads>>

Bootstrapped ==
  /\ bootstrap = "pending" /\ bootstrap' = "done"
  /\ KnownNodes(nodes \union {BootNode})
  /\ Goto(BootNode)
  /\ UNCHANGED reloads

\* An error is logged; after a reply that is no JSON not even that.
BootstrapFails ==
  /\ bootstrap = "pending" /\ bootstrap' = "failed"
  /\ UNCHANGED <<store, page, reloads>>

\* Mutant: whichever race ends is taken for the present one.
OnEpochAny(e) == TRUE
OnEpoch(e) == e = gotoEpoch
Open(e, a) == e \in DOMAIN races /\ a \in races[e].open

\* The first reply ends the race; the requests that are still open have no
\* subscriber any more.  nodeArrived subscribes to the statistics and asks for
\* the interfaces.
Arrive(e, a) ==
  /\ Open(e, a) /\ OnEpoch(e)
  /\ races' = Without(e)
  /\ LET n == races[e].node IN
       /\ title' = n /\ icon' = ""
       /\ panels' = panels \o <<Panel("statistics", n), Panel("neighbours", n)>>
  /\ connections' = connections \union {Connection("statistics", a), Connection("interfaces", a)}
  /\ UNCHANGED <<store, bootstrap, reloads, gotoEpoch, garbled>>

ArriveLate(e, a) ==
  /\ Open(e, a) /\ ~OnEpoch(e)
  /\ races' = Without(e)
  /\ UNCHANGED <<store, bootstrap, reloads, gotoEpoch, garbled, title, icon, panels, connections>>

\* Mutant: the end of the race is not told when it comes after errors only.
RequestFailsSilently(e, a) ==
  /\ Open(e, a)
  /\ races' = [races EXCEPT ![e].open = @ \ {a}]
  /\ UNCHANGED <<store, bootstrap, reloads, gotoEpoch, garbled, title, icon, panels, connections>>
\* A status other than 200 or a network error: the race is lost with the last one.
RequestFails(e, a) ==
  LET lost == races[e].open = {a} IN
  /\ Open(e, a)
  /\ races' = IF lost THEN Without(e) ELSE [races EXCEPT ![e].open = @ \ {a}]
  /\ IF lost /\ OnEpoch(e)
       THEN title' = races[e].node /\ icon' = "fail"
       ELSE UNCHANGED <<title, icon>>
  /\ UNCHANGED <<store, bootstrap, reloads, gotoEpoch, garbled, panels, connections>>

\* JSON.parse is evaluated by the subscriber of the race, when the reply has
\* won it already: the exception leaves nobody to go on.
Garble(e, a) ==
  /\ Open(e, a)
  /\ races' = Without(e)
  /\ garbled' = (garbled \/ OnEpoch(e))
  /\ UNCHANGED <<store, bootstrap, reloads, gotoEpoch, title, icon, panels, connections>>

\* magic: the querier is asked for every interface, and the sources are opened.
Interfaces(a) ==
  /\ Connection("interfaces", a) \in connections
  /\ connections' = (connections \ {Connection("interfaces", a)})
                      \union {Connection("neighbours", a), Connection("nodeinfo", a)}
  /\ UNCHANGED <<store, bootstrap, reloads, gotoEpoch, races, garbled, title, icon, panels>>

\* No handler for an error: the panel stays empty.
InterfacesFail(a) ==
  /\ Connection("interfaces", a) \in connections
  /\ connections' = connections \ {Connection("interfaces", a)}
  /\ UNCHANGED <<store, bootstrap, reloads, gotoEpoch, races, garbled, title, icon, panels>>

\* combine meets a station it does not know.
AskAgain(a) ==
  /\ Connection("neighbours", a) \in connections
  /\ connections' = connections \union {Connection("nodeinfo", a)}
  /\ UNCHANGED <<store, bootstrap, reloads, gotoEpoch, races, garbled, title, icon, panels>>

\* A neighbour answers the querier, whatever the page shows by now.
Hear(a, n) ==
  /\ Connection("nodeinfo", a) \in connections
  /\ KnownNodes(nodes \union {n})
  /\ UNCHANGED <<page, bootstrap, reloads>>

EndOfTransmission(a) ==
  /\ Connection("nodeinfo", a) \in connections
  /\ connections' = connections \ {Connection("nodeinfo", a)}
  /\ UNCHANGED <<store, bootstrap, reloads, gotoEpoch, races, garbled, title, icon, panels>>

Reload ==
  /\ reloads < MaxReloads /\ reloads' = reloads + 1
  /\ nodes' = IF lsavailable THEN Loaded(stored) ELSE {}
  /\ stored' = IF lsavailable THEN nodes' ELSE stored
  /\ bootstrap' = "pending"
  /\ EmptyPage
  /\ UNCHANGED lsavailable
-----------------------------------------------------------------------------
(***************************************************************************)
(* Properties.                                                             *)
(***************************************************************************)
\* Whatever late replies come in, content holds the overview of the node in
\* the title, and its two other panels exactly if the page has arrived there:
\* none of an earlier node and none twice.
PageIsWhole ==
  panels = IF title = NoNode THEN <<>>
           ELSE <<Panel("nodeinfo", title)>> \o
                IF icon = "" THEN <<Panel("statistics", title), Panel("neighbours", title)>>
                ELSE <<>>

\* The spinning arrows stay on a page nothing is under way for only if the node
\* has no address but fe80: ones, or if the reply that won the race was no JSON.
Stranded == icon = "connect" /\ gotoEpoch \notin DOMAIN races
StrandsForAReason == Stranded => Addresses[title] = {} \/ garbled

\* Where localStorage works, no node that was known is forgotten, not by a reload
\* in the middle of anything either.
NothingForgotten == [][lsavailable => nodes \subseteq nodes']_navVars
=============================================================================
