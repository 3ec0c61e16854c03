-------------------------- MODULE StatusPageProofs --------------------------
(***************************************************************************)
(* The page shows what was asked for: PageIsWhole and the promise of       *)
(* Browsing, for every mesh, every order of the replies and every report   *)
(* of the nodes.                                                           *)
(***************************************************************************)
EXTENDS StatusPage, TLAPS

\* No race is for an epoch to come, and a race that is still open for the present
\* one is for the node in the title.
RaceInv ==
  /\ gotoEpoch \in Nat
  /\ \A e \in DOMAIN races :
       /\ e \in Nat /\ e <= gotoEpoch
       /\ races[e].node \in Node
       /\ races[e].open \subseteq Addresses[races[e].node]
  /\ gotoEpoch \in DOMAIN races => title = races[gotoEpoch].node /\ icon = "connect"

TitleInv ==
  /\ title \in Node \union {NoNode}
  /\ title = NoNode => icon = ""
  /\ icon \in {"", "connect", "fail"}

\* What the panels listen to: nothing until the page has arrived; then the statistics
\* of one address of the node in the title, and nothing elsewhere.
Arrived == title # NoNode /\ icon = ""
ListensAt(a) ==
  /\ a \in Addresses[title]
  /\ Connection("statistics", a) \in connections
  /\ \A c \in Listened : c.ip = a
ListenInv ==
  /\ ~Arrived => Listened = {}
  /\ Arrived => \E a \in Address : ListensAt(a)

PageInv == RaceInv /\ TitleInv /\ ListenInv /\ PageIsWhole

-----------------------------------------------------------------------------
(***************************************************************************)
(* Operators.                                                              *)
(***************************************************************************)
\* The race that is decided is gone, the others are as they were.
LEMMA WithoutRace ==
  ASSUME NEW e
  PROVE  /\ DOMAIN Without(e) = DOMAIN races \ {e}
         /\ \A d \in DOMAIN Without(e) : Without(e)[d] = races[d]
BY DEF Without, Restrict

\* The new race is for n and its addresses, the others are as they were.
LEMMA RaceStarts ==
  ASSUME NEW n
  PROVE  /\ DOMAIN WithRace(n) = DOMAIN races \union {RaceEpoch}
         /\ WithRace(n)[RaceEpoch] = [node |-> n, open |-> Addresses[n]]
         /\ \A d \in DOMAIN races \ {RaceEpoch} : WithRace(n)[d] = races[d]
BY DEF WithRace

\* Races that end or lose requests leave the others for the nodes they were for.
LEMMA RacesShrink ==
  ASSUME RaceInv, DOMAIN races' \subseteq DOMAIN races,
         \A d \in DOMAIN races' : /\ races'[d].node = races[d].node
                                 /\ races'[d].open \subseteq races[d].open,
         gotoEpoch' = gotoEpoch, gotoEpoch \in DOMAIN races' => UNCHANGED <<title, icon>>
  PROVE  RaceInv'
BY DEF RaceInv

\* A connection is of its kind and at its address.
LEMMA ConnectionFields ==
  ASSUME NEW k, NEW a
  PROVE  Connection(k, a).kind = k /\ Connection(k, a).ip = a
BY DEF Connection

\* The overview, alone.
LEMMA Alone == ASSUME NEW x PROVE <<x>> \o <<>> = <<x>>
OBVIOUS

-----------------------------------------------------------------------------
(***************************************************************************)
(* The first page.                                                         *)
(***************************************************************************)
LEMMA FreshPage ==
  ASSUME EmptyPage
  PROVE  PageInv'
BY DEF EmptyPage, NoRaces, PageInv, RaceInv, TitleInv, ListenInv, Listened, Arrived, PageIsWhole

LEMMA InitialPage ==
  ASSUME NavInit
  PROVE  PageInv
BY DEF NavInit, NoRaces, PageInv, RaceInv, TitleInv, ListenInv, Listened, Arrived, PageIsWhole

-----------------------------------------------------------------------------
(***************************************************************************)
(* Going to a node.                                                        *)
(***************************************************************************)
LEMMA GotoKeeps ==
  ASSUME PageInv, NEW n \in Node, Goto(n)
  PROVE  PageInv'
<1> USE NodesAssumption
<1>1. RaceInv'
  <2>1. CASE Addresses[n] = {}
    BY <2>1 DEF PageInv, RaceInv, Goto
  <2>2. CASE Addresses[n] # {}
    <3>1. /\ DOMAIN races' = DOMAIN races \union {gotoEpoch + 1}
          /\ races'[gotoEpoch + 1] = [node |-> n, open |-> Addresses[n]]
          /\ \A d \in DOMAIN races \ {gotoEpoch + 1} : races'[d] = races[d]
      BY <2>2, RaceStarts DEF Goto, RaceEpoch
    <3>2. title' = n /\ icon' = "connect" /\ gotoEpoch' = gotoEpoch + 1
      BY DEF Goto
    <3>3. races'[gotoEpoch + 1].node = n /\ races'[gotoEpoch + 1].open = Addresses[n]
      BY <3>1
    <3>4. gotoEpoch' \in Nat /\ \A d \in DOMAIN races' : d \in Nat /\ d <= gotoEpoch'
      BY <3>1, <3>2 DEF PageInv, RaceInv
    <3>5. \A d \in DOMAIN races' : /\ races'[d].node \in Node
                                   /\ races'[d].open \subseteq Addresses[races'[d].node]
      BY <3>1, <3>3 DEF PageInv, RaceInv
    <3> QED BY <3>2, <3>3, <3>4, <3>5 DEF RaceInv
  <2> QED BY <2>1, <2>2
<1>2. TitleInv'
  BY DEF TitleInv, Goto
<1>3. ListenInv'
  BY DEF ListenInv, Goto, Arrived, Listened, Kept
<1>4. PageIsWhole'
  BY Alone DEF PageIsWhole, Goto
<1> QED BY <1>1, <1>2, <1>3, <1>4 DEF PageInv

-----------------------------------------------------------------------------
(***************************************************************************)
(* The end of a request.                                                   *)
(***************************************************************************)
\* Who wins the present race is the node the page looks for.
LEMMA ArrivesWhereAsked ==
  ASSUME PageInv, NEW e, NEW a, Arrive(e, a)
  PROVE  /\ e = gotoEpoch /\ e \in DOMAIN races /\ a \in races[e].open
         /\ title \in Node /\ title # NoNode /\ title = races[e].node /\ icon = "connect"
         /\ title' = title /\ icon' = ""
BY NodesAssumption DEF Arrive, Open, OnEpoch, PageInv, RaceInv

LEMMA ArriveKeeps ==
  ASSUME PageInv, NEW e, NEW a \in Address, Arrive(e, a)
  PROVE  PageInv'
<1>1. /\ e = gotoEpoch /\ e \in DOMAIN races /\ a \in races[e].open
      /\ title \in Node /\ title # NoNode /\ title = races[e].node /\ icon = "connect"
      /\ title' = title /\ icon' = ""
  BY ArrivesWhereAsked
<1>2. RaceInv'
  <2>1. races' = Without(e) /\ gotoEpoch' = gotoEpoch
    BY DEF Arrive
  <2> QED BY <1>1, <2>1, WithoutRace, RacesShrink DEF PageInv
<1>3. TitleInv'
  BY <1>1 DEF TitleInv, Arrive
<1>4. ListenInv'
  <2>1. Listened = {}
    BY <1>1 DEF PageInv, ListenInv, Arrived
  <2>2. \A c \in Listened' : c.ip = a
    <3>1. connections' = connections \union {Connection("statistics", a), Connection("interfaces", a)}
      BY DEF Arrive
    <3> QED BY <2>1, <3>1, ConnectionFields DEF Listened
  <2>3. ListensAt(a)'
    <3>1. a \in Addresses[title']
      BY <1>1 DEF PageInv, RaceInv
    <3>2. Connection("statistics", a) \in connections'
      BY DEF Arrive
    <3> QED BY <2>2, <3>1, <3>2, ConnectionFields DEF ListensAt
  <2> QED BY <1>1, <2>3 DEF ListenInv, Arrived
<1>5. PageIsWhole'
  <2>1. panels = <<Panel("nodeinfo", title)>>
    BY <1>1, Alone DEF PageInv, PageIsWhole
  <2> QED BY <1>1, <2>1 DEF PageIsWhole, Arrive
<1> QED BY <1>2, <1>3, <1>4, <1>5 DEF PageInv

\* A race that is decided or goes on, on a page that stays as it is.
LEMMA RacesKeep ==
  ASSUME PageInv, NEW e \in DOMAIN races, NEW a,
         races' = Without(e) \/ races' = [races EXCEPT ![e].open = @ \ {a}],
         UNCHANGED <<gotoEpoch, title, icon, panels, connections>>
  PROVE  PageInv'
<1>1. RaceInv'
  <2>1. CASE races' = Without(e)
    BY <2>1, WithoutRace, RacesShrink DEF PageInv
  <2>2. CASE races' = [races EXCEPT ![e].open = @ \ {a}]
    BY <2>2 DEF PageInv, RaceInv
  <2> QED BY <2>1, <2>2
<1>2. TitleInv' /\ ListenInv' /\ PageIsWhole'
  BY DEF PageInv, TitleInv, ListenInv, ListensAt, Arrived, Listened, PageIsWhole
<1> QED BY <1>1, <1>2 DEF PageInv

LEMMA RequestFailsKeeps ==
  ASSUME PageInv, NEW e \in DOMAIN races, NEW a, RequestFails(e, a)
  PROVE  PageInv'
<1> USE NodesAssumption
<1>1. CASE races[e].open = {a} /\ OnEpoch(e)
  <2>1. /\ e = gotoEpoch
        /\ title \in Node /\ title # NoNode /\ title = races[e].node /\ icon = "connect"
        /\ title' = title /\ icon' = "fail" /\ races' = Without(e)
        /\ UNCHANGED <<gotoEpoch, panels, connections>>
    BY <1>1 DEF RequestFails, OnEpoch, PageInv, RaceInv
  <2>2. RaceInv'
    BY <2>1, WithoutRace, RacesShrink DEF PageInv
  <2>3. TitleInv'
    BY <2>1 DEF TitleInv
  <2>4. ListenInv'
    BY <2>1 DEF PageInv, ListenInv, Arrived, Listened
  <2>5. PageIsWhole'
    BY <2>1 DEF PageInv, PageIsWhole
  <2> QED BY <2>2, <2>3, <2>4, <2>5 DEF PageInv
<1>2. CASE ~(races[e].open = {a} /\ OnEpoch(e))
  BY <1>2, RacesKeep DEF RequestFails
<1> QED BY <1>1, <1>2

LEMMA AnswerKeeps ==
  ASSUME PageInv, NEW e \in DOMAIN races, NEW a \in Address, Answer(e, a)
  PROVE  PageInv'
<1>1. CASE Arrive(e, a)
  BY <1>1, ArriveKeeps
<1>2. CASE ArriveLate(e, a)
  BY <1>2, RacesKeep DEF ArriveLate
<1>3. CASE RequestFails(e, a)
  BY <1>3, RequestFailsKeeps
<1>4. CASE Garble(e, a)
  BY <1>4, RacesKeep DEF Garble
<1> QED BY <1>1, <1>2, <1>3, <1>4 DEF Answer

-----------------------------------------------------------------------------
(***************************************************************************)
(* The panels: the page listens where it listened.                         *)
(***************************************************************************)
\* Only the interfaces' request gives way to the sources it is answered with.
LEMMA PanelsListen ==
  ASSUME PageInv, NEW a \in Address, Panels(a)
  PROVE  /\ UNCHANGED <<gotoEpoch, races, title, icon, panels>>
         /\ ListenInv' /\ Listening' = Listening
<1>1. UNCHANGED <<gotoEpoch, races, title, icon, panels>>
  BY DEF Panels, Interfaces, InterfacesFail, AskAgain, Hear, EndOfTransmission, page
<1>2. \/ Listened' \subseteq Listened
      \/ /\ Connection("interfaces", a) \in Listened
         /\ \A c \in Listened' : c \in Listened \/ c.ip = a
  <2>1. CASE Interfaces(a)
    <3>1. Connection("interfaces", a) \in Listened
      BY <2>1, ConnectionFields DEF Interfaces, Listened
    <3>2. \A c \in connections' : \/ c \in connections
                                 \/ c \in {Connection("neighbours", a), Connection("nodeinfo", a)}
      BY <2>1 DEF Interfaces
    <3> QED BY <3>1, <3>2, ConnectionFields DEF Listened
  <2>2. CASE InterfacesFail(a)
    BY <2>2 DEF InterfacesFail, Listened
  <2>3. CASE AskAgain(a)
    BY <2>3, ConnectionFields DEF AskAgain, Listened
  <2>4. CASE \E n \in Node : Hear(a, n)
    BY <2>4 DEF Hear, page, Listened
  <2>5. CASE EndOfTransmission(a)
    BY <2>5 DEF EndOfTransmission, Listened
  <2> QED BY <2>1, <2>2, <2>3, <2>4, <2>5 DEF Panels
<1>3. \A b : Connection("statistics", b) \in connections
               => Connection("statistics", b) \in connections'
  <2>1. CASE Interfaces(a)
    BY <2>1, ConnectionFields DEF Interfaces
  <2>2. CASE InterfacesFail(a)
    BY <2>2, ConnectionFields DEF InterfacesFail
  <2>3. CASE AskAgain(a)
    BY <2>3 DEF AskAgain
  <2>4. CASE \E n \in Node : Hear(a, n)
    BY <2>4 DEF Hear, page
  <2>5. CASE EndOfTransmission(a)
    BY <2>5, ConnectionFields DEF EndOfTransmission
  <2> QED BY <2>1, <2>2, <2>3, <2>4, <2>5 DEF Panels
<1>5. CASE ~Arrived
  <2>1. Listened = {} /\ Listened' = {}
    BY <1>2, <1>5 DEF PageInv, ListenInv
  <2> QED BY <1>1, <1>5, <2>1 DEF ListenInv, Arrived, Listening
<1>6. CASE Arrived
  <2>1. PICK b \in Address : ListensAt(b)
    BY <1>6 DEF PageInv, ListenInv
  <2>2. \A c \in Listened' : c.ip = b
    BY <1>2, <2>1, ConnectionFields DEF ListensAt
  <2>3. Connection("statistics", b) \in Listened /\ Connection("statistics", b) \in Listened'
    BY <1>3, <2>1, ConnectionFields DEF ListensAt, Listened
  <2>4. ListensAt(b)'
    BY <1>1, <2>1, <2>2, <2>3 DEF ListensAt, Listened
  <2>5. Listening = {b} /\ Listening' = {b}
    BY <2>1, <2>2, <2>3, ConnectionFields DEF ListensAt, Listening
  <2> QED BY <1>1, <1>6, <2>4, <2>5 DEF ListenInv, Arrived
<1> QED BY <1>1, <1>5, <1>6

-----------------------------------------------------------------------------
(***************************************************************************)
(* The invariant.                                                          *)
(***************************************************************************)
\* A page that is left as it is keeps what holds of it.
LEMMA SamePage ==
  ASSUME PageInv, UNCHANGED <<gotoEpoch, races, title, icon, panels, connections>>
  PROVE  PageInv'
BY DEF PageInv, RaceInv, TitleInv, ListenInv, ListensAt, Arrived, Listened, PageIsWhole

LEMMA PanelsKeep ==
  ASSUME PageInv, NEW a \in Address, Panels(a)
  PROVE  PageInv'
<1>1. UNCHANGED <<gotoEpoch, races, title, icon, panels>> /\ ListenInv'
  BY PanelsListen
<1>2. RaceInv' /\ TitleInv' /\ PageIsWhole'
  BY <1>1 DEF PageInv, RaceInv, TitleInv, PageIsWhole
<1> QED BY <1>1, <1>2 DEF PageInv

LEMMA AskKeeps ==
  ASSUME PageInv, Ask
  PROVE  PageInv'
<1>1. CASE \E n \in Node : Pick(n)
  BY <1>1, GotoKeeps DEF Pick
<1>2. CASE Bootstrapped
  BY <1>2, GotoKeeps, NodesAssumption DEF Bootstrapped
<1>3. CASE Reload
  BY <1>3, FreshPage DEF Reload
<1> QED BY <1>1, <1>2, <1>3 DEF Ask

LEMMA StepKeeps ==
  ASSUME PageInv, [Next]_vars
  PROVE  PageInv'
<1>1. CASE Ask
  BY <1>1, AskKeeps
<1>2. CASE BootstrapFails
  BY <1>2, SamePage DEF BootstrapFails, page
<1>3. ASSUME NEW a \in Address, NEW e \in DOMAIN races, Answer(e, a)
      PROVE  PageInv'
  BY <1>3, AnswerKeeps
<1>4. ASSUME NEW a \in Address, Panels(a)
      PROVE  PageInv'
  BY <1>4, PanelsKeep
<1>5. ASSUME NEW a \in Address, Statistics(a)
      PROVE  PageInv'
  BY <1>5, SamePage DEF Statistics, navVars, page
<1>6. CASE UNCHANGED vars
  BY <1>6, SamePage DEF vars, navVars, page
<1> QED BY <1>1, <1>2, <1>3, <1>4, <1>5, <1>6 DEF Next

\* PageInv holds in every behaviour.
THEOREM Invariance == Spec => []PageInv
<1>1. Init => PageInv
  BY InitialPage DEF Init
<1>2. PageInv /\ [Next]_vars => PageInv'
  BY StepKeeps
<1> QED BY <1>1, <1>2, PTL DEF Spec

\* Whatever late replies come in, the page shows the panels of the node in its title,
\* all of them and no others (main.js gotoNode, gui.js nodeChanged and nodeArrived).
THEOREM PageStaysWhole == Spec => []PageIsWhole
<1>1. PageInv => PageIsWhole
  BY DEF PageInv
<1> QED BY <1>1, Invariance, PTL

-----------------------------------------------------------------------------
(***************************************************************************)
(* Why the arrows may stay.                                                *)
(***************************************************************************)
LEMMA GotoStrandsForAReason ==
  ASSUME NEW n \in Node, Goto(n)
  PROVE  StrandsForAReason'
<1>1. CASE Addresses[n] = {}
  BY <1>1 DEF StrandsForAReason, Goto
<1>2. CASE Addresses[n] # {}
  <2>1. DOMAIN races' = DOMAIN races \union {RaceEpoch} /\ gotoEpoch' = RaceEpoch
    BY <1>2, RaceStarts DEF Goto, RaceEpoch
  <2> QED BY <2>1 DEF StrandsForAReason, Stranded
<1> QED BY <1>1, <1>2

\* A page that was not stranded stays so as long as its race goes on.
LEMMA StillNotStranded ==
  ASSUME StrandsForAReason, UNCHANGED <<gotoEpoch, title, icon>>,
         garbled => garbled',
         gotoEpoch \in DOMAIN races => gotoEpoch \in DOMAIN races'
  PROVE  StrandsForAReason'
BY DEF StrandsForAReason, Stranded

LEMMA AnswerStrandsForAReason ==
  ASSUME StrandsForAReason, NEW e \in DOMAIN races, NEW a \in Address, Answer(e, a)
  PROVE  StrandsForAReason'
<1>1. CASE Arrive(e, a)
  BY <1>1 DEF Arrive, StrandsForAReason, Stranded
<1>2. CASE ArriveLate(e, a)
  BY <1>2, WithoutRace, StillNotStranded DEF ArriveLate, OnEpoch
<1>3. CASE RequestFails(e, a)
  <2>1. CASE races[e].open = {a} /\ OnEpoch(e)
    BY <1>3, <2>1 DEF RequestFails, StrandsForAReason, Stranded
  <2>2. CASE races[e].open = {a} /\ ~OnEpoch(e)
    BY <1>3, <2>2, WithoutRace, StillNotStranded DEF RequestFails, OnEpoch
  <2>3. CASE races[e].open # {a}
    BY <1>3, <2>3, StillNotStranded DEF RequestFails
  <2> QED BY <2>1, <2>2, <2>3
<1>4. CASE Garble(e, a)
  <2>1. CASE OnEpoch(e)
    BY <1>4, <2>1 DEF Garble, StrandsForAReason
  <2>2. CASE ~OnEpoch(e)
    BY <1>4, <2>2, WithoutRace, StillNotStranded DEF Garble, OnEpoch
  <2> QED BY <2>1, <2>2
<1> QED BY <1>1, <1>2, <1>3, <1>4 DEF Answer

LEMMA StepStrandsForAReason ==
  ASSUME StrandsForAReason, [Next]_vars
  PROVE  StrandsForAReason'
<1>1. CASE Ask
  <2>1. CASE \E n \in Node : Pick(n)
    BY <2>1, GotoStrandsForAReason DEF Pick
  <2>2. CASE Bootstrapped
    BY <2>2, GotoStrandsForAReason, NodesAssumption DEF Bootstrapped
  <2>3. CASE Reload
    BY <2>3 DEF Reload, EmptyPage, StrandsForAReason, Stranded
  <2> QED BY <1>1, <2>1, <2>2, <2>3 DEF Ask
<1>2. CASE BootstrapFails
  BY <1>2, StillNotStranded DEF BootstrapFails, page
<1>3. ASSUME NEW a \in Address, NEW e \in DOMAIN races, Answer(e, a)
      PROVE  StrandsForAReason'
  BY <1>3, AnswerStrandsForAReason
<1>4. ASSUME NEW a \in Address, Panels(a)
      PROVE  StrandsForAReason'
  <2>1. UNCHANGED <<gotoEpoch, races, garbled, title, icon>>
    BY <1>4 DEF Panels, Interfaces, InterfacesFail, AskAgain, Hear, EndOfTransmission, page
  <2> QED BY <2>1, StillNotStranded
<1>5. ASSUME NEW a \in Address, Statistics(a)
      PROVE  StrandsForAReason'
  BY <1>5, StillNotStranded DEF Statistics, navVars, page
<1>6. CASE UNCHANGED vars
  BY <1>6, StillNotStranded DEF vars, navVars, page
<1> QED BY <1>1, <1>2, <1>3, <1>4, <1>5, <1>6 DEF Next

\* The arrows stay without a request under way only for a node with link-local
\* addresses and after a reply that is no JSON (main.js gotoNode, helper.js getJSON).
THEOREM ArrowsEndOrSayWhy == Spec => []StrandsForAReason
<1>1. Init => StrandsForAReason
  BY DEF Init, NavInit, StrandsForAReason, Stranded
<1>2. StrandsForAReason /\ [Next]_vars => StrandsForAReason'
  BY StepStrandsForAReason
<1> QED BY <1>1, <1>2, PTL DEF Spec

-----------------------------------------------------------------------------
(***************************************************************************)
(* The list of known nodes.                                                *)
(***************************************************************************)
\* What is stored is what is known.
StoredInv == lsavailable => stored = nodes

LEMMA ListGrows ==
  ASSUME StoredInv, [Next]_vars
  PROVE  StoredInv' /\ lsavailable' = lsavailable /\ (lsavailable => nodes \subseteq nodes')
<1> DEFINE Grows ==
      StoredInv' /\ lsavailable' = lsavailable /\ (lsavailable => nodes \subseteq nodes')
<1>1. ASSUME UNCHANGED store PROVE Grows
  BY <1>1 DEF StoredInv, store
<1>2. ASSUME NEW ns, nodes \subseteq ns, KnownNodes(ns) PROVE Grows
  BY <1>2 DEF StoredInv, KnownNodes
<1>3. CASE Ask
  <2>1. CASE \E n \in Node : Pick(n)
    BY <1>1, <2>1 DEF Pick
  <2>2. CASE Bootstrapped
    BY <1>2, <2>2 DEF Bootstrapped
  <2>3. CASE Reload
    BY <2>3 DEF Reload, Loaded, StoredInv
  <2> QED BY <1>3, <2>1, <2>2, <2>3 DEF Ask
<1>4. CASE BootstrapFails
  BY <1>1, <1>4 DEF BootstrapFails
<1>5. ASSUME NEW a \in Address, NEW e \in DOMAIN races, Answer(e, a)
      PROVE  Grows
  BY <1>1, <1>5 DEF Answer, Arrive, ArriveLate, RequestFails, Garble
<1>6. ASSUME NEW a \in Address, Panels(a)
      PROVE  Grows
  <2>1. CASE \E n \in Node : Hear(a, n)
    BY <1>2, <2>1 DEF Hear
  <2>2. CASE Interfaces(a) \/ InterfacesFail(a) \/ AskAgain(a) \/ EndOfTransmission(a)
    BY <1>1, <2>2 DEF Interfaces, InterfacesFail, AskAgain, EndOfTransmission
  <2> QED BY <1>6, <2>1, <2>2 DEF Panels
<1>7. ASSUME NEW a \in Address, Statistics(a)
      PROVE  Grows
  BY <1>1, <1>7 DEF Statistics, navVars
<1>8. CASE UNCHANGED vars
  BY <1>1, <1>8 DEF vars, navVars
<1> QED BY <1>3, <1>4, <1>5, <1>6, <1>7, <1>8 DEF Next

\* Where localStorage works, no node is forgotten, by a reload at no moment either
\* (main.js 86-107).
THEOREM ListIsKept == Spec => NothingForgotten
<1>1. Init => StoredInv
  BY DEF Init, NavInit, StoredInv
<1>2. StoredInv /\ [Next]_vars => StoredInv' /\ [lsavailable => nodes \subseteq nodes']_navVars
  BY ListGrows
<1> QED BY <1>1, <1>2, PTL DEF Spec, NothingForgotten

-----------------------------------------------------------------------------
(***************************************************************************)
(* The page implements Browsing.                                           *)
(***************************************************************************)
\* What a page is for that nobody has asked for a node.
LEMMA FreshIsFresh ==
  ASSUME title = NoNode, connections = {}
  PROVE  Promise!Fresh
BY DEF Promise!Fresh, Mode, Listening, Listened

\* What Browsing sees does not change.
LEMMA Stutters ==
  ASSUME UNCHANGED <<title, icon, connections>>
  PROVE  UNCHANGED Promise!vars
BY DEF Promise!vars, Mode, Listening, Listened

LEMMA GotoAsks ==
  ASSUME NEW n \in Node, Goto(n)
  PROVE  Promise!Ask(n)
<1>1. title' = n /\ Mode' = "connecting"
  BY NodesAssumption DEF Goto, Mode
<1>2. Listening' = {}
  BY DEF Goto, Kept, Listening, Listened
<1> QED BY <1>1, <1>2 DEF Promise!Ask

LEMMA AskMaps ==
  ASSUME Ask
  PROVE  Promise!Next
<1>1. CASE \E n \in Node : Pick(n)
  BY <1>1, GotoAsks DEF Pick, Promise!Next
<1>2. CASE Bootstrapped
  BY <1>2, GotoAsks, NodesAssumption DEF Bootstrapped, Promise!Next
<1>3. CASE Reload
  <2>1. title' = NoNode /\ connections' = {}
    BY <1>3 DEF Reload, EmptyPage
  <2>2. Promise!Restart
    BY <2>1 DEF Promise!Restart, Promise!Fresh, Mode, Listening, Listened
  <2> QED BY <2>2 DEF Promise!Next
<1> QED BY <1>1, <1>2, <1>3 DEF Ask

LEMMA ArriveMaps ==
  ASSUME PageInv, PageInv', NEW e, NEW a \in Address, Arrive(e, a)
  PROVE  Promise!Next
<1>1. /\ title \in Node /\ title # NoNode /\ icon = "connect"
      /\ title' = title /\ icon' = ""
  BY ArrivesWhereAsked
<1>2. Mode = "connecting" /\ Mode' = "arrived"
  BY <1>1 DEF Mode
<1>3. PICK b \in Address : ListensAt(b)'
  BY <1>1 DEF PageInv, ListenInv, Arrived
<1>4. Listening' = {b} /\ b \in Addresses[title]
  <2>1. b \in Addresses[title]
    BY <1>1, <1>3 DEF ListensAt
  <2>2. Connection("statistics", b) \in Listened'
    BY <1>3, ConnectionFields DEF ListensAt, Listened
  <2>3. \A c \in Listened' : c.ip = b
    BY <1>3 DEF ListensAt
  <2>4. Listening' = {b}
    BY <2>2, <2>3, ConnectionFields DEF Listening
  <2> QED BY <2>1, <2>4
<1> QED BY <1>1, <1>2, <1>4 DEF Promise!Arrive, Promise!Next

LEMMA RequestFailsMaps ==
  ASSUME PageInv, NEW e \in DOMAIN races, NEW a, RequestFails(e, a)
  PROVE  Promise!Next \/ UNCHANGED Promise!vars
<1>1. CASE races[e].open = {a} /\ OnEpoch(e)
  <2>1. /\ title \in Node /\ title # NoNode /\ icon = "connect"
        /\ title' = title /\ icon' = "fail" /\ connections' = connections
    BY <1>1, NodesAssumption DEF RequestFails, OnEpoch, PageInv, RaceInv
  <2>2. Mode = "connecting" /\ Mode' = "failed" /\ Listening' = Listening
    BY <2>1 DEF Mode, Listening, Listened
  <2> QED BY <2>1, <2>2 DEF Promise!Fail, Promise!Next
<1>2. CASE ~(races[e].open = {a} /\ OnEpoch(e))
  BY <1>2, Stutters DEF RequestFails
<1> QED BY <1>1, <1>2

LEMMA StepMaps ==
  ASSUME PageInv, PageInv', [Next]_vars
  PROVE  [Promise!Next]_(Promise!vars)
<1>1. CASE Ask
  BY <1>1, AskMaps
<1>2. CASE BootstrapFails
  BY <1>2, Stutters DEF BootstrapFails, page
<1>3. ASSUME NEW a \in Address, NEW e \in DOMAIN races, Answer(e, a)
      PROVE  Promise!Next \/ UNCHANGED Promise!vars
  <2>1. CASE Arrive(e, a)
    BY <2>1, ArriveMaps
  <2>2. CASE ArriveLate(e, a)
    BY <2>2, Stutters DEF ArriveLate
  <2>3. CASE RequestFails(e, a)
    BY <2>3, RequestFailsMaps
  <2>4. CASE Garble(e, a)
    BY <2>4, Stutters DEF Garble
  <2> QED BY <1>3, <2>1, <2>2, <2>3, <2>4 DEF Answer
<1>4. ASSUME NEW a \in Address, Panels(a)
      PROVE  UNCHANGED Promise!vars
  <2>1. UNCHANGED <<title, icon>> /\ Listening' = Listening
    BY <1>4, PanelsListen
  <2> QED BY <2>1 DEF Promise!vars, Mode
<1>5. ASSUME NEW a \in Address, Statistics(a)
      PROVE  UNCHANGED Promise!vars
  BY <1>5, Stutters DEF Statistics, navVars, page
<1>6. CASE UNCHANGED vars
  BY <1>6, Stutters DEF vars, navVars, page
<1> QED BY <1>1, <1>2, <1>3, <1>4, <1>5, <1>6 DEF Next

\* The page keeps the promise of Browsing: it arrives only at the node asked for last,
\* at most once, and listens to one address of that node (onEpoch and the race of main.js).
THEOREM PromiseIsKept == Spec => KeepsPromise
<1>1. Init => Promise!Init
  BY FreshIsFresh DEF Init, NavInit, Promise!Init
<1>2. PageInv /\ PageInv' /\ [Next]_vars => [Promise!Next]_(Promise!vars)
  BY StepMaps
<1> QED BY <1>1, <1>2, Invariance, PTL DEF Spec, KeepsPromise, Promise!Spec

-----------------------------------------------------------------------------
(***************************************************************************)
(* The statistics panel.                                                   *)
(***************************************************************************)
\* The window holds nothing, one uptime, or two that differ.
WindowInv ==
  \/ window = <<>>
  \/ \E s \in Nat : window = <<s>>
  \/ \E s, t \in Nat : s # t /\ window = <<s, t>>

\* A report more than one.
LEMMA OneMore ==
  ASSUME NEW s \in Nat, NEW u \in Nat
  PROVE  Len(<<s>>) = 1 /\ Append(<<s>>, u) = <<s, u>>
<1> DEFINE w == Append(<<s>>, u)
<1>1. Len(<<s>>) = 1 /\ <<s>> \in Seq(Nat)
  OBVIOUS
<1>2. w \in Seq(Nat) /\ Len(w) = 2
  BY <1>1
<1>3. w[1] = s /\ w[2] = u
  BY <1>1
<1> HIDE DEF w
<1>4. w = <<s, u>>
  BY <1>2, <1>3
<1> QED BY <1>1, <1>4 DEF w

LEMMA ReportKeeps ==
  ASSUME WindowInv, NEW m \in Message, Report(m)
  PROVE  WindowInv'
<1>1. m.uptime \in Nat
  BY MessagesAssumption
<1>2. window' = Slide(window, m.uptime) /\ ~Duplicate(m.uptime)
  BY DEF Report
<1>3. CASE window = <<>>
  <2>1. window' = <<m.uptime>>
    BY <1>2, <1>3 DEF Slide
  <2> QED BY <1>1, <2>1 DEF WindowInv
<1>4. ASSUME NEW s \in Nat, window = <<s>>
      PROVE  WindowInv'
  <2>1. s # m.uptime
    BY <1>2, <1>4 DEF Duplicate, Last
  <2>2. window' = <<s, m.uptime>>
    BY <1>1, <1>2, <1>4, OneMore DEF Slide
  <2> QED BY <1>1, <2>1, <2>2 DEF WindowInv
<1>5. ASSUME NEW s \in Nat, NEW t \in Nat, window = <<s, t>>
      PROVE  WindowInv'
  <2>1. t # m.uptime
    BY <1>2, <1>5 DEF Duplicate, Last
  <2>2. window' = <<t, m.uptime>>
    BY <1>2, <1>5 DEF Slide
  <2> QED BY <1>1, <2>1, <2>2 DEF WindowInv
<1> QED BY <1>3, <1>4, <1>5 DEF WindowInv

LEMMA SameWindow ==
  ASSUME WindowInv, window' = window
  PROVE  WindowInv'
BY DEF WindowInv

LEMMA WindowKeeps ==
  ASSUME WindowInv, [Next]_vars
  PROVE  WindowInv'
<1>1. CASE Ask
  <2>1. window' = <<>>
    BY <1>1 DEF Ask, NewPanel
  <2> QED BY <2>1 DEF WindowInv
<1>2. CASE BootstrapFails /\ UNCHANGED statVars
  BY <1>2, SameWindow DEF statVars
<1>3. ASSUME NEW a \in Address, NEW e \in DOMAIN races, Answer(e, a)
      PROVE  WindowInv'
  <2>1. window' = <<>> \/ window' = window
    BY <1>3 DEF Answer, NewPanel, statVars
  <2>2. CASE window' = <<>>
    BY <2>2 DEF WindowInv
  <2> QED BY <2>1, <2>2, SameWindow
<1>4. ASSUME NEW a \in Address, Panels(a)
      PROVE  WindowInv'
  BY <1>4, SameWindow DEF Panels, statVars
<1>5. ASSUME NEW a \in Address, Statistics(a)
      PROVE  WindowInv'
  BY <1>5, ReportKeeps DEF Statistics
<1>6. CASE UNCHANGED vars
  BY <1>6, SameWindow DEF vars, statVars
<1> QED BY <1>1, <1>2, <1>3, <1>4, <1>5, <1>6 DEF Next

LEMMA WindowAlways == Spec => []WindowInv
<1>1. Init => WindowInv
  BY DEF Init, StatInit, WindowInv
<1>2. WindowInv /\ [Next]_vars => WindowInv'
  BY WindowKeeps
<1> QED BY <1>1, <1>2, PTL DEF Spec

\* The rate never divides by zero, whatever the node reports and however often it
\* reports the same (skipDuplicates in streams.js, deltaUptime in statistics.js).
THEOREM RateIsDefined == Spec => []RateDefined
<1>1. WindowInv => RateDefined
  BY DEF WindowInv, RateDefined
<1> QED BY <1>1, WindowAlways, PTL

\* For every number of seconds prettyUptime shows a time of day, half a minute off
\* at most.
LEMMA PrettyUptime ==
  ASSUME NEW s \in Nat
  PROVE  LET shown == ((Days(s) * 24 + Hours(s)) * 60 + Minutes(s)) * 60
         IN  Hours(s) < 24 /\ Minutes(s) < 60 /\ shown - 30 <= s /\ s < shown + 30
<1> DEFINE m == (s + 30) \div 60
<1>1. m \in Nat /\ 60 * m <= s + 30 /\ s + 30 < 60 * m + 60
  OBVIOUS
<1>2. /\ Days(s) = m \div 1440 /\ Hours(s) = (m % 1440) \div 60 /\ Minutes(s) = m % 60
  BY DEF Days, Hours, Minutes
<1> HIDE DEF m
<1>3. ((m \div 1440) * 24 + (m % 1440) \div 60) * 60 + (m % 60) = m
  <2> DEFINE d == m \div 1440
             r == m % 1440
  <2>1. d \in Nat /\ r \in Nat /\ m = 1440 * d + r
    BY <1>1
  <2>2. r = 60 * (r \div 60) + (r % 60)
    BY <2>1
  <2>3. m % 60 = r % 60
    BY <2>1
  <2> HIDE DEF d, r
  <2>4. (d * 24 + r \div 60) * 60 + (r % 60) = m
    BY <2>1, <2>2
  <2> QED BY <2>3, <2>4 DEF d, r
<1>4. (m % 1440) \div 60 < 24 /\ m % 60 < 60
  BY <1>1
<1> QED BY <1>1, <1>2, <1>3, <1>4

\* What is shown of the uptime is right to half a minute, for every uptime the node
\* reports (prettyUptime in statistics.js).
THEOREM UptimeShown == Spec => []UptimeIsRounded
<1>1. WindowInv => UptimeIsRounded
  BY PrettyUptime DEF WindowInv, UptimeIsRounded
<1> QED BY <1>1, WindowAlways, PTL
=============================================================================
