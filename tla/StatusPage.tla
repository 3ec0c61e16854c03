----------------------------- MODULE StatusPage -----------------------------
(***************************************************************************)
(* The page: Navigation composed with the statistics panel, which is made  *)
(* when a node answers and destroyed when the user goes to the next one.   *)
(***************************************************************************)
EXTENDS Navigation, Statistics

vars == <<navVars, statVars>>

Init == NavInit /\ StatInit

Ask ==
  /\ (\E n \in Node : Pick(n)) \/ Bootstrapped \/ Reload
  /\ NewPanel

Answer(e, a) ==
  \/ Arrive(e, a) /\ NewPanel
  \/ (ArriveLate(e, a) \/ RequestFails(e, a) \/ Garble(e, a)) /\ UNCHANGED statVars

Panels(a) ==
  /\ \/ Interfaces(a) \/ InterfacesFail(a) \/ AskAgain(a)
     \/ (\E n \in Node : Hear(a, n)) \/ EndOfTransmission(a)
  /\ UNCHANGED statVars

\* The source is open exactly as long as somebody is subscribed to it.
Statistics(a) ==
  /\ Connection("statistics", a) \in connections
  /\ \E m \in Message : Report(m)
  /\ UNCHANGED navVars

Next ==
  \/ Ask
  \/ BootstrapFails /\ UNCHANGED statVars
  \/ \E a \in Address :
       \/ \E e \in DOMAIN races : Answer(e, a)
       \/ Panels(a)
       \/ Statistics(a)

\* A request of the browser ends, with a network error if nothing else.
Fairness == WF_vars(\E a \in Address : Answer(gotoEpoch, a))

Spec == Init /\ [][Next]_vars /\ Fairness
-----------------------------------------------------------------------------
(***************************************************************************)
(* Properties.                                                             *)
(***************************************************************************)
TypeOK == NavTypeOK /\ StatTypeOK

\* A page that looks for a node finds out: it arrives or fails at last,
\* unless nothing is under way any more (StrandsForAReason says when).
GotoSettles ==
  (icon = "connect" /\ ~Stranded) ~> (icon # "connect" \/ Stranded)

\* The page as Browsing sees it.
Mode ==
  IF title = NoNode THEN "idle"
  ELSE IF icon = "connect" THEN "connecting"
  ELSE IF icon = "fail" THEN "failed" ELSE "arrived"
\* The sources of the querier only tell which nodes there are.
Listened == {c \in connections : c.kind # "nodeinfo"}
Listening == {c.ip : c \in Listened}

\* The page keeps the promise of Browsing: whatever replies come late, it arrives
\* only at the node asked for last, at most once, and the panels' sources it keeps
\* open are all to one address, of that node, and closed when the user moves on.
Promise == INSTANCE Browsing WITH
  shown <- title, state <- Mode, listening <- Listening
KeepsPromise == Promise!Spec
=============================================================================
