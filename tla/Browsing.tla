------------------------------ MODULE Browsing ------------------------------
(***************************************************************************)
(* What the status page promises whoever browses the mesh with it: it      *)
(* shows the node that was last asked for, the attempt to get there ends   *)
(* at most once and for that node, and while the page listens to an        *)
(* address, it is one of the node it shows.                                *)
(***************************************************************************)
CONSTANTS
  Node,       \* nodes of the mesh
  Addresses,  \* per node: the addresses it can be reached at
  NoNode      \* the title "(not connected)"

VARIABLES
  shown,     \* the node in the title
  state,     \* of the attempt to reach it
  listening  \* addresses the panels get their values from

vars == <<shown, state, listening>>

Fresh == shown = NoNode /\ state = "idle" /\ listening = {}
Init == Fresh

Ask(n) == shown' = n /\ state' = "connecting" /\ listening' = {}

Arrive ==
  /\ state = "connecting"
  /\ state' = "arrived" /\ shown' = shown
  /\ \E a \in Addresses[shown] : listening' = {a}

Fail ==
  /\ state = "connecting"
  /\ state' = "failed" /\ UNCHANGED <<shown, listening>>

Restart == Fresh'

Next == (\E n \in Node : Ask(n)) \/ Arrive \/ Fail \/ Restart

Spec == Init /\ [][Next]_vars
=============================================================================
