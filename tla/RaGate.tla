-------------------------------- MODULE RaGate --------------------------------
(***************************************************************************)
(* What gluon-radv-filterd promises, without saying how: router            *)
(* advertisements pass a gate.  At boot the gate is open for everybody.    *)
(* From then on it is shut only on behalf of a router that has been        *)
(* chosen, and it is opened only from the shut state, for one router, and  *)
(* only for the one that was chosen; a router is chosen among those that   *)
(* are known to be default routers at that time.                           *)
(***************************************************************************)
CONSTANTS Router, Nobody, Everybody

VARIABLES
  known,     \* the routers that may be chosen
  chosen,    \* the router the gate is being changed for, or Nobody
  admitted   \* those whose advertisements pass

vars == << known, chosen, admitted >>

Init ==
  /\ known = {}
  /\ chosen = Nobody
  /\ admitted = {Everybody}

Hear ==
  /\ \E r \in Router : known' = known \union {r}
  /\ UNCHANGED << chosen, admitted >>

\* Routers are forgotten; what was begun for a router may be given up.
Forget ==
  /\ known' \subseteq known
  /\ chosen' \in {chosen, Nobody}
  /\ UNCHANGED admitted

Choose ==
  /\ chosen' \in known
  /\ UNCHANGED << known, admitted >>

Shut ==
  /\ chosen # Nobody
  /\ admitted' = {}
  /\ UNCHANGED << known, chosen >>

Admit ==
  /\ chosen # Nobody
  /\ admitted = {}
  /\ admitted' = {chosen}
  /\ UNCHANGED << known, chosen >>

Next == Hear \/ Forget \/ Choose \/ Shut \/ Admit

Spec == Init /\ [][Next]_vars
===============================================================================
