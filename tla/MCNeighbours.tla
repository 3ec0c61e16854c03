---------------------------- MODULE MCNeighbours ----------------------------
(***************************************************************************)
(* A wireless interface with two stations, one of them a node that         *)
(* answers, and an interface batman-adv alone knows, with one node.  One   *)
(* colour, so that a second row finds none left.                           *)
(***************************************************************************)
EXTENDS Neighbours

MCStationOn == [w |-> {"s1", "s2"}, b |-> {"t"}]
MCBatadvReport == [w : {{}, {"s1"}}, b : {{}, {"t"}}]
MCColours == <<"blue">>
=============================================================================
