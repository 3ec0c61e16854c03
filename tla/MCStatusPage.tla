---------------------------- MODULE MCStatusPage ----------------------------
(***************************************************************************)
(* A node with two addresses, one with one, and one that has only a        *)
(* link-local one.  Reports before and after a reboot, with uptimes next   *)
(* to a full hour and a full day; peers p and r have the same name in      *)
(* different groups, q comes before them.                                  *)
(***************************************************************************)
EXTENDS StatusPage

MCAddresses == [n1 |-> {"a1", "a2"}, n2 |-> {"b"}, n3 |-> {}]
MCLabel == [p |-> 2, q |-> 1, r |-> 2]
MCVpn ==
  { NoVpn, <<>>,
    [p |-> "established"],
    [p |-> "null", q |-> "established"],
    [p |-> "established", r |-> "null"],
    [q |-> "null", r |-> "established"] }
MCMessage == [uptime : {3569, 86370}, vpn : MCVpn]
=============================================================================
