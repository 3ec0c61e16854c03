----------------------------- MODULE MCWireless -----------------------------
(***************************************************************************)
(* One radio, switched off by the site, and the first hours of the day and *)
(* of the night.                                                           *)
(***************************************************************************)
EXTENDS Wireless

MCSiteDisabled == [radio1 |-> 1]
MCHours == <<6, 22>>
=============================================================================
