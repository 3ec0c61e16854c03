---------------------------- MODULE MCSiteSelect ----------------------------
(***************************************************************************)
(* Two communities, one that /etc/config/siteselect has no path for, and   *)
(* zzz.                                                                    *)
(***************************************************************************)
EXTENDS SiteSelect

MCCode == {"gt8", "zzz", "old"}
MCKnown == {"gt8", "zzz"}
=============================================================================
