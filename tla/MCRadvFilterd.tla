---------------------------- MODULE MCRadvFilterd ----------------------------
(***************************************************************************)
(* Small instances of RadvFilterd.  Bytes have two values (Radix 2), so a  *)
(* lifetime is one of four pairs; the clock's unit is MIN_INTERVAL.        *)
(***************************************************************************)
EXTENDS RadvFilterd

CONSTANTS o1, o2

MCLifetime == {<< 0, 1 >>, << 1, 0 >>}
MCLifetimeWide == MCLifetime \union {<< 1, 1 >>}
\* A page fresh from the kernel, and the chunk of a router that was freed.
MCGarbage == {[originator |-> Unspec, tq |-> 0], [originator |-> o1, tq |-> 2]}

\* Nothing was ever freed: every page is fresh from the kernel.
MCFreshPage == {[originator |-> Unspec, tq |-> 0]}

\* For one originator: the page fresh from the kernel has a TQ to tell apart.
MCGarbageOne == {[originator |-> Unspec, tq |-> 1], [originator |-> o1, tq |-> 0]}

\* No definition tells two routers, or two process ids, apart.
Symmetry == Permutations(Router) \union Permutations(Pid)
=============================================================================
