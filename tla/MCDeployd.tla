----------------------------- MODULE MCDeployd -----------------------------
(***************************************************************************)
(* Small instances of Deployd.                                             *)
(***************************************************************************)
EXTENDS Deployd

CONSTANTS a, b          \* hosts

to(h, r) == [host |-> h, replica |-> r]

\* Both hosts, in one order; in either order.
MCOneOrder == {<<to(a, 1), to(b, 2)>>}
MCBothOrders == {<<to(a, 1), to(b, 2)>>, <<to(b, 1), to(a, 2)>>}
=============================================================================
