-------------------------- MODULE MCSystemdMonitor --------------------------
(***************************************************************************)
(* A small instance of SystemdMonitor: two clients and one unit, which is  *)
(* loaded when the process starts.                                         *)
(***************************************************************************)
EXTENDS SystemdMonitor

CONSTANT unit

MCUnit == {unit}
MCInitial == [MCUnit -> {"active"}]
=============================================================================
