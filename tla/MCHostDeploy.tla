---------------------------- MODULE MCHostDeploy ----------------------------
(***************************************************************************)
(* The small instance of HostDeploy: two healthy builds, one that dies,    *)
(* and one that is not installed.                                          *)
(***************************************************************************)
EXTENDS HostDeploy
=============================================================================
