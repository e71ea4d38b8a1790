-------------------------- MODULE MCHostConfigure --------------------------
(***************************************************************************)
(* Small instances of HostConfigure.                                       *)
(***************************************************************************)
EXTENDS HostConfigure, TLC

req(b, e, u) == [build |-> b, env |-> e, unit |-> u]

\* Two jobs of one build and one of another sharing the env; an env that the
\* store does not have; two versions of the unit.
MCRequests == {req(1, 1, "u1"), req(1, 2, "u2"), req(2, 1, "u2")}
MCOneBuild == {req(1, 1, "u1"), req(1, 1, "u2")}

MCSymmetry == Permutations(Job)
=============================================================================
