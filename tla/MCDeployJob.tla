---------------------------- MODULE MCDeployJob ----------------------------
(***************************************************************************)
(* Small instances of DeployJob.                                           *)
(***************************************************************************)
EXTENDS DeployJob

CONSTANTS a, b, c       \* hosts

to(h, r) == [host |-> h, replica |-> r]

\* One, two and three hosts in different orders; a host may be named twice as
\* long as the replica ids differ; a list that repeats a replica id and an
\* empty one, both refused.
MCTargets ==
    {<<to(a, 1)>>, <<to(a, 1), to(b, 2)>>, <<to(b, 1), to(a, 2), to(c, 3)>>,
     <<to(a, 1), to(a, 2), to(b, 3)>>,
     <<to(a, 1), to(b, 1)>>, <<>>}

MCTwoHosts == {<<to(a, 1), to(b, 2)>>}
=============================================================================
