---------------------------- MODULE MCSubmitGate ----------------------------
(***************************************************************************)
(* The small instance of SubmitGate: three requests for two services, or   *)
(* one that is not defined, on two hosts whose clocks differ by one.       *)
(***************************************************************************)
EXTENDS SubmitGate, TLC

CONSTANTS h1, h2

MCHost == {h1, h2}
MCOffset == h1 :> 0 @@ h2 :> 1
On(h, id) == [host |-> h, replica |-> id]

\* A good list, and one whose replica ids are the same.
MCTargetLists == {<<On(h1, 1)>>, <<On(h1, 1), On(h2, 1)>>}
MCSymmetry == Permutations(Request)
=============================================================================
