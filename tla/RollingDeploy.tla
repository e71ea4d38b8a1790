--------------------------- MODULE RollingDeploy ---------------------------
(***************************************************************************)
(* What the deployment-job application promises of a job, with everything  *)
(* but the rolling restart forgotten: the hosts of the plan get the turn   *)
(* one by one, in order; everybody has had it when it has passed the last  *)
(* host; a rollout can be withdrawn and begun again, from the first host.  *)
(***************************************************************************)
EXTENDS Integers, Sequences

CONSTANT Plans      \* the restart orders, sequences of hosts, a rollout may have

VARIABLE rollouts   \* plan: hosts in order; turn: the place of the host whose
                    \* turn it is, 0 for nobody yet, Len(plan) + 1 when done

Init == rollouts = <<>>

\* A new rollout: nobody has the turn.
Submit(plan) == rollouts' = Append(rollouts, [plan |-> plan, turn |-> 0])

\* The turn starts at the first host of the plan.
Begin(id) ==
    /\ rollouts[id].turn = 0
    /\ rollouts' = [rollouts EXCEPT ![id].turn = 1]

\* The host whose turn it is hands it on; the last one finishes the rollout.
Pass(id) ==
    /\ rollouts[id].turn \in 1..Len(rollouts[id].plan)
    /\ rollouts' = [rollouts EXCEPT ![id].turn = @ + 1]

\* The rollout is failed, cancelled or put back to be confirmed again.
Withdraw(id) == rollouts' = [rollouts EXCEPT ![id].turn = 0]

Next ==
    \/ \E plan \in Plans : Submit(plan)
    \/ \E id \in DOMAIN rollouts : Begin(id) \/ Pass(id) \/ Withdraw(id)

Spec == Init /\ [][Next]_rollouts
=============================================================================
