------------------------- MODULE HostDeploy_proofs -------------------------
(***************************************************************************)
(* Proofs about restarting a service on a host, for any builds and         *)
(* environments and any number of failing calls and crashes: the state is  *)
(* well formed, success means the requested pair was started, and Deploy   *)
(* keeps the promise of ServiceOnHost.                                     *)
(*                                                                         *)
(* The unit stays stopped while the links are switched, because systemd    *)
(* only restarts what it runs; from there the process that Verify finds is *)
(* the one the new links gave.                                             *)
(***************************************************************************)
EXTENDS HostDeploy, TLAPS

Pair == Link(Build) \X Link(Env)

LEMMA PairFields ==
    ASSUME NEW p \in Pair
    PROVE  p[1] \in Link(Build) /\ p[2] \in Link(Env) /\ p = <<p[1], p[2]>>
BY DEF Pair

LEMMA TargetFields ==
    ASSUME NEW p \in Build \X Env
    PROVE  /\ p[1] \in Build /\ p[2] \in Env /\ p = <<p[1], p[2]>>
           /\ p[1] # None /\ p[2] # None /\ p \in Pair
BY HostDeployAssumption DEF HostDeployAssumption, Pair, Link

LEMMA Counters ==
    ASSUME TypeOK
    PROVE  /\ (Fault => faults' \in 0..MaxFaults) /\ faults \in 0..MaxFaults
           /\ (crashes < MaxCrashes => crashes + 1 \in 0..MaxCrashes)
BY HostDeployAssumption DEF TypeOK, Fault, HostDeployAssumption

LEMMA InitInv == Init => IInv
BY HostDeployAssumption
   DEF Init, IInv, TypeOK, InDeploy, SuccessStarted, NoPair, Link, Steps, HostDeployAssumption

LEMMA NextInv ==
    ASSUME IInv, [Next]_vars
    PROVE  IInv'
<1> USE DEF IInv, Pair
<1>0. /\ TypeOK /\ InDeploy /\ SuccessStarted
      /\ build \in Link(Build) /\ env \in Link(Env) /\ proc \in Pair /\ target \in Pair
      /\ prev \in Pair /\ before \in Pair /\ <<build, env>> \in Pair
      /\ at \in Steps /\ unit \in {"stopped", "running", "dying"}
      /\ outcome \in {"none", "ok", "failed"}
  BY DEF TypeOK
<1>1. ASSUME NEW b \in Build, NEW e \in Env, Begin(b, e)
      PROVE  IInv'
  BY <1>0, <1>1 DEF Begin, Return, TypeOK, InDeploy, SuccessStarted, Link, Steps, unitVars, linkVars
<1>2. CASE Connect
  BY <1>0, <1>2, Counters
     DEF Connect, GoTo, Return, TypeOK, InDeploy, SuccessStarted, Steps, unitVars, linkVars
<1>3. CASE Stop
  BY <1>0, <1>3, Counters
     DEF Stop, GoTo, Return, TypeOK, InDeploy, SuccessStarted, Steps, unitVars, linkVars
<1>4. CASE SwitchBuild
  BY <1>0, <1>4, Counters
     DEF SwitchBuild, GoTo, Return, TypeOK, InDeploy, SuccessStarted, Steps, unitVars, linkVars
<1>5. CASE SwitchEnv
  BY <1>0, <1>5, Counters
     DEF SwitchEnv, GoTo, Return, TypeOK, InDeploy, SuccessStarted, Steps, unitVars, linkVars
<1>6. CASE RestoreBuild
  BY <1>0, <1>6, Counters
     DEF RestoreBuild, RestoreLink, GoTo, Return, TypeOK, InDeploy, SuccessStarted, Steps, unitVars, linkVars
<1>7. CASE Start
  <2>1. target \in Build \X Env /\ unit = "stopped" /\ build = target[1] /\ env = target[2]
    BY <1>0, <1>7 DEF Start, InDeploy
  <2>2. target[1] # None /\ <<build, env>> = target /\ <<build, env>> # NoPair
    BY <2>1, TargetFields DEF NoPair
  <2>3. CASE StartUnit /\ GoTo("verify") /\ UNCHANGED faults
    <3>1. proc' = target /\ unit' \in {"running", "dying"}
      BY <2>1, <2>2, <2>3 DEF StartUnit, StartProcess, Alive
    <3> QED
      BY <1>0, <1>7, <2>1, <2>2, <2>3, <3>1
         DEF Start, GoTo, TypeOK, InDeploy, SuccessStarted, Steps, linkVars
  <2>4. CASE Fault /\ GoTo("rollbackBuild") /\ UNCHANGED unitVars
    BY <1>0, <1>7, <2>1, <2>4, Counters
       DEF Start, GoTo, TypeOK, InDeploy, SuccessStarted, Steps, unitVars, linkVars
  <2> QED
    BY <1>7, <2>3, <2>4 DEF Start
<1>8. CASE Verify
  BY <1>0, <1>8, Counters
     DEF Verify, GoTo, Return, TypeOK, InDeploy, SuccessStarted, Steps, unitVars, linkVars
<1>9. CASE RollbackBuild
  <2>1. target \in Build \X Env /\ build = target[1]
    BY <1>0, <1>9 DEF RollbackBuild, InDeploy
  <2>2. build # None /\ prev[1] \in Link(Build)
    BY <1>0, <2>1, TargetFields, PairFields
  <2>3. build' \in Link(Build) /\ build' # None /\ faults' \in 0..MaxFaults
    BY <1>0, <1>9, <2>2, Counters DEF RollbackBuild, RestoreLink
  <2> QED
    BY <1>0, <1>9, <2>1, <2>3
       DEF RollbackBuild, GoTo, TypeOK, InDeploy, SuccessStarted, Steps, unitVars
<1>10. CASE RollbackEnv
  BY <1>0, <1>10, Counters
     DEF RollbackEnv, RestoreLink, GoTo, Return, TypeOK, InDeploy, SuccessStarted, Steps, unitVars, linkVars
<1>11. CASE RollbackStart
  BY <1>0, <1>11, Counters
     DEF RollbackStart, StartUnit, StartProcess, GoTo, Return, TypeOK, InDeploy, SuccessStarted, Steps, unitVars, linkVars, Alive, NoPair
<1>12. CASE AutoRestart
  BY <1>0, <1>12, Counters
     DEF AutoRestart, StartProcess, GoTo, Return, TypeOK, InDeploy, SuccessStarted, Steps, unitVars, linkVars, Alive, NoPair
<1>13. CASE ProcessDies
  BY <1>0, <1>13, Counters
     DEF ProcessDies, TypeOK, InDeploy, SuccessStarted, Steps, unitVars, linkVars
<1>14. CASE Crash
  BY <1>0, <1>14, Counters
     DEF Crash, TypeOK, InDeploy, SuccessStarted, Steps, unitVars, linkVars
<1>15. CASE UNCHANGED vars
  BY <1>0, <1>15 DEF vars, TypeOK, InDeploy, SuccessStarted
<1> QED
  BY <1>1, <1>2, <1>3, <1>4, <1>5, <1>6, <1>7, <1>8, <1>9, <1>10, <1>11, <1>12, <1>13,
     <1>14, <1>15 DEF Next, DeployStep

\* Every state of a host is well formed, inside a Deploy the steps already taken
\* show in the links and the unit, and success means the pair was started.
THEOREM Invariance == Spec => []IInv
BY InitInv, NextInv, PTL DEF Spec

\* The links, the unit and the Deploy call keep their types (job_deploy_restart.go).
THEOREM TypeCorrect == Spec => []TypeOK
<1>1. IInv => TypeOK
  BY DEF IInv
<1> QED
  BY <1>1, Invariance, PTL

\* A Deploy that returns no error has linked and started the requested build and
\* env, whatever failed or crashed in the calls before it.
THEOREM SuccessAlwaysStarted == Spec => []SuccessStarted
<1>1. IInv => SuccessStarted
  BY DEF IInv
<1> QED
  BY <1>1, Invariance, PTL

-----------------------------------------------------------------------------
(* What a failed Deploy leaves.  The links before the call are kept in     *)
(* prev, and each way back restores them unless a second thing goes wrong; *)
(* a build that died is dying until another link is there to start from.   *)

LEMMA InitMishap == Init => MishapInv
BY InitInv DEF Init, MishapInv, WayBackInv, UnitInv, LinksPaired, FailureRollsBack,
   HadDeployment, RollingBack, NoPair

LEMMA NextMishap ==
    ASSUME MishapInv, [Next]_vars
    PROVE  MishapInv'
<1> USE DEF MishapInv, WayBackInv, UnitInv, OneMishap, RollingBack,
            LinksPaired, FailureRollsBack, HadDeployment
<1>0. /\ IInv /\ IInv' /\ TypeOK /\ InDeploy
      /\ build \in Link(Build) /\ env \in Link(Env) /\ proc \in Pair /\ target \in Pair
      /\ prev \in Pair /\ before \in Pair
      /\ unit \in {"stopped", "running", "dying"}
      /\ faults \in Nat /\ crashes \in Nat /\ at \in Steps
      /\ proc = <<proc[1], proc[2]>> /\ target = <<target[1], target[2]>>
      /\ prev = <<prev[1], prev[2]>> /\ before = <<before[1], before[2]>>
  <2>1. IInv /\ IInv' /\ TypeOK /\ InDeploy
    BY NextInv DEF IInv
  <2> QED
    BY <2>1, PairFields, HostDeployAssumption DEF TypeOK, Pair, HostDeployAssumption
<1>1. ASSUME NEW b \in Build, NEW e \in Env, Begin(b, e)
      PROVE  MishapInv'
  BY <1>0, <1>1 DEF Begin, Return, unitVars, linkVars
<1>2. CASE Connect
  BY <1>0, <1>2 DEF Connect, Fault, GoTo, Return, unitVars, linkVars
<1>3. CASE Stop
  BY <1>0, <1>3 DEF Stop, Fault, GoTo, Return, linkVars
<1>4. CASE SwitchBuild
  BY <1>0, <1>4 DEF SwitchBuild, Fault, GoTo, Return, InDeploy, unitVars
<1>5. CASE SwitchEnv
  BY <1>0, <1>5 DEF SwitchEnv, Fault, GoTo, InDeploy, unitVars
<1>6. CASE RestoreBuild
  BY <1>0, <1>6 DEF RestoreBuild, RestoreLink, Fault, Return, InDeploy, unitVars
<1>7. CASE Start
  BY <1>0, <1>7 DEF Start, StartUnit, StartProcess, Alive, Fault, GoTo, InDeploy, unitVars, linkVars
<1>8. CASE Verify
  BY <1>0, <1>8 DEF Verify, Fault, GoTo, Return, InDeploy, unitVars, linkVars
<1>9. CASE RollbackBuild
  BY <1>0, <1>9 DEF RollbackBuild, RestoreLink, Fault, GoTo, InDeploy, unitVars
<1>10. CASE RollbackEnv
  BY <1>0, <1>10 DEF RollbackEnv, RestoreLink, Fault, GoTo, InDeploy, unitVars
<1>11. CASE RollbackStart
  BY <1>0, <1>11 DEF RollbackStart, StartUnit, StartProcess, Alive, Fault, Return, InDeploy, unitVars, linkVars
<1>12. CASE AutoRestart
  BY <1>0, <1>12 DEF AutoRestart, StartProcess, Alive, InDeploy, linkVars
<1>13. CASE ProcessDies
  BY <1>0, <1>13 DEF ProcessDies, Fault, linkVars
<1>14. CASE Crash
  BY <1>0, <1>14 DEF Crash, unitVars, linkVars
<1>15. CASE UNCHANGED vars
  BY <1>0, <1>15 DEF vars
<1> QED
  BY <1>1, <1>2, <1>3, <1>4, <1>5, <1>6, <1>7, <1>8, <1>9, <1>10, <1>11, <1>12, <1>13,
     <1>14, <1>15 DEF Next, DeployStep

LEMMA MishapInvariance == Spec => []MishapInv
BY InitMishap, NextMishap, PTL DEF Spec

\* When one thing goes wrong in a Deploy, a failing call or a build that dies,
\* the links are both the requested ones or both the old ones.
THEOREM LinksAlwaysPaired == Spec => []LinksPaired
<1>1. MishapInv => LinksPaired
  BY DEF MishapInv
<1> QED
  BY <1>1, MishapInvariance, PTL

\* A build that does not come up is rolled back, and the service is not left
\* stopped, unless a call failed or deployd crashed.
THEOREM FailuresRollBack == Spec => []FailureRollsBack
<1>1. MishapInv => FailureRollsBack
  BY DEF MishapInv
<1> QED
  BY <1>1, MishapInvariance, PTL

\* Between Deploys a running service runs the linked build, although systemd
\* restarts a dying unit at any moment of a rollback.
THEOREM RunningBuildAlwaysLinked == Spec => []RunningBuildLinked
<1>1. MishapInv => RunningBuildLinked
  BY DEF MishapInv, UnitInv, RunningBuildLinked
<1> QED
  BY <1>1, MishapInvariance, PTL

-----------------------------------------------------------------------------
(* The refinement: each step of Deploy is a step of ServiceOnHost or a     *)
(* stutter.  Inside a Deploy the argument is always the same, given here   *)
(* once for the steps that stay in it and once for those that leave it.    *)

LEMMA Works ==
    ASSUME at # "idle", at' # "idle", target \in Build \X Env,
           target' = target, outcome' = outcome,
           Serving' \in Candidates \cup {None},
           Candidates' \subseteq Candidates \cup {target[1]}
    PROVE  OnHost!Next
<1>1. target[1] # None
  BY TargetFields
<1>2. Settled = FALSE /\ Settled' = FALSE
  BY DEF Settled
<1> QED
  BY <1>1, <1>2 DEF OnHost!Next, OnHost!Work, OnHost!Serves

LEMMA GivesUp ==
    ASSUME at # "idle", at' = "idle", target \in Build \X Env,
           outcome' \in {"failed", "none"},
           Serving' \in Candidates \cup {None},
           Candidates' \subseteq Candidates
    PROVE  OnHost!Next
<1>1. target[1] # None
  BY TargetFields
<1>2. Settled' \in BOOLEAN
  BY DEF Settled
<1> QED
  BY <1>1, <1>2 DEF OnHost!Next, OnHost!GiveUp, OnHost!Serves

\* A step that moves no link and leaves the unit as it is brings nothing new up.
LEMMA ServingIsCandidate ==
    /\ Serving \in Candidates \cup {None}
    /\ build \in Candidates \cup {None}
BY DEF Serving, Candidates

LEMMA InitRefines == Init => OnHost!Init
BY DEF Init, NoPair, OnHost!Init, Serving, Candidates, Settled

LEMMA NextRefines ==
    ASSUME IInv, [Next]_vars
    PROVE  [OnHost!Next]_(OnHost!vars)
<1>0. /\ TypeOK /\ InDeploy
      /\ at # "idle" => target \in Build \X Env
      /\ at \in Steps
  BY DEF IInv, TypeOK, InDeploy
<1>1. ASSUME NEW b \in Build, NEW e \in Env, Begin(b, e)
      PROVE  OnHost!Next
  <2>1. at = "idle" /\ target' = <<b, e>> /\ UNCHANGED <<build, env, unit, proc>>
    BY <1>1 DEF Begin, linkVars, unitVars
  <2>2. Serving' = Serving
    BY <2>1 DEF Serving
  <2>3. CASE b \in Installed
    <3>1. at' = "connect" /\ outcome' = "none"
      BY <1>1, <2>3 DEF Begin
    <3>2. Candidates' \subseteq Candidates \cup {b}
      BY <2>1, <3>1 DEF Candidates
    <3>3. Settled' = FALSE
      BY <3>1 DEF Settled
    <3>4. OnHost!Begin(b)
      BY <2>1, <2>2, <3>1, <3>2, <3>3 DEF OnHost!Begin
    <3> QED
      BY <3>4 DEF OnHost!Next
  <2>4. CASE b \notin Installed
    <3>1. at' = "idle" /\ outcome' = "failed"
      BY <1>1, <2>4 DEF Begin, Return
    <3>2. Candidates' = Candidates
      BY <2>1, <3>1 DEF Candidates
    <3>3. Settled' = Settled
      BY <2>1, <3>1 DEF Settled
    <3>4. OnHost!Refuse
      BY <2>1, <2>2, <3>1, <3>2, <3>3 DEF OnHost!Refuse
    <3> QED
      BY <3>4 DEF OnHost!Next
  <2> QED
    BY <2>3, <2>4
<1>2. CASE Connect
  <2>1. /\ at = "connect" /\ UNCHANGED <<build, env, unit, proc, target, prev>>
        /\ \/ at' = "stop" /\ outcome' = outcome
           \/ at' = "idle" /\ outcome' = "failed"
    BY <1>2 DEF Connect, GoTo, Return, linkVars, unitVars
  <2>2. Serving' = Serving /\ Candidates' \subseteq Candidates
    BY <2>1 DEF Serving, Candidates
  <2> QED
    BY <1>0, <2>1, <2>2, ServingIsCandidate, Works, GivesUp
<1>3. CASE Stop
  <2>1. /\ at = "stop" /\ UNCHANGED <<build, env, proc, target>> /\ unit' \in {unit, "stopped"}
        /\ \/ at' = "switchBuild" /\ outcome' = outcome /\ prev' = <<build, env>>
           \/ at' = "idle" /\ outcome' = "failed"
    BY <1>3 DEF Stop, GoTo, Return, linkVars
  <2>2. Serving' \in {Serving, None} /\ Candidates' \subseteq Candidates
    BY <2>1 DEF Serving, Candidates
  <2> QED
    BY <1>0, <2>1, <2>2, ServingIsCandidate, Works, GivesUp
<1>4. CASE SwitchBuild
  <2>1. /\ at = "switchBuild" /\ UNCHANGED <<env, unit, proc, target, prev>>
        /\ build' \in {build, target[1]}
        /\ \/ at' = "switchEnv" /\ outcome' = outcome
           \/ at' = "idle" /\ outcome' = "failed"
    BY <1>4 DEF SwitchBuild, GoTo, Return, unitVars
  <2>2. Serving' = Serving /\ Candidates' \subseteq Candidates
    BY <2>1 DEF Serving, Candidates
  <2> QED
    BY <1>0, <2>1, <2>2, ServingIsCandidate, Works, GivesUp
<1>5. CASE SwitchEnv
  <2>1. /\ at = "switchEnv" /\ UNCHANGED <<build, unit, proc, target, prev>>
        /\ at' \in {"start", "restoreBuild"} /\ outcome' = outcome
    BY <1>5 DEF SwitchEnv, GoTo, unitVars
  <2>2. Serving' = Serving /\ Candidates' \subseteq Candidates
    BY <2>1 DEF Serving, Candidates
  <2> QED
    BY <1>0, <2>1, <2>2, ServingIsCandidate, Works
<1>6. CASE RestoreBuild
  <2>1. /\ at = "restoreBuild" /\ UNCHANGED <<env, unit, proc, target, prev>>
        /\ build' \in {build, prev[1]} /\ at' = "idle" /\ outcome' = "failed"
    BY <1>6 DEF RestoreBuild, RestoreLink, Return, unitVars
  <2>2. Serving' = Serving /\ Candidates' \subseteq Candidates
    BY <2>1 DEF Serving, Candidates
  <2> QED
    BY <1>0, <2>1, <2>2, ServingIsCandidate, GivesUp
<1>7. CASE Start
  <2>1. /\ at = "start" /\ UNCHANGED <<build, env, target, prev>>
        /\ \/ UNCHANGED <<unit, proc>>
           \/ proc' = <<build, env>>
        /\ at' \in {"verify", "rollbackBuild"} /\ outcome' = outcome
    BY <1>7 DEF Start, StartUnit, StartProcess, GoTo, linkVars, unitVars
  <2>2. Serving' \in {Serving, build, None} /\ Candidates' \subseteq Candidates
    BY <2>1 DEF Serving, Candidates
  <2> QED
    BY <1>0, <2>1, <2>2, ServingIsCandidate, Works
<1>8. CASE Verify
  <2>1. /\ at = "verify" /\ UNCHANGED <<build, env, unit, proc, target, prev>>
        /\ unit # "stopped" /\ proc = target /\ build = target[1] /\ target \in Build \X Env
    BY <1>0, <1>8 DEF Verify, InDeploy, linkVars, unitVars
  <2>2. target[1] # None
    BY <2>1, TargetFields
  <2>3. CASE at' = "idle" /\ outcome' = "ok"
    <3>1. Serving' = target[1] /\ Candidates' = {target[1]} /\ Settled' = TRUE
      BY <2>1, <2>2, <2>3 DEF Serving, Candidates, Settled
    <3>2. OnHost!Succeed
      BY <2>1, <2>2, <2>3, <3>1 DEF OnHost!Succeed
    <3> QED
      BY <3>2 DEF OnHost!Next
  <2>4. CASE at' = "rollbackBuild" /\ outcome' = outcome
    <3>1. Serving' = Serving /\ Candidates' \subseteq Candidates
      BY <2>1, <2>4 DEF Serving, Candidates
    <3> QED
      BY <2>1, <2>4, <3>1, ServingIsCandidate, Works
  <2> QED
    BY <1>8, <2>3, <2>4 DEF Verify, GoTo, Return
<1>9. CASE RollbackBuild
  <2>1. /\ at = "rollbackBuild" /\ UNCHANGED <<env, unit, proc, target, prev>>
        /\ build' \in {build, prev[1]} /\ at' = "rollbackEnv" /\ outcome' = outcome
    BY <1>9 DEF RollbackBuild, RestoreLink, GoTo, unitVars
  <2>2. Serving' = Serving /\ Candidates' \subseteq Candidates
    BY <2>1 DEF Serving, Candidates
  <2> QED
    BY <1>0, <2>1, <2>2, ServingIsCandidate, Works
<1>10. CASE RollbackEnv
  <2>1. /\ at = "rollbackEnv" /\ UNCHANGED <<build, unit, proc, target, prev>>
        /\ at' = "rollbackStart" /\ outcome' = outcome
    BY <1>10 DEF RollbackEnv, GoTo, unitVars
  <2>2. Serving' = Serving /\ Candidates' \subseteq Candidates
    BY <2>1 DEF Serving, Candidates
  <2> QED
    BY <1>0, <2>1, <2>2, ServingIsCandidate, Works
<1>11. CASE RollbackStart
  <2>1. /\ at = "rollbackStart" /\ UNCHANGED <<build, env, target, prev>>
        /\ \/ UNCHANGED <<unit, proc>>
           \/ proc' = <<build, env>>
        /\ at' = "idle" /\ outcome' = "failed"
    BY <1>11 DEF RollbackStart, StartUnit, StartProcess, Return, linkVars, unitVars
  <2>2. Serving' \in {Serving, build, None} /\ Candidates' \subseteq Candidates
    BY <2>1 DEF Serving, Candidates
  <2> QED
    BY <1>0, <2>1, <2>2, ServingIsCandidate, GivesUp
<1>12. CASE AutoRestart
  <2>1. /\ unit = "dying" /\ proc' = <<build, env>> /\ unit' \in {"running", "dying"}
        /\ UNCHANGED <<build, env, at, target, prev, outcome>>
    BY <1>12 DEF AutoRestart, StartProcess, Alive, linkVars
  <2>2. Serving = proc[1] /\ Serving' = build /\ Candidates' \subseteq Candidates
    BY <2>1 DEF Serving, Candidates
  <2>3. CASE at # "idle"
    BY <1>0, <2>1, <2>2, <2>3, ServingIsCandidate, Works
  <2>4. CASE at = "idle" /\ proc[1] = build
    <3>1. Candidates' = Candidates /\ Settled = TRUE /\ Settled' = TRUE
      BY <2>1, <2>4 DEF Candidates, Settled
    <3> QED
      BY <2>1, <2>2, <2>4, <3>1 DEF OnHost!vars
  <2>5. CASE at = "idle" /\ proc[1] # build
    <3>1. Settled = FALSE /\ Settled' = TRUE
      BY <2>1, <2>5 DEF Settled
    <3>2. OnHost!Drift
      BY <2>1, <2>2, <2>5, <3>1, ServingIsCandidate DEF OnHost!Drift, OnHost!Serves
    <3> QED
      BY <3>2 DEF OnHost!Next
  <2> QED
    BY <2>3, <2>4, <2>5
<1>13. CASE ProcessDies
  <2>1. /\ unit = "running" /\ unit' = "dying"
        /\ UNCHANGED <<build, env, proc, at, target, prev, outcome>>
    BY <1>13 DEF ProcessDies, linkVars
  <2>2. Serving' = Serving /\ Candidates' = Candidates
    BY <2>1 DEF Serving, Candidates
  <2>3. Settled' = Settled
    BY <2>1 DEF Settled
  <2> QED
    BY <2>1, <2>2, <2>3 DEF OnHost!vars
<1>14. CASE Crash
  <2>1. /\ at # "idle" /\ at' = "idle" /\ outcome' = "none"
        /\ UNCHANGED <<build, env, unit, proc, target, prev>>
    BY <1>14 DEF Crash, linkVars, unitVars
  <2>2. Serving' = Serving /\ Candidates' \subseteq Candidates
    BY <2>1 DEF Serving, Candidates
  <2> QED
    BY <1>0, <2>1, <2>2, ServingIsCandidate, GivesUp
<1>15. CASE UNCHANGED vars
  <2>1. UNCHANGED <<build, unit, proc, at, target, prev, outcome>>
    BY <1>15 DEF vars
  <2>2. Serving' = Serving /\ Candidates' = Candidates
    BY <2>1 DEF Serving, Candidates
  <2>3. Settled' = Settled
    BY <2>1 DEF Settled
  <2> QED
    BY <2>1, <2>2, <2>3 DEF OnHost!vars
<1> QED
  BY <1>1, <1>2, <1>3, <1>4, <1>5, <1>6, <1>7, <1>8, <1>9, <1>10, <1>11, <1>12, <1>13,
     <1>14, <1>15 DEF Next, DeployStep

\* Deploy implements ServiceOnHost for any builds and any number of faults and
\* crashes: after success the requested build serves until the next Deploy.
THEOREM HostRefines == Spec => ImplementsServiceOnHost
<1>1. Init => OnHost!Init
  BY InitRefines
<1>2. IInv /\ [Next]_vars => [OnHost!Next]_(OnHost!vars)
  BY NextRefines
<1> QED
  BY <1>1, <1>2, Invariance, PTL DEF Spec, OnHost!Spec, ImplementsServiceOnHost
=============================================================================
