----------------------------- MODULE HostDeploy -----------------------------
(***************************************************************************)
(* Restarting a service on one host: Deploy and rollback of                *)
(* internal/src/deploy-job/job_deploy_restart.go, step by step, against    *)
(* the two symlinks (/opt/<service>/current, /etc/<service>/env) and the   *)
(* service's systemd unit.                                                 *)
(*                                                                         *)
(* Deploys of a host come one after another (its consumer goroutine runs   *)
(* them).  Any system call of a step may fail, up to MaxFaults times, and  *)
(* the deployd process may crash between two steps.  The unit is           *)
(* Type=simple with Restart=always: it is active as soon as its process is *)
(* started, and a process that dies is started again by systemd, from      *)
(* whatever the links point to then.                                       *)
(***************************************************************************)
EXTENDS Naturals

CONSTANTS
    Build, Env,         \* build and environment versions
    Installed,          \* the builds whose release directory is complete
    Bad,                \* the builds whose process dies soon after its start
    None,               \* no link, no process
    MaxFaults,          \* bound: failing system calls
    MaxCrashes          \* bound: crashes of the deployd process

ASSUME HostDeployAssumption ==
    /\ Installed \subseteq Build /\ Bad \subseteq Build
    /\ None \notin Build \cup Env
    /\ MaxFaults \in Nat /\ MaxCrashes \in Nat

VARIABLES
    build, env,         \* the targets of the two symlinks
    unit,               \* the unit: stopped, running, or dying and restarted
    proc,               \* the build and env the unit's process was started with
    at,                 \* where the Deploy call is
    target,             \* the build and env to deploy
    prev,               \* prevBuildTarget and prevEnvTarget
    outcome,            \* how the last Deploy call returned
    before,             \* the links when it began (for the properties only)
    faults, crashes

unitVars == <<unit, proc>>
linkVars == <<build, env>>
vars == <<build, env, unit, proc, at, target, prev, outcome, before, faults, crashes>>

NoPair == <<None, None>>
Link(S) == S \cup {None}

Steps == {"idle", "connect", "stop", "switchBuild", "switchEnv", "restoreBuild",
          "start", "verify", "rollbackBuild", "rollbackEnv", "rollbackStart"}

TypeOK ==
    /\ build \in Link(Build) /\ env \in Link(Env)
    /\ unit \in {"stopped", "running", "dying"}
    /\ proc \in Link(Build) \X Link(Env)
    /\ unit # "stopped" => proc # NoPair
    /\ at \in Steps
    /\ target \in Link(Build) \X Link(Env)
    /\ prev \in Link(Build) \X Link(Env)
    /\ outcome \in {"none", "ok", "failed"}
    /\ before \in Link(Build) \X Link(Env)
    /\ faults \in 0..MaxFaults /\ crashes \in 0..MaxCrashes

Init ==
    /\ build = None /\ env = None
    /\ unit = "stopped" /\ proc = NoPair
    /\ at = "idle" /\ target = NoPair /\ prev = NoPair
    /\ outcome = "none" /\ before = NoPair
    /\ faults = 0 /\ crashes = 0

-----------------------------------------------------------------------------
(* systemd.                                                                *)

Alive(b) == IF b \in Bad THEN "dying" ELSE "running"

\* Fault: a unit state the program does not know.
StartProcessUnknown == unit' = "failed" /\ proc' = <<build, env>>

\* The unit's process is started from the current links.
StartProcess == unit' = Alive(build) /\ proc' = <<build, env>>

\* Starting an active unit does nothing; a dying one may be between two starts.
StartUnit ==
    \/ unit # "running" /\ StartProcess
    \/ unit # "stopped" /\ UNCHANGED unitVars

\* Restart=always.
AutoRestart ==
    /\ unit = "dying"
    /\ StartProcess
    /\ UNCHANGED <<linkVars, at, target, prev, outcome, before, faults, crashes>>

Fault == faults < MaxFaults /\ faults' = faults + 1

\* A healthy process dies.
ProcessDies ==
    /\ unit = "running"
    /\ Fault
    /\ unit' = "dying"
    /\ UNCHANGED <<linkVars, proc, at, target, prev, outcome, before, crashes>>

-----------------------------------------------------------------------------
(* Deploy.                                                                 *)

Return(result) == at' = "idle" /\ outcome' = result
GoTo(step) == at' = step /\ UNCHANGED outcome

\* The release, the env release and the binary are looked for before anything
\* is touched.
Begin(b, e) ==
    /\ at = "idle"
    /\ target' = <<b, e>>
    /\ before' = <<build, env>>
    /\ IF b \in Installed THEN at' = "connect" /\ outcome' = "none" ELSE Return("failed")
    /\ UNCHANGED <<linkVars, unitVars, prev, faults, crashes>>

Connect ==
    /\ at = "connect"
    /\ \/ GoTo("stop") /\ UNCHANGED faults
       \/ Fault /\ Return("failed")
    /\ UNCHANGED <<linkVars, unitVars, target, prev, before, crashes>>

\* Fault: the unit is not stopped.
StopSkipped ==
    /\ at = "stop"
    /\ prev' = <<build, env>>
    /\ GoTo("switchBuild")
    /\ UNCHANGED <<linkVars, unitVars, target, before, faults, crashes>>

\* Stop the service and read the links to go back to.  A call that fails may
\* have stopped it all the same.
Stop ==
    /\ at = "stop"
    /\ \/ /\ unit' = "stopped"
          /\ prev' = <<build, env>>
          /\ GoTo("switchBuild")
          /\ UNCHANGED faults
       \/ /\ Fault
          /\ unit' \in {unit, "stopped"}
          /\ Return("failed")
          /\ UNCHANGED prev
    /\ UNCHANGED <<linkVars, proc, target, before, crashes>>

\* switchSymlinkAtomic: the link points to the old target or to the new one.
SwitchBuild ==
    /\ at = "switchBuild"
    /\ \/ build' = target[1] /\ GoTo("switchEnv") /\ UNCHANGED faults
       \/ Fault /\ Return("failed") /\ UNCHANGED build
    /\ UNCHANGED <<env, unitVars, target, prev, before, crashes>>

\* Fault: the error of the env link is ignored.
SwitchEnvIgnoring ==
    /\ at = "switchEnv"
    /\ GoTo("start")
    /\ \/ env' = target[2] /\ UNCHANGED faults
       \/ Fault /\ UNCHANGED env
    /\ UNCHANGED <<build, unitVars, target, prev, before, crashes>>

\* Fault: the build link is not put back.
SwitchEnvReturning ==
    /\ at = "switchEnv"
    /\ \/ env' = target[2] /\ GoTo("start") /\ UNCHANGED faults
       \/ Fault /\ Return("failed") /\ UNCHANGED env
    /\ UNCHANGED <<build, unitVars, target, prev, before, crashes>>

SwitchEnv ==
    /\ at = "switchEnv"
    /\ \/ env' = target[2] /\ GoTo("start") /\ UNCHANGED faults
       \/ Fault /\ GoTo("restoreBuild") /\ UNCHANGED env
    /\ UNCHANGED <<build, unitVars, target, prev, before, crashes>>

\* Errors of putting a link back are ignored, a link that did not exist stays.
RestoreLink(link, old) ==
    \/ link' = (IF old # None THEN old ELSE link) /\ UNCHANGED faults
    \/ old # None /\ Fault /\ UNCHANGED link

\* The service is left stopped.
RestoreBuild ==
    /\ at = "restoreBuild"
    /\ RestoreLink(build, prev[1])
    /\ Return("failed")
    /\ UNCHANGED <<env, unitVars, target, prev, before, crashes>>

Start ==
    /\ at = "start"
    /\ \/ StartUnit /\ GoTo("verify") /\ UNCHANGED faults
       \/ Fault /\ GoTo("rollbackBuild") /\ UNCHANGED unitVars
    /\ UNCHANGED <<linkVars, target, prev, before, crashes>>

\* isActive: a dying unit may look active or not.
Verify ==
    /\ at = "verify"
    /\ \/ unit \in {"running", "dying"} /\ Return("ok") /\ UNCHANGED faults
       \/ unit \in {"stopped", "dying"} /\ GoTo("rollbackBuild") /\ UNCHANGED faults
       \/ Fault /\ GoTo("rollbackBuild")
    /\ UNCHANGED <<linkVars, unitVars, target, prev, before, crashes>>

\* Fault: only the env is put back.
RollbackBuildForgotten ==
    /\ at = "rollbackBuild"
    /\ GoTo("rollbackEnv")
    /\ UNCHANGED <<linkVars, unitVars, target, prev, before, faults, crashes>>

RollbackBuild ==
    /\ at = "rollbackBuild"
    /\ RestoreLink(build, prev[1])
    /\ GoTo("rollbackEnv")
    /\ UNCHANGED <<env, unitVars, target, prev, before, crashes>>

\* Fault: only the build is put back.
RollbackEnvForgotten ==
    /\ at = "rollbackEnv"
    /\ GoTo("rollbackStart")
    /\ UNCHANGED <<linkVars, unitVars, target, prev, before, faults, crashes>>

RollbackEnv ==
    /\ at = "rollbackEnv"
    /\ RestoreLink(env, prev[2])
    /\ GoTo("rollbackStart")
    /\ UNCHANGED <<build, unitVars, target, prev, before, crashes>>

RollbackStart ==
    /\ at = "rollbackStart"
    /\ \/ StartUnit /\ UNCHANGED faults
       \/ Fault /\ UNCHANGED unitVars
    /\ Return("failed")
    /\ UNCHANGED <<linkVars, target, prev, before, crashes>>

DeployStep ==
    \/ Connect \/ Stop \/ SwitchBuild \/ SwitchEnv \/ RestoreBuild \/ Start
    \/ Verify \/ RollbackBuild \/ RollbackEnv \/ RollbackStart

\* The deployd process dies in the middle of a Deploy.
Crash ==
    /\ at # "idle"
    /\ crashes < MaxCrashes
    /\ crashes' = crashes + 1
    /\ at' = "idle"
    /\ outcome' = "none"
    /\ UNCHANGED <<linkVars, unitVars, target, prev, before, faults>>

Next ==
    \/ \E b \in Build, e \in Env : Begin(b, e)
    \/ DeployStep
    \/ AutoRestart
    \/ ProcessDies
    \/ Crash

\* The goroutine in Deploy is scheduled, and systemd restarts what died.
Spec == Init /\ [][Next]_vars
FairSpec == Spec /\ WF_vars(DeployStep) /\ WF_vars(AutoRestart)

-----------------------------------------------------------------------------
(* Properties.                                                             *)

\* The host before this Deploy ran a complete deployment.
HadDeployment == before[1] # None /\ before[2] # None

\* When Deploy reports success the links are the requested ones and the unit's
\* process was started from them, whatever failed or crashed in earlier calls.
SuccessStarted ==
    at = "idle" /\ outcome = "ok" =>
        /\ <<build, env>> = target
        /\ proc = target
        /\ unit # "stopped"

\* When only one thing went wrong, a failing call or a build that dies, a build
\* is never linked with the env of another deployment: both links are the
\* requested ones or both are the old ones.
LinksPaired ==
    /\ at = "idle" /\ outcome # "none" /\ HadDeployment /\ crashes = 0
    /\ faults = 0 \/ (faults = 1 /\ target[1] \notin Bad)
    => <<build, env>> \in {target, before}

\* A build that does not come up is rolled back: when nothing else went wrong a
\* failed Deploy leaves the old links and does not leave the service stopped.
FailureRollsBack ==
    at = "idle" /\ outcome = "failed" /\ HadDeployment /\ faults = 0 /\ crashes = 0 =>
        /\ <<build, env>> = before
        /\ unit # "stopped"

\* Between Deploys a running service runs the linked build, as long as no call
\* failed (a failing health-check call breaks it: rollback puts the links back
\* and the start of the active unit does nothing).
RunningBuildLinked ==
    at = "idle" /\ unit = "running" /\ faults = 0 /\ crashes = 0 => proc[1] = build

\* "Backup previous symlinks for rollback" (job_deploy_restart.go): a service
\* that runs after a rollback runs the previous build with the previous env.
\* systemd may restart the dying unit between the two links of the rollback.
RollbackRestoresProcess ==
    /\ at = "idle" /\ outcome = "failed" /\ target[1] \in Installed
    /\ HadDeployment /\ before[1] \notin Bad /\ faults = 0 /\ crashes = 0
    /\ unit = "running"
    => proc = before

\* After a rollback to a healthy build that build is running again, unless the
\* next Deploy begins.
RolledBackServiceReturns ==
    (/\ at = "idle" /\ outcome = "failed" /\ HadDeployment /\ before[1] \notin Bad
     /\ faults = 0 /\ crashes = 0)
        ~> (\/ unit = "running" /\ proc[1] = before[1]
            \/ at # "idle" \/ target[1] \notin Installed \/ faults > 0 \/ crashes > 0)

\* The inductive invariant of HostDeploy_proofs.tla: what a Deploy call knows of
\* the links and the unit at each of its steps.
InDeploy ==
    /\ at # "idle" => target \in Build \X Env
    /\ at \in {"switchBuild", "switchEnv", "restoreBuild", "start"} => unit = "stopped"
    /\ at \in {"switchEnv", "restoreBuild", "start", "verify", "rollbackBuild"}
          => build = target[1]
    /\ at \in {"start", "verify"} => env = target[2]
    /\ at = "verify" => unit # "stopped" /\ proc = target
    /\ at \in {"rollbackEnv", "rollbackStart"} => build # None
    /\ unit # "stopped" => build # None

IInv == TypeOK /\ InDeploy /\ SuccessStarted

\* What a Deploy call has to go back to, and that it gets there unless a second
\* thing goes wrong on the way.
OneMishap == faults = 0 \/ (faults = 1 /\ target[1] \notin Bad)
RollingBack == at \in {"rollbackBuild", "rollbackEnv", "rollbackStart"}

WayBackInv ==
    /\ at \in {"connect", "stop"} => <<build, env>> = before
    /\ at \notin {"idle", "connect", "stop"} => prev = before
    /\ at = "switchBuild" => build = prev[1]
    /\ at \in {"switchBuild", "switchEnv", "restoreBuild"} => env = prev[2]
    /\ at = "restoreBuild" => faults > 0
    /\ RollingBack /\ faults = 0 => target[1] \in Bad
    /\ RollingBack /\ at # "rollbackBuild" /\ OneMishap /\ prev[1] # None => build = prev[1]
    /\ at = "rollbackStart" /\ OneMishap /\ prev[2] # None => env = prev[2]
    /\ unit = "dying" /\ faults = 0 => proc[1] \in Bad

UnitInv ==
    faults = 0 /\ crashes = 0 =>
        /\ at \in {"idle", "connect", "stop"} /\ build # None => unit # "stopped"
        /\ unit = "running" => at # "rollbackBuild" /\ proc[1] = build

MishapInv == IInv /\ WayBackInv /\ UnitInv /\ LinksPaired /\ FailureRollsBack

-----------------------------------------------------------------------------
(* What the rest of deployd may rely on: ServiceOnHost.                    *)

\* What may come up: what the links name or the process was, and while a Deploy
\* is under way, what it may still link.
Serving == IF unit = "stopped" THEN None ELSE proc[1]
Candidates ==
    ({build, proc[1]}
        \cup (IF at = "idle" THEN {} ELSE {target[1]})
        \cup (IF at \in {"idle", "connect", "stop"} THEN {} ELSE {prev[1]})) \ {None}
Settled == at = "idle" /\ (unit = "stopped" \/ proc[1] = build)

OnHost == INSTANCE ServiceOnHost WITH
            serving <- Serving,
            candidates <- Candidates,
            deploying <- IF at = "idle" THEN None ELSE target[1],
            settled <- Settled,
            result <- outcome

\* Deploy keeps the promise of ServiceOnHost through failing calls, crashes and
\* systemd's own restarts: after success the requested build serves until the
\* next Deploy, and no Deploy brings up a build that is neither the old nor the
\* new one.
ImplementsServiceOnHost == OnHost!Spec
=============================================================================
