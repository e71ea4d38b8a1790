------------------------------ MODULE Deployd ------------------------------
(***************************************************************************)
(* A deployd cluster: the replicated jobs (DeployJob) driven by the hosts, *)
(* internal/src/deploy-job.  Every host applies the committed commands and *)
(* broadcasts the resulting events to its own consumer goroutine.  The     *)
(* consumer starts one configuration goroutine per job, confirms restarts  *)
(* on behalf of the user, and restarts the service itself, blocking, when  *)
(* its host is the target.  Hosts report back through raft.                *)
(*                                                                         *)
(* Every host sees the same events in the same order, so they are one log  *)
(* with a cursor per host.  The raft library and the notifier are not part *)
(* of the repository: a proposal is committed, or its caller times out and *)
(* it is committed later or never; a subscription delivers every event in  *)
(* order until its process crashes.                                        *)
(***************************************************************************)
EXTENDS DeployJob

CONSTANTS
    Believe,            \* the "believe" flags users submit jobs with
    ConfigureOutcomes,  \* how configuring a host may end
    RestartOutcomes,    \* how restarting a service may end
    MaxTimeouts,        \* bound: proposals whose caller times out
    MaxCrashes,         \* bound: crashes of a host's deployd process
    MaxCancels          \* bound: cancellations by the user

ASSUME OutcomesAssumption ==
    /\ ConfigureOutcomes \subseteq ConfigurationReport \ {"CONFIGURING"}
    /\ RestartOutcomes \subseteq RestartReport \ {"RESTARTING"}
ASSUME BoundsAssumption ==
    /\ MaxTimeouts \in Nat /\ MaxCrashes \in Nat /\ MaxCancels \in Nat
    /\ Believe \subseteq BOOLEAN

VARIABLES
    log,        \* the events broadcast so far, those a consumer handles
    cursor,     \* cursor[h]: how many of them host h's consumer has taken
    consumer,   \* consumer[h]: what the consumer goroutine is doing, for which job
    worker,     \* worker[h][id]: the configuration goroutine of a job; "none"
                \* when the job is not in the host's deploymentJobPool
    late,       \* proposals whose caller timed out and that may still commit
    installed,  \* installed[h]: the jobs whose release is complete on the host
    overlapped, \* overlapped[h]: the services two of whose jobs the host ever
                \* configured at once; of their releases nothing is known
    running,    \* running[h][svc]: the jobs whose builds the service may run,
                \* now or when systemd restarts it; one, once it has settled
    cancels,            \* cancellations so far
    timeouts, crashes   \* faults so far

hostVars == <<cursor, consumer, worker, installed, overlapped, running>>
faultVars == <<timeouts, crashes>>
vars == <<jobs, log, cursor, consumer, worker, late, installed, overlapped, running,
          cancels, timeouts, crashes>>

Down == 0       \* no build is running

EventKind == {"JobCreated", "AllHostConfigured", "RestartConfirmed", "ServiceRestarted"}

\* host is the trigger of AllHostConfigured and ServiceRestarted and the target
\* of RestartConfirmed (JobCreated has none: the first target stands there);
\* status is that of the job the event carries.
Event == [kind : EventKind, id : JobId, host : Host, status : JobStatus]

\* n tells proposals with the same content apart.
Command ==
    [kind : {"configuration"}, id : JobId, host : Host,
     report : ConfigurationReport, n : 0..MaxTimeouts]
    \cup [kind : {"restart"}, id : JobId, n : 0..MaxTimeouts]
    \cup [kind : {"restarted"}, id : JobId, host : Host,
          report : RestartReport, n : 0..MaxTimeouts]

ConsumerAt == {"idle", "confirm", "announce", "deploying", "SUCCESS", "FAILED"}
WorkerAt == {"none", "announce", "installing", "SUCCESS", "FAILED", "CANCELLED", "done"}

Idle == [at |-> "idle", id |-> NoJobId]

SystemInit ==
    /\ Init
    /\ log = <<>>
    /\ cursor = [h \in Host |-> 0]
    /\ consumer = [h \in Host |-> Idle]
    /\ worker = [h \in Host |-> [id \in JobId |-> "none"]]
    /\ late = {}
    /\ installed = [h \in Host |-> {}]
    /\ overlapped = [h \in Host |-> {}]
    /\ running = [h \in Host |-> [svc \in Service |-> {Down}]]
    /\ cancels = 0
    /\ timeouts = 0
    /\ crashes = 0

-----------------------------------------------------------------------------
(* Committing a command: the application's step and the events its replicas *)
(* broadcast after it.  Events no consumer handles are left out.            *)

Broadcast(kind, id, h) ==
    log' = Append(log, [kind |-> kind, id |-> id, host |-> h, status |-> jobs'[id].status])

CommitConfiguration(id, h, report) ==
    /\ HostConfigurationUpdate(id, h, report)
    /\ IF AllConfigured(jobs'[id])
       THEN Broadcast("AllHostConfigured", id, h)
       ELSE UNCHANGED log

CommitRestart(id) ==
    /\ Restart(id)
    /\ Broadcast("RestartConfirmed", id, OnProgress(jobs'[id]))

\* Fault: a failed host is noted and the restart moves on to the next one.
CommitRestartedSkipping(id, h, report) ==
    /\ AcceptsRestartUpdate(jobs[id], h)
    /\ jobs' = [jobs EXCEPT ![id] =
                   [RestartUpdated(@, h, "SUCCESS") EXCEPT !.deployment[h] = report]]
    /\ Broadcast("ServiceRestarted", id, h)

CommitRestarted(id, h, report) ==
    /\ HostRestartServiceUpdate(id, h, report)
    /\ IF report = "SUCCESS"
       THEN Broadcast("ServiceRestarted", id, h)
       ELSE UNCHANGED log

Accepts(cmd) ==
    CASE cmd.kind = "configuration" -> AcceptsConfiguration(jobs[cmd.id], cmd.host)
      [] cmd.kind = "restart" -> AcceptsRestart(jobs[cmd.id])
      [] cmd.kind = "restarted" -> AcceptsRestartUpdate(jobs[cmd.id], cmd.host)

\* A command that is not accepted is answered with an error.
Commit(cmd) ==
    \/ /\ Accepts(cmd)
       /\ \/ /\ cmd.kind = "configuration"
             /\ CommitConfiguration(cmd.id, cmd.host, cmd.report)
          \/ cmd.kind = "restart" /\ CommitRestart(cmd.id)
          \/ cmd.kind = "restarted" /\ CommitRestarted(cmd.id, cmd.host, cmd.report)
    \/ ~Accepts(cmd) /\ UNCHANGED <<jobs, log>>

\* The caller gets the answer, or times out and goes on without it: no caller
\* retries.
Publish(cmd) ==
    \/ Commit(cmd) /\ UNCHANGED <<late, timeouts>>
    \/ /\ timeouts < MaxTimeouts
       /\ timeouts' = timeouts + 1
       /\ late' = late \cup {[cmd EXCEPT !.n = timeouts]}
       /\ UNCHANGED <<jobs, log>>

\* A proposal given up by its caller is committed after all.
CommitLate ==
    \E cmd \in late :
        /\ Commit(cmd)
        /\ late' = late \ {cmd}
        /\ UNCHANGED <<hostVars, cancels, faultVars>>

-----------------------------------------------------------------------------
(* The user.                                                               *)

SubmitJob(svc, believe, targets) ==
    /\ UserSubmitJob(svc, believe, targets)
    /\ Broadcast("JobCreated", Len(jobs'), targets[1].host)
    /\ UNCHANGED <<hostVars, late, cancels, faultVars>>

\* The client proposes the command.  Nothing is broadcast: the hosts never learn
\* of a cancellation.  (The HTTP handler in front of the client dereferences the
\* job's ModifyKey, which its JSON does not carry: requests over HTTP end there.)
UserCancelJob(id) ==
    /\ cancels < MaxCancels
    /\ cancels' = cancels + 1
    /\ CancelJob(id)
    /\ UNCHANGED <<log, hostVars, late, faultVars>>

\* A job that is not believed stays CONFIGURED: the route the user confirms it
\* with (ConfirmDeployment) answers "deployment confirmed" and does nothing.

-----------------------------------------------------------------------------
(* The consumer goroutine of a host.                                       *)

Pool(h) == {id \in JobId : worker[h][id] # "none"}

Next1(h) == log[cursor[h] + 1]

\* configureHost: a job already in the pool, or that does not name this host,
\* is skipped.
HandleJobCreated(h, e) ==
    /\ e.kind = "JobCreated"
    /\ IF e.id \notin Pool(h) /\ h \in HostsOf(jobs[e.id])
       THEN worker' = [worker EXCEPT ![h][e.id] = "announce"]
       ELSE UNCHANGED worker
    /\ UNCHANGED consumer

\* Fault: every host confirms, not only the one that triggered the event.
HandleConfirmableByAll(h, e) ==
    /\ e.kind \in {"AllHostConfigured", "ServiceRestarted"}
    /\ IF jobs[e.id].believe /\ e.status # "DEPLOYED"
       THEN consumer' = [consumer EXCEPT ![h] = [at |-> "confirm", id |-> e.id]]
       ELSE UNCHANGED consumer
    /\ UNCHANGED worker

\* Fault: only the first restart is confirmed.
HandleConfirmableOnce(h, e) ==
    /\ e.kind \in {"AllHostConfigured", "ServiceRestarted"}
    /\ IF e.kind = "AllHostConfigured" /\ jobs[e.id].believe /\ e.host = h
       THEN consumer' = [consumer EXCEPT ![h] = [at |-> "confirm", id |-> e.id]]
       ELSE UNCHANGED consumer
    /\ UNCHANGED worker

\* confirmDeploymentAsUserIfEnabled, continueRestartServiceAsUserIfEnabled:
\* the host that triggered the event confirms, when the job may be believed.
HandleConfirmable(h, e) ==
    /\ e.kind \in {"AllHostConfigured", "ServiceRestarted"}
    /\ IF /\ e.kind = "ServiceRestarted" => e.status # "DEPLOYED"
          /\ jobs[e.id].believe
          /\ e.host = h
       THEN consumer' = [consumer EXCEPT ![h] = [at |-> "confirm", id |-> e.id]]
       ELSE UNCHANGED consumer
    /\ UNCHANGED worker

\* Fault: the target of the confirmation is not looked at.
HandleRestartConfirmedByAll(h, e) ==
    /\ e.kind = "RestartConfirmed"
    /\ IF e.id \in Pool(h)
       THEN consumer' = [consumer EXCEPT ![h] = [at |-> "announce", id |-> e.id]]
       ELSE UNCHANGED consumer
    /\ UNCHANGED worker

\* restartService: dropped when the job is not in the pool.
HandleRestartConfirmed(h, e) ==
    /\ e.kind = "RestartConfirmed"
    /\ IF e.id \in Pool(h) /\ e.host = h
       THEN consumer' = [consumer EXCEPT ![h] = [at |-> "announce", id |-> e.id]]
       ELSE UNCHANGED consumer
    /\ UNCHANGED worker

Take(h) ==
    /\ consumer[h] = Idle
    /\ cursor[h] < Len(log)
    /\ cursor' = [cursor EXCEPT ![h] = @ + 1]
    /\ \/ HandleJobCreated(h, Next1(h))
       \/ HandleConfirmable(h, Next1(h))
       \/ HandleRestartConfirmed(h, Next1(h))
    /\ UNCHANGED <<jobs, log, late, installed, overlapped, running, cancels, faultVars>>

GoTo(h, at) == consumer' = [consumer EXCEPT ![h].at = at]
GoIdle(h) == consumer' = [consumer EXCEPT ![h] = Idle]

ConfirmRestart(h) ==
    /\ consumer[h].at = "confirm"
    /\ Publish([kind |-> "restart", id |-> consumer[h].id, n |-> 0])
    /\ GoIdle(h)
    /\ UNCHANGED <<cursor, worker, installed, overlapped, running, cancels, crashes>>

RestartReportOf(h, report) ==
    [kind |-> "restarted", id |-> consumer[h].id, host |-> h, report |-> report, n |-> 0]

\* startRestartHostService: report, restart, report; errors of the reports are
\* ignored.
AnnounceRestart(h) ==
    /\ consumer[h].at = "announce"
    /\ Publish(RestartReportOf(h, "RESTARTING"))
    /\ GoTo(h, "deploying")
    /\ UNCHANGED <<cursor, worker, installed, overlapped, running, cancels, crashes>>

\* The service's directories are in a state nothing is known of.
Overlapped(h, id) == jobs[id].service \in overlapped[h]

\* A restart that did not get to its end: the build that ran, the new one, or
\* none may run, and another one later, since systemd goes on restarting the unit
\* (what ServiceOnHost.tla calls candidates).
Disturbed(h, id) == [running EXCEPT ![h][jobs[id].service] = @ \cup {Down, id}]

\* Fault: a service that does not come up is reported as restarted.
DeployUnchecked(h) ==
    LET id == consumer[h].id
    IN  /\ consumer[h].at = "deploying"
        /\ GoTo(h, "SUCCESS")
        /\ running' = Disturbed(h, id)
        /\ UNCHANGED <<jobs, log, late, cursor, worker, installed, overlapped, cancels, faultVars>>

\* Deploy, in one step (HostDeploy.tla has its own): without the release it
\* fails before the service is touched, and an incomplete one it may start.
Deploy(h) ==
    LET id == consumer[h].id
    IN  /\ consumer[h].at = "deploying"
        /\ \/ /\ id \in installed[h] \/ Overlapped(h, id)
              /\ "SUCCESS" \in RestartOutcomes
              /\ GoTo(h, "SUCCESS")
              /\ running' = [running EXCEPT ![h][jobs[id].service] = {id}]
           \/ /\ id \in installed[h] \/ Overlapped(h, id)
              /\ "FAILED" \in RestartOutcomes
              /\ GoTo(h, "FAILED")
              /\ running' \in {running, Disturbed(h, id)}
           \/ /\ id \notin installed[h]
              /\ GoTo(h, "FAILED")
              /\ UNCHANGED running
        /\ UNCHANGED <<jobs, log, late, cursor, worker, installed, overlapped, cancels, faultVars>>

ReportRestart(h) ==
    /\ consumer[h].at \in {"SUCCESS", "FAILED"}
    /\ Publish(RestartReportOf(h, consumer[h].at))
    /\ GoIdle(h)
    /\ UNCHANGED <<cursor, worker, installed, overlapped, running, cancels, crashes>>

ConsumerStep(h) ==
    Take(h) \/ ConfirmRestart(h) \/ AnnounceRestart(h) \/ Deploy(h) \/ ReportRestart(h)

-----------------------------------------------------------------------------
(* The configuration goroutine of a job: startConfigureHost.               *)

ConfigurationReportOf(h, id, report) ==
    [kind |-> "configuration", id |-> id, host |-> h, report |-> report, n |-> 0]

\* Jobs of one service that are configured at once may ask for one build and work
\* in the same directories.  The release may then be incomplete though both report
\* SUCCESS, and a later job finds it and takes it for installed
\* (SuccessAlwaysInstalled of HostConfigure.tla).
BeginInstalling(h, id) ==
    LET svc == jobs[id].service
    IN  IF \E k \in JobsOf(svc) \ {id} : worker[h][k] = "installing"
        THEN /\ overlapped' = [overlapped EXCEPT ![h] = @ \cup {svc}]
             /\ installed' = [installed EXCEPT ![h] = @ \ JobsOf(svc)]
        ELSE UNCHANGED <<installed, overlapped>>

\* Fault: who cannot announce the configuration gives up.
AnnounceOrGiveUp(h, id) ==
    /\ worker[h][id] = "announce"
    /\ Publish(ConfigurationReportOf(h, id, "CONFIGURING"))
    /\ worker' = [worker EXCEPT ![h][id] =
                     IF timeouts' = timeouts THEN "installing" ELSE "done"]
    /\ BeginInstalling(h, id)
    /\ UNCHANGED <<cursor, consumer, running, cancels, crashes>>

AnnounceConfiguration(h, id) ==
    /\ worker[h][id] = "announce"
    /\ Publish(ConfigurationReportOf(h, id, "CONFIGURING"))
    /\ worker' = [worker EXCEPT ![h][id] = "installing"]
    /\ BeginInstalling(h, id)
    /\ UNCHANGED <<cursor, consumer, running, cancels, crashes>>

\* Fault: a job that is installed takes the place of the service's other jobs.
ConfigureReplacing(h, id) ==
    /\ worker[h][id] = "installing"
    /\ \E outcome \in ConfigureOutcomes :
          /\ worker' = [worker EXCEPT ![h][id] = outcome]
          /\ installed' = IF outcome = "SUCCESS" /\ ~Overlapped(h, id)
                          THEN [installed EXCEPT ![h] =
                                   (@ \ JobsOf(jobs[id].service)) \cup {id}]
                          ELSE installed
    /\ UNCHANGED <<jobs, log, late, cursor, consumer, overlapped, running, cancels, faultVars>>

\* Execute, in one step (HostConfigure.tla has its own).  SUCCESS means that the
\* release is complete only as long as no two jobs of the service overlapped.
Configure(h, id) ==
    /\ worker[h][id] = "installing"
    /\ \E outcome \in ConfigureOutcomes :
          /\ worker' = [worker EXCEPT ![h][id] = outcome]
          /\ installed' = IF outcome = "SUCCESS" /\ ~Overlapped(h, id)
                          THEN [installed EXCEPT ![h] = @ \cup {id}]
                          ELSE installed
    /\ UNCHANGED <<jobs, log, late, cursor, consumer, overlapped, running, cancels, faultVars>>

\* Fault: the report is sent again when its caller timed out.
ReportConfigurationRetrying(h, id) ==
    /\ worker[h][id] \in {"SUCCESS", "FAILED", "CANCELLED"}
    /\ Publish(ConfigurationReportOf(h, id, worker[h][id]))
    /\ worker' = IF timeouts' = timeouts
                 THEN [worker EXCEPT ![h][id] = "done"] ELSE worker
    /\ UNCHANGED <<cursor, consumer, installed, overlapped, running, cancels, crashes>>

\* Fault: the job leaves the pool when its configuration is done.
ReportConfigurationForgetting(h, id) ==
    /\ worker[h][id] \in {"SUCCESS", "FAILED", "CANCELLED"}
    /\ Publish(ConfigurationReportOf(h, id, worker[h][id]))
    /\ worker' = [worker EXCEPT ![h][id] = "none"]
    /\ UNCHANGED <<cursor, consumer, installed, overlapped, running, cancels, crashes>>

ReportConfiguration(h, id) ==
    /\ worker[h][id] \in {"SUCCESS", "FAILED", "CANCELLED"}
    /\ Publish(ConfigurationReportOf(h, id, worker[h][id]))
    /\ worker' = [worker EXCEPT ![h][id] = "done"]
    /\ UNCHANGED <<cursor, consumer, installed, overlapped, running, cancels, crashes>>

WorkerStep(h, id) ==
    AnnounceConfiguration(h, id) \/ Configure(h, id) \/ ReportConfiguration(h, id)

-----------------------------------------------------------------------------
(* A host's process crashes and is started again: the pool, the goroutines *)
(* and the events waiting in the subscription are gone; what was applied   *)
(* before is not broadcast again.  Services are systemd's and keep running.*)

\* Fault: on a restart the host skips one event too many.
CrashSkipping(h) ==
    /\ crashes < MaxCrashes
    /\ crashes' = crashes + 1
    /\ worker' = [worker EXCEPT ![h] = [id \in JobId |-> "none"]]
    /\ GoIdle(h)
    /\ cursor' = [cursor EXCEPT ![h] = Len(log) + 1]
    /\ UNCHANGED <<jobs, log, late, installed, overlapped, running, cancels, timeouts>>

Crash(h) ==
    /\ crashes < MaxCrashes
    /\ crashes' = crashes + 1
    /\ worker' = [worker EXCEPT ![h] = [id \in JobId |-> "none"]]
    /\ GoIdle(h)
    /\ \E applied \in cursor[h]..Len(log) : cursor' = [cursor EXCEPT ![h] = applied]
    /\ IF consumer[h].at = "deploying"
       THEN running' \in {running, Disturbed(h, consumer[h].id)}
       ELSE UNCHANGED running
    /\ UNCHANGED <<jobs, log, late, installed, overlapped, cancels, timeouts>>

SystemNext ==
    \/ \E svc \in Service, believe \in Believe, targets \in TargetLists :
          SubmitJob(svc, believe, targets)
    \/ \E id \in DOMAIN jobs : UserCancelJob(id)
    \/ CommitLate
    \/ \E h \in Host : ConsumerStep(h)
    \/ \E h \in Host, id \in DOMAIN jobs : WorkerStep(h, id)
    \/ \E h \in Host : Crash(h)

\* The goroutines are scheduled and raft, with a quorum up, answers: each step
\* of a goroutine is eventually taken.  Nothing makes a late proposal commit,
\* and nothing makes the user act.
Fairness ==
    /\ \A h \in Host : WF_vars(ConsumerStep(h))
    /\ \A h \in Host, id \in JobId : WF_vars(WorkerStep(h, id))

SystemSpec == SystemInit /\ [][SystemNext]_vars
FairSpec == SystemSpec /\ Fairness

-----------------------------------------------------------------------------
(* Properties.                                                             *)

\* The cluster's state is well formed: cursors stay within the events, every
\* command that may still commit and every event names a job that exists.
SystemTypeOK ==
    /\ TypeOK
    /\ log \in Seq(Event)
    /\ \A i \in DOMAIN log : log[i].id \in DOMAIN jobs
    /\ cursor \in [Host -> 0..Len(log)]
    /\ consumer \in [Host -> [at : ConsumerAt, id : JobId \cup {NoJobId}]]
    /\ \A h \in Host : consumer[h] # Idle => consumer[h].id \in DOMAIN jobs
    /\ worker \in [Host -> [JobId -> WorkerAt]]
    /\ late \subseteq Command
    /\ \A cmd \in late : cmd.id \in DOMAIN jobs
    /\ installed \in [Host -> SUBSET JobId]
    /\ overlapped \in [Host -> SUBSET Service]
    /\ running \in [Host -> [Service -> SUBSET (JobId \cup {Down})]]
    /\ cancels \in 0..MaxCancels
    /\ timeouts \in 0..MaxTimeouts
    /\ crashes \in 0..MaxCrashes

\* The hosts whose service a job is taking down and up again (Deploy).
Restarting(id) == {h \in Host : consumer[h] = [at |-> "deploying", id |-> id]}

\* "Wait for each host to restart service (one by one)": two hosts of a job are
\* never in Deploy at the same time, whatever reports were late, lost or
\* cancelled in between, and while the job is DEPLOYING the host in Deploy is
\* the one whose turn it is.
OneHostAtATime ==
    \A id \in DOMAIN jobs :
        /\ Cardinality(Restarting(id)) <= 1
        /\ \A h \in Restarting(id) :
              jobs[id].status = "DEPLOYING" => OnProgress(jobs[id]) = h

\* A service is only stopped for a release that is complete on the host, unless
\* the host ever configured two jobs of the service at once: the restart was
\* confirmed after every host of the job reported SUCCESS, and no job installed
\* since took the release away.
InstalledBeforeRestart ==
    \A id \in DOMAIN jobs : \A h \in Restarting(id) :
        ~Overlapped(h, id) => id \in installed[h]

\* Event k is what led to event i: a job is configured after it was created, the
\* first host is told to restart when all are configured and each further one
\* when the one before it restarted, and a host restarts because it was told.
LedTo(k, i) ==
    LET order == jobs[log[i].id].hostOrder
    IN  /\ log[k].id = log[i].id
        /\ \/ log[i].kind = "AllHostConfigured" /\ log[k].kind = "JobCreated"
           \/ /\ log[i].kind = "RestartConfirmed"
              /\ log[k].kind = "AllHostConfigured" /\ log[i].host = order[1]
           \/ /\ log[i].kind = "RestartConfirmed" /\ log[k].kind = "ServiceRestarted"
              /\ \E n \in DOMAIN order :
                    n > 1 /\ log[k].host = order[n - 1] /\ log[i].host = order[n]
           \/ /\ log[i].kind = "ServiceRestarted"
              /\ log[k].kind = "RestartConfirmed" /\ log[k].host = log[i].host

\* Two events that say the same of a job.
SameEvent(i, k) ==
    /\ log[i].kind = log[k].kind /\ log[i].id = log[k].id
    /\ log[i].kind \in {"RestartConfirmed", "ServiceRestarted"}
          => log[i].host = log[k].host /\ DistinctHosts(jobs[log[i].id])

\* Believed jobs are confirmed by whichever host triggered the event.  However
\* confirmations, reports and cancellations interleave, are late or lost, the
\* events of a job follow one script: created, configured, first host told,
\* first host restarted, second host told, ...  None comes without the one that
\* leads to it, and none twice (jobs that name each host once), so that no host
\* is told twice to restart and no rollout goes round in circles.
EventsFollowScript ==
    /\ \A i \in DOMAIN log : log[i].kind # "JobCreated" => \E k \in 1..(i - 1) : LedTo(k, i)
    /\ \A i, k \in DOMAIN log : SameEvent(i, k) => i = k

\* No other job of the service has begun to restart it.
Unrivalled(id) ==
    \A k \in JobsOf(jobs[id].service) \ {id} : jobs[k].currentOrder = NilOrder

\* A DEPLOYED job (with distinct hosts) runs on every one of its hosts, and
\* nothing that systemd restarts takes its place, unless another job of the
\* service has begun to restart it.
DeployedRuns ==
    \A id \in DOMAIN jobs :
        LET job == jobs[id]
        IN  DistinctHosts(job) /\ job.status = "DEPLOYED" /\ Unrivalled(id) =>
                \A h \in HostsOf(job) : running[h][job.service] = {id}

\* A build spreads host by host: it may run on a host, or be what systemd runs
\* there next, only after every host before it in the job's order reported
\* SUCCESS, whether the job then goes on, fails or is cancelled (a job that
\* names each host once).
BuildSpreadsInOrder ==
    \A id \in DOMAIN jobs, h \in Host :
        LET job == jobs[id]
        IN  DistinctHosts(job) /\ id \in running[h][job.service] =>
                \E i \in DOMAIN job.hostOrder :
                    /\ job.hostOrder[i] = h
                    /\ \A k \in 1..(i - 1) : job.deployment[job.hostOrder[k]] = "SUCCESS"

\* "should not be possibre, if we already configure, the job should still be
\* there" (jobs_controller.go): when a host is told to restart a service, the
\* job is in its pool.
TargetHasJobInPool ==
    \A h \in Host :
        cursor[h] < Len(log) =>
            LET e == Next1(h)
            IN  e.kind = "RestartConfirmed" /\ e.host = h => e.id \in Pool(h)

\* Once a job restarts services it is never put back to CONFIGURED, which
\* would begin the restart over: no late configuration report can do it, since
\* every host reports one outcome of its configuration.
NeverStartsOver ==
    [][\A id \in DOMAIN jobs :
          jobs[id].status \in {"DEPLOYING", "DEPLOYED", "FAILED"}
              => jobs'[id].status # "CONFIGURED"]_vars

\* Without faults a believed job comes to an end: it is DEPLOYED, FAILED or
\* CANCELLED for good, or a host could not be configured.
Ended(job) ==
    \/ job.status \in {"DEPLOYED", "FAILED", "CANCELLED"}
    \/ \E h \in HostsOf(job) : job.configuration[h] \in {"FAILED", "CANCELLED"}

BelievedJobsEnd ==
    \A id \in JobId :
        (id \in DOMAIN jobs /\ jobs[id].believe)
            ~> [](id \in DOMAIN jobs /\ Ended(jobs[id]))

-----------------------------------------------------------------------------
(* Why the properties hold: the inductive invariants of Deployd_proofs,    *)
(* DeploydTurn_proofs and DeploydRuns_proofs.  Two things are              *)
(* in one place at a time, in an event not yet taken, with a goroutine, or *)
(* in a late proposal: the outcome of configuring a host, and the turn to  *)
(* go on with a job.                                                       *)

AtMostOneOf(A, B, C) ==
    /\ \A x, y \in A : x = y
    /\ \A x, y \in B : x = y
    /\ \A x, y \in C : x = y
    /\ A = {} \/ B = {}
    /\ A = {} \/ C = {}
    /\ B = {} \/ C = {}

Outcome == {"SUCCESS", "FAILED", "CANCELLED"}

\* Where the outcome of configuring h for a job may still come from.
CreatedFor(h, id) ==
    {i \in DOMAIN log : log[i].kind = "JobCreated" /\ log[i].id = id /\ cursor[h] < i}
WorkersFor(h, id) ==
    {g \in {h} : worker[g][id] \in {"announce", "installing"} \cup Outcome}
OutcomesFor(h, id) ==
    {cmd \in late : /\ cmd.kind = "configuration" /\ cmd.id = id /\ cmd.host = h
                    /\ cmd.report \in Outcome}
NoOutcome(h, id) ==
    CreatedFor(h, id) = {} /\ WorkersFor(h, id) = {} /\ OutcomesFor(h, id) = {}

OutcomeInv ==
    /\ \A h \in Host, id \in JobId : worker[h][id] # "none" => id \in DOMAIN jobs
    /\ \A i, k \in DOMAIN log :
          /\ log[i].kind = "JobCreated" /\ log[k].kind = "JobCreated"
          /\ log[i].id = log[k].id
          => i = k
    /\ \A h \in Host, id \in JobId :
          AtMostOneOf(CreatedFor(h, id), WorkersFor(h, id), OutcomesFor(h, id))

\* All hosts of a job were configured at some time.
WasConfigured(id) ==
    \E i \in DOMAIN log : log[i].kind = "AllHostConfigured" /\ log[i].id = id

\* A host counted as configured has no outcome left to report.
CountedInv ==
    \A id \in DOMAIN jobs :
        /\ \A h \in HostsOf(jobs[id]) :
              jobs[id].configuration[h] = "SUCCESS" => NoOutcome(h, id)
        /\ WasConfigured(id) => \A h \in HostsOf(jobs[id]) : NoOutcome(h, id)
        /\ jobs[id].status \in {"CONFIGURED", "DEPLOYING", "DEPLOYED", "FAILED"}
              => WasConfigured(id)

\* Whoever says that a host is configured says so of an installed release (of a
\* service whose jobs never overlapped there), and while nothing crashed, of a job
\* in the host's pool.
Ready(h, id) ==
    /\ ~Overlapped(h, id) => id \in installed[h]
    /\ crashes = 0 => worker[h][id] # "none"

ReadyInv ==
    /\ \A h \in Host, id \in JobId : worker[h][id] = "SUCCESS" => Ready(h, id)
    /\ \A cmd \in late :
          cmd.kind = "configuration" /\ cmd.report = "SUCCESS" => Ready(cmd.host, cmd.id)
    /\ \A id \in DOMAIN jobs, h \in Host :
          /\ h \in HostsOf(jobs[id])
          /\ jobs[id].configuration[h] = "SUCCESS" \/ WasConfigured(id)
          => Ready(h, id)

\* Where the turn to go on with a job may be.
TurnEvents(id) ==
    {i \in DOMAIN log : /\ log[i].kind # "JobCreated" /\ log[i].id = id
                        /\ cursor[log[i].host] < i}
TurnConsumers(id) == {h \in Host : consumer[h] # Idle /\ consumer[h].id = id}
TurnLate(id) ==
    {cmd \in late : /\ cmd.id = id
                    /\ \/ cmd.kind = "restart"
                       \/ cmd.kind = "restarted" /\ cmd.report # "RESTARTING"}

\* The turn waits for a confirmation; it is with h, which is to restart.
AwaitsConfirmation(id) ==
    \/ \E i \in TurnEvents(id) : log[i].kind # "RestartConfirmed"
    \/ \E h \in TurnConsumers(id) : consumer[h].at = "confirm"
    \/ \E cmd \in TurnLate(id) : cmd.kind = "restart"
RestartsAt(id, h) ==
    \/ \E i \in TurnEvents(id) : log[i].kind = "RestartConfirmed" /\ log[i].host = h
    \/ h \in TurnConsumers(id) /\ consumer[h].at # "confirm"
    \/ \E cmd \in TurnLate(id) : cmd.kind = "restarted" /\ cmd.host = h

OneTurn(id) ==
    /\ AtMostOneOf(TurnEvents(id), TurnConsumers(id), TurnLate(id))
    /\ AwaitsConfirmation(id) => WasConfigured(id)
    /\ \A h \in Host : RestartsAt(id, h) =>
          /\ WasConfigured(id)
          /\ h \in HostsOf(jobs[id])
          /\ jobs[id].status \in {"DEPLOYING", "CANCELLED"}
          /\ jobs[id].status = "DEPLOYING" => OnProgress(jobs[id]) = h
          /\ jobs[id].currentOrder # NilOrder

Told(id) == {i \in DOMAIN log : log[i].kind = "RestartConfirmed" /\ log[i].id = id}

\* The hosts told to restart are those up to the current order, and when a
\* confirmation is awaited, those before it.
ToldInOrder(id) ==
    LET job == jobs[id]
    IN  /\ Told(id) # {} => WasConfigured(id)
        /\ job.status = "CONFIGURED" => Told(id) = {}
        /\ job.status = "DEPLOYING" =>
              \A i \in Told(id) :
                  \E k \in DOMAIN job.hostOrder :
                      /\ log[i].host = job.hostOrder[k]
                      /\ k <= job.currentOrder + 1
                      /\ AwaitsConfirmation(id) => k <= job.currentOrder

TurnInv == \A id \in DOMAIN jobs : OneTurn(id) /\ ToldInOrder(id)

\* So no host of a job is told twice to restart.
ConfirmedOncePerHost ==
    \A i, k \in DOMAIN log :
        /\ log[i].kind = "RestartConfirmed" /\ log[k].kind = "RestartConfirmed"
        /\ log[i].id = log[k].id /\ log[i].host = log[k].host
        /\ DistinctHosts(jobs[log[i].id])
        => i = k

\* Whoever says that a host was restarted says so of a running build.
RunsOn(h, id) == running[h][jobs[id].service] = {id}

JobRuns(id) ==
    LET job == jobs[id]
    IN  /\ \A h \in TurnConsumers(id) : consumer[h].at = "SUCCESS" => RunsOn(h, id)
        /\ \A cmd \in TurnLate(id) :
              cmd.kind = "restarted" /\ cmd.report = "SUCCESS" => RunsOn(cmd.host, id)
        /\ job.status = "DEPLOYING" =>
              \A i \in DOMAIN job.hostOrder :
                  i <= job.currentOrder => RunsOn(job.hostOrder[i], id)
        /\ job.status = "DEPLOYED" => \A h \in HostsOf(job) : RunsOn(h, id)

RunsInv ==
    \A id \in DOMAIN jobs : DistinctHosts(jobs[id]) /\ Unrivalled(id) => JobRuns(id)

\* A build runs, or may, where a host was told to restart for it, and the hosts
\* told are those up to the current order, in whatever status the job is.
ToldTo(id, h) == \E i \in Told(id) : log[i].host = h

SpreadInOrder(id) ==
    LET job == jobs[id]
    IN  /\ \A i \in Told(id) : \E k \in DOMAIN job.hostOrder :
              log[i].host = job.hostOrder[k] /\ k <= job.currentOrder + 1
        /\ DistinctHosts(job) =>
              \A k \in DOMAIN job.hostOrder :
                  k <= job.currentOrder => job.deployment[job.hostOrder[k]] = "SUCCESS"

SpreadInv ==
    /\ \A h \in Host, svc \in Service : \A id \in running[h][svc] \ {Down} :
          id \in DOMAIN jobs /\ jobs[id].service = svc /\ ToldTo(id, h)
    /\ \A h \in Host :
          consumer[h].at \notin {"idle", "confirm"} => ToldTo(consumer[h].id, h)
    /\ \A id \in DOMAIN jobs : SpreadInOrder(id)

\* What the log says of a job that has come to the current order: the hosts
\* restarted are those before it, and they are not restarted again.
Events(kind, id) == {i \in DOMAIN log : log[i].kind = kind /\ log[i].id = id}

ScriptOf(id) ==
    LET job == jobs[id]
        restarts == Events("ServiceRestarted", id)
    IN  /\ Events("JobCreated", id) # {}
        /\ \A i, k \in Events("AllHostConfigured", id) : i = k
        /\ restarts # {} => WasConfigured(id)
        /\ job.status = "CONFIGURED" => restarts = {}
        /\ \A i \in restarts : \E n \in DOMAIN job.hostOrder :
              log[i].host = job.hostOrder[n] /\ n <= job.currentOrder
        /\ DistinctHosts(job) =>
              \A i, k \in restarts : log[i].host = log[k].host => i = k
        /\ job.status = "DEPLOYING" =>
              \A n \in DOMAIN job.hostOrder : n <= job.currentOrder =>
                  \E i \in restarts : log[i].host = job.hostOrder[n]

ScriptInv ==
    /\ \A id \in DOMAIN jobs : ScriptOf(id)
    /\ \A cmd \in late : cmd.kind = "restarted" => ToldTo(cmd.id, cmd.host)
    /\ \A i \in DOMAIN log : log[i].kind # "JobCreated" => \E k \in 1..(i - 1) : LedTo(k, i)

-----------------------------------------------------------------------------
(* Nothing that is to be done is forgotten.                                *)

\* The outcome of configuring h was reported, or is still to come; only an
\* announcement that came late can hide that it was reported.
Overtaken(id) ==
    timeouts > 0 /\ \E h \in HostsOf(jobs[id]) : jobs[id].configuration[h] = "CONFIGURING"
NoTurn(id) == TurnEvents(id) = {} /\ TurnConsumers(id) = {} /\ TurnLate(id) = {}

\* Without crashes no believed job is left lying: as long as it has not ended, a
\* host of it still has its configuration to do or to report, or the turn to go
\* on is in an event that is not taken yet, with a consumer or in a proposal
\* that may still commit.  Late proposals do not change that, with the exception
\* of an announcement that overtakes the outcome it announces.
NoJobForgotten ==
    crashes = 0 =>
        \A id \in DOMAIN jobs :
            jobs[id].believe /\ ~Ended(jobs[id]) =>
                \/ \E h \in HostsOf(jobs[id]) : ~NoOutcome(h, id)
                \/ ~NoTurn(id)
                \/ Overtaken(id)

\* The turn that leads on: the event of the last restart asks for nothing.
LeadsOn(id) ==
    \/ \E i \in TurnEvents(id) : log[i].kind = "ServiceRestarted" => log[i].status # "DEPLOYED"
    \/ TurnConsumers(id) # {}
    \/ TurnLate(id) # {}

JobWaits(id) ==
    LET job == jobs[id]
    IN  /\ job.status \in {"QUEUED", "CONFIGURED", "DEPLOYING", "DEPLOYED", "FAILED", "CANCELLED"}
        /\ \A h \in HostsOf(job) :
              \/ job.configuration[h] \in Outcome
              \/ ~NoOutcome(h, id)
              \/ timeouts > 0 /\ job.configuration[h] = "CONFIGURING"
        /\ job.status = "QUEUED" => ~AllConfigured(job)
        /\ job.believe /\ job.status \in {"CONFIGURED", "DEPLOYING"} => LeadsOn(id)

WaitsInv ==
    /\ late # {} => timeouts > 0
    /\ crashes = 0 =>
          /\ \A h \in Host, id \in JobId : CreatedFor(h, id) # {} => worker[h][id] = "none"
          /\ \A id \in DOMAIN jobs : JobWaits(id)
=============================================================================
