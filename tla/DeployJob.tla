----------------------------- MODULE DeployJob -----------------------------
(***************************************************************************)
(* The replicated deployment-job application of deployd: the state machine *)
(* of internal/src/raft-app/deploy-job/app.go.  Every replica applies the  *)
(* same committed commands to the same jobs, so one variable stands for    *)
(* the jobs of all replicas.                                               *)
(*                                                                         *)
(* A command may arrive late, twice or out of order: the application sees  *)
(* only what it stores, so this module lets every command name any job and *)
(* any host at any time.  Deployd.tla restricts them to what the hosts     *)
(* really send.                                                            *)
(*                                                                         *)
(* A command the code answers with an error changes nothing and is not a   *)
(* step; the guards of the actions are the code's early returns.           *)
(***************************************************************************)
EXTENDS Integers, Sequences, FiniteSets

CONSTANTS
    Service,        \* the services deployments are submitted for
    Host,           \* the hosts a service can be deployed on
    ReplicaID,      \* the raft replica ids a target host can carry
    TargetLists,    \* the target-host lists a user may submit
    MaxJobs         \* bound: the number of jobs ever submitted

Target == [host : Host, replica : ReplicaID]

ASSUME TargetListsAssumption == TargetLists \subseteq Seq(Target)
ASSUME MaxJobsAssumption == MaxJobs \in Nat \ {0}

\* "SUCCESS", "CONFIGURING" and "TIMEOUT" exist in the code and are never
\* assigned to a job.
JobStatus ==
    {"QUEUED", "CONFIGURING", "CONFIGURED", "DEPLOYING", "DEPLOYED",
     "SUCCESS", "CANCELLED", "TIMEOUT", "FAILED"}

\* The statuses a host can report, and the PENDING both maps start with.
ConfigurationReport == {"CONFIGURING", "SUCCESS", "FAILED", "CANCELLED"}
RestartReport == {"RESTARTING", "SUCCESS", "FAILED"}

\* CurrentOrder is a *uint in the code; nil until the restart is confirmed.
NilOrder == -1

\* Jobs are numbered by the store's incremental ids; an empty id asks the
\* store for the jobs of a service, latest first.
JobId == 1..MaxJobs
NoJobId == 0

VARIABLE jobs       \* the job records, in the order of their ids

-----------------------------------------------------------------------------
(* Jobs.                                                                   *)

SeqHosts(order) == {order[i] : i \in DOMAIN order}
HostsOf(job) == DOMAIN job.configuration

\* The Go maps host -> status: partial functions on Host.
HostMap(S) == UNION {[hs -> S] : hs \in SUBSET Host}

Job ==
    [service : Service,
     believe : BOOLEAN,
     status : JobStatus,
     hostOrder : Seq(Host),
     currentOrder : Nat \cup {NilOrder},
     deployment : HostMap(RestartReport \cup {"PENDING"}),
     configuration : HostMap(ConfigurationReport \cup {"PENDING"})]

\* The definitions marked "fault" are variants of the operator below them, each
\* with one plausible mistake; no other definition uses them.

\* userSubmitJob: nothing ever writes the service's existing instances, so
\* the target list is what decides; replica ids must differ, hosts need not.
AcceptsTargets(targets) ==
    /\ targets # <<>>
    /\ \A i, k \in DOMAIN targets :
          targets[i].replica = targets[k].replica => i = k

OrderOf(targets) == [i \in DOMAIN targets |-> targets[i].host]

\* Fault: the status map of the restart is left for the first report to make.
NewJobNoStatus(svc, believe, targets) ==
    [service |-> svc, believe |-> believe, status |-> "QUEUED",
     hostOrder |-> OrderOf(targets), currentOrder |-> NilOrder,
     deployment |-> <<>>,
     configuration |-> [h \in SeqHosts(OrderOf(targets)) |-> "PENDING"]]

NewJob(svc, believe, targets) ==
    LET order == OrderOf(targets)
    IN  [service |-> svc,
         believe |-> believe,
         status |-> "QUEUED",
         hostOrder |-> order,
         currentOrder |-> NilOrder,
         deployment |-> [h \in SeqHosts(order) |-> "PENDING"],
         configuration |-> [h \in SeqHosts(order) |-> "PENDING"]]

JobsOf(svc) == {id \in DOMAIN jobs : jobs[id].service = svc}
Latest(svc) == CHOOSE id \in JobsOf(svc) : \A k \in JobsOf(svc) : k <= id

\* The client sends the id in field "id", the application reads "job_id":
\* whatever the user names, the application looks up an empty job id.
CancelRequestJobId(id) == NoJobId
CancelTarget(svc, id) ==
    LET asked == CancelRequestJobId(id)
    IN  IF asked = NoJobId THEN Latest(svc) ELSE asked

AcceptsCancel(job) == job.status \notin {"CANCELLED", "SUCCESS"}
Cancelled(job) == [job EXCEPT !.status = "CANCELLED"]

\* Fault: one configured host is enough.
AnyConfigured(job) == \E h \in HostsOf(job) : job.configuration[h] = "SUCCESS"

AllConfigured(job) == \A h \in HostsOf(job) : job.configuration[h] = "SUCCESS"

\* hostConfigurationUpdate: the status of the job is not looked at.
AcceptsConfiguration(job, h) == h \in HostsOf(job)
ConfigurationUpdated(job, h, report) ==
    LET updated == [job EXCEPT !.configuration[h] = report]
    IN  IF AllConfigured(updated)
        THEN [updated EXCEPT !.status = "CONFIGURED"]
        ELSE updated

AcceptsRestart(job) == job.status \in {"CONFIGURED", "DEPLOYING"}

\* Fault: every confirmation starts over.
RestartedFromFirst(job) == [job EXCEPT !.status = "DEPLOYING", !.currentOrder = 0]

Restarted(job) ==
    IF job.status = "CONFIGURED"
    THEN [job EXCEPT !.status = "DEPLOYING", !.currentOrder = 0]
    ELSE job

\* The host whose turn it is.  Defined only while the order is in range.
OnProgress(job) == job.hostOrder[job.currentOrder + 1]

\* Fault: any host of the job may report.
AcceptsAnyHostRestartUpdate(job, h) ==
    job.status = "DEPLOYING" /\ h \in DOMAIN job.deployment

AcceptsRestartUpdate(job, h) ==
    /\ job.status = "DEPLOYING"
    /\ OnProgress(job) = h

\* Fault: the last host is one further.
RestartUpdatedOffByOne(job, h, report) ==
    LET updated == [job EXCEPT !.deployment[h] = report,
                               !.currentOrder = IF report = "SUCCESS" THEN @ + 1 ELSE @]
    IN  [updated EXCEPT !.status =
            IF report = "FAILED" THEN "FAILED"
            ELSE IF updated.currentOrder > Cardinality(DOMAIN job.deployment)
                 THEN "DEPLOYED" ELSE @]

\* Fault: whatever is not a failure counts as a restarted host.
RestartUpdatedNoFYI(job, h, report) ==
    LET updated == [job EXCEPT !.deployment[h] = report,
                               !.currentOrder = IF report # "FAILED" THEN @ + 1 ELSE @]
    IN  [updated EXCEPT !.status =
            IF report = "FAILED" THEN "FAILED"
            ELSE IF updated.currentOrder >= Cardinality(DOMAIN job.deployment)
                 THEN "DEPLOYED" ELSE @]

\* Fault: the order is advanced before the report is looked at.
RestartUpdatedAdvanceFirst(job, h, report) ==
    LET updated == [job EXCEPT !.deployment[h] = report,
                               !.currentOrder = IF report # "RESTARTING" THEN @ + 1 ELSE @]
    IN  [updated EXCEPT !.status =
            IF report = "FAILED" THEN "FAILED"
            ELSE IF updated.currentOrder >= Cardinality(DOMAIN job.deployment)
                 THEN "DEPLOYED" ELSE @]

\* The count the order is compared with is that of the status map.
RestartUpdated(job, h, report) ==
    LET updated == [job EXCEPT !.deployment[h] = report]
        advanced == [updated EXCEPT !.currentOrder = @ + 1]
    IN  CASE report = "FAILED" -> [updated EXCEPT !.status = "FAILED"]
          [] report = "RESTARTING" -> updated
          [] report = "SUCCESS" ->
               IF advanced.currentOrder >= Cardinality(DOMAIN job.deployment)
               THEN [advanced EXCEPT !.status = "DEPLOYED"]
               ELSE advanced

-----------------------------------------------------------------------------
(* The commands.                                                           *)

Init == jobs = <<>>

UserSubmitJob(svc, believe, targets) ==
    /\ Len(jobs) < MaxJobs
    /\ AcceptsTargets(targets)
    /\ jobs' = Append(jobs, NewJob(svc, believe, targets))

\* A client cancels a job that exists, by its service and id.
CancelJob(id) ==
    LET target == CancelTarget(jobs[id].service, id)
    IN  /\ AcceptsCancel(jobs[target])
        /\ jobs' = [jobs EXCEPT ![target] = Cancelled(@)]

HostConfigurationUpdate(id, h, report) ==
    /\ AcceptsConfiguration(jobs[id], h)
    /\ jobs' = [jobs EXCEPT ![id] = ConfigurationUpdated(@, h, report)]

Restart(id) ==
    /\ AcceptsRestart(jobs[id])
    /\ jobs' = [jobs EXCEPT ![id] = Restarted(@)]

HostRestartServiceUpdate(id, h, report) ==
    /\ AcceptsRestartUpdate(jobs[id], h)
    /\ jobs' = [jobs EXCEPT ![id] = RestartUpdated(@, h, report)]

Next ==
    \/ \E svc \in Service, believe \in BOOLEAN, targets \in TargetLists :
          UserSubmitJob(svc, believe, targets)
    \/ \E id \in DOMAIN jobs : CancelJob(id)
    \/ \E id \in DOMAIN jobs, h \in Host, report \in ConfigurationReport :
          HostConfigurationUpdate(id, h, report)
    \/ \E id \in DOMAIN jobs : Restart(id)
    \/ \E id \in DOMAIN jobs, h \in Host, report \in RestartReport :
          HostRestartServiceUpdate(id, h, report)

Spec == Init /\ [][Next]_jobs

-----------------------------------------------------------------------------
(* Properties.                                                             *)

\* The replicated store holds well-formed jobs (the Job type): both status
\* maps of a job are keyed by exactly the hosts of its restart order.
TypeOK ==
    /\ jobs \in Seq(Job)
    /\ Len(jobs) <= MaxJobs
    /\ \A id \in DOMAIN jobs :
          /\ DOMAIN jobs[id].deployment = SeqHosts(jobs[id].hostOrder)
          /\ DOMAIN jobs[id].configuration = SeqHosts(jobs[id].hostOrder)

\* While a job is DEPLOYING its order is not nil and names a host: restart
\* dereferences CurrentOrder and hostRestartServiceUpdate indexes HostOrder
\* with it, on every replica, with no check of their own.
OrderInRange ==
    \A id \in DOMAIN jobs :
        jobs[id].status = "DEPLOYING" =>
            /\ jobs[id].currentOrder # NilOrder
            /\ jobs[id].currentOrder < Len(jobs[id].hostOrder)

DistinctHosts(job) ==
    \A i, k \in DOMAIN job.hostOrder :
        job.hostOrder[i] = job.hostOrder[k] => i = k

\* A rolling restart only moves past a host that reported SUCCESS, however
\* the reports, confirmations and late configuration updates interleave:
\* all hosts before the current order are SUCCESS, and in a DEPLOYED job all
\* hosts are.
PrefixRestarted ==
    \A id \in DOMAIN jobs :
        LET job == jobs[id]
        IN  DistinctHosts(job) /\ job.status \in {"DEPLOYING", "DEPLOYED"} =>
                \A i \in DOMAIN job.hostOrder :
                    i <= job.currentOrder
                        => job.deployment[job.hostOrder[i]] = "SUCCESS"

\* A DEPLOYED job has restarted every host of its list (jobs whose target
\* hosts differ; hostRestartServiceUpdate compares the order with the number
\* of map entries, so a repeated host breaks this).
DeployedAllRestarted ==
    \A id \in DOMAIN jobs :
        LET job == jobs[id]
        IN  DistinctHosts(job) /\ job.status = "DEPLOYED" =>
                \A h \in DOMAIN job.deployment : job.deployment[h] = "SUCCESS"

\* A FAILED job still tells which host failed: the host whose turn it was is
\* in range and its stored status is FAILED, whatever arrives afterwards.
FailedNamesHost ==
    \A id \in DOMAIN jobs :
        LET job == jobs[id]
        IN  job.status = "FAILED" =>
                /\ job.currentOrder \in 0..(Len(job.hostOrder) - 1)
                /\ job.deployment[OnProgress(job)] = "FAILED"

\* "explicitly cancelling job, we cancel" (app.go, OnUpdate): a cancelled job
\* does not come back.
CancelledIsFinal ==
    [][\A id \in DOMAIN jobs :
          jobs[id].status = "CANCELLED" => jobs'[id].status = "CANCELLED"]_jobs

\* The inductive invariant of DeployJob_proofs.tla: the order of a DEPLOYING
\* or FAILED job stays below the number of map entries, the count the code
\* compares it with, and a DEPLOYED job with distinct hosts ended at the last.
JobInv(job) ==
    /\ job.hostOrder # <<>>
    /\ DOMAIN job.deployment = SeqHosts(job.hostOrder)
    /\ DOMAIN job.configuration = SeqHosts(job.hostOrder)
    /\ job.status \in {"DEPLOYING", "FAILED"} =>
          job.currentOrder \in 0..(Cardinality(DOMAIN job.deployment) - 1)
    /\ job.status = "FAILED" => job.deployment[OnProgress(job)] = "FAILED"
    /\ DistinctHosts(job) /\ job.status \in {"DEPLOYING", "DEPLOYED"} =>
          \A i \in DOMAIN job.hostOrder :
              i <= job.currentOrder => job.deployment[job.hostOrder[i]] = "SUCCESS"
    /\ DistinctHosts(job) /\ job.status = "DEPLOYED" =>
          job.currentOrder = Len(job.hostOrder)

IInv ==
    /\ jobs \in Seq(Job)
    /\ Len(jobs) <= MaxJobs
    /\ \A id \in DOMAIN jobs : JobInv(jobs[id])

-----------------------------------------------------------------------------
(* What a job promises: RollingDeploy, under the mapping that forgets all  *)
(* but whose turn it is.  A job that names a host twice promises nothing:  *)
(* it stands for a rollout that is never begun.                            *)

Turn(job) ==
    CASE DistinctHosts(job) /\ job.status = "DEPLOYING" -> job.currentOrder + 1
      [] DistinctHosts(job) /\ job.status = "DEPLOYED" -> Len(job.hostOrder) + 1
      [] OTHER -> 0

Rollout(job) == [plan |-> job.hostOrder, turn |-> Turn(job)]

Abstraction == [id \in DOMAIN jobs |-> Rollout(jobs[id])]

RD == INSTANCE RollingDeploy WITH
        Plans <- {OrderOf(targets) : targets \in TargetLists},
        rollouts <- Abstraction

\* Every job is a rolling restart: the turn starts at the first host, passes
\* to the next one, and the job finishes after the last host of the list.
ImplementsRollingDeploy == RD!Spec
=============================================================================
