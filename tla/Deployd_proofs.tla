--------------------------- MODULE Deployd_proofs ---------------------------
(***************************************************************************)
(* Proofs about the cluster, for any hosts, services and target lists and  *)
(* any number of jobs, timeouts, crashes and cancellations: its state is   *)
(* well formed, and it takes no step the replicated application would not, *)
(* so that what DeployJob_proofs shows of the application holds of it.     *)
(*                                                                         *)
(* The two need each other: a command is a step of the application because *)
(* it names a job that exists and a host, and a job that exists stays      *)
(* because only steps of the application change the jobs.                  *)
(*                                                                         *)
(* And every host of a job reports one outcome of its configuration: the   *)
(* outcome is in one place (OutcomeInv), a host that was counted has none  *)
(* left (CountedInv), and who reports success has installed the release    *)
(* (ReadyInv).  So a job that restarts services never starts over.         *)
(***************************************************************************)
EXTENDS Deployd, DeployJob_proofs

\* The parts of SystemTypeOK.
LogTyped ==
    /\ log \in Seq(Event)
    /\ \A i \in DOMAIN log : log[i].id \in DOMAIN jobs

LateTyped ==
    /\ late \subseteq Command
    /\ \A cmd \in late : cmd.id \in DOMAIN jobs

ConsumerTyped ==
    /\ cursor \in [Host -> 0..Len(log)]
    /\ consumer \in [Host -> [at : ConsumerAt, id : JobId \cup {NoJobId}]]
    /\ \A h \in Host : consumer[h] # Idle => consumer[h].id \in DOMAIN jobs

WorkerTyped ==
    /\ worker \in [Host -> [JobId -> WorkerAt]]
    /\ installed \in [Host -> SUBSET JobId]
    /\ overlapped \in [Host -> SUBSET Service]
    /\ running \in [Host -> [Service -> SUBSET (JobId \cup {Down})]]

CountersTyped ==
    /\ cancels \in 0..MaxCancels
    /\ timeouts \in 0..MaxTimeouts
    /\ crashes \in 0..MaxCrashes

SystemInv ==
    IInv /\ LogTyped /\ LateTyped /\ ConsumerTyped /\ WorkerTyped /\ CountersTyped

-----------------------------------------------------------------------------
(* The jobs and the log only grow.                                         *)

LEMMA JobIds ==
    ASSUME IInv
    PROVE  DOMAIN jobs \subseteq JobId
BY MaxJobsAssumption DEF IInv, JobId, MaxJobsAssumption

LEMMA JobService ==
    ASSUME IInv, NEW id \in DOMAIN jobs
    PROVE  jobs[id].service \in Service
<1>1. jobs[id] \in Job
  BY DEF IInv
<1> QED
  BY <1>1 DEF Job

LEMMA JobsGrow ==
    ASSUME IInv, [Next]_jobs
    PROVE  DOMAIN jobs \subseteq DOMAIN jobs'
<1>1. jobs \in Seq(Job)
  BY DEF IInv
<1>2. ASSUME NEW svc \in Service, NEW believe \in BOOLEAN, NEW targets \in TargetLists,
             UserSubmitJob(svc, believe, targets)
      PROVE  DOMAIN jobs \subseteq DOMAIN jobs'
  <2>1. jobs' = Append(jobs, NewJob(svc, believe, targets))
    BY <1>2 DEF UserSubmitJob
  <2>2. NewJob(svc, believe, targets) \in Job
    BY <1>2, NewJobGood DEF UserSubmitJob, GoodJob
  <2> QED
    BY <1>1, <2>1, <2>2
<1>3. ASSUME NEW id, NEW job, jobs' = [jobs EXCEPT ![id] = job]
      PROVE  DOMAIN jobs \subseteq DOMAIN jobs'
  BY <1>3
<1> QED
  BY <1>2, <1>3 DEF Next, CancelJob, HostConfigurationUpdate, Restart,
                    HostRestartServiceUpdate

\* What a step of the application and of the log preserves.
LEMMA LogGrows ==
    ASSUME IInv, LogTyped, [Next]_jobs,
           \/ UNCHANGED log
           \/ \E e \in Event : e.id \in DOMAIN jobs' /\ log' = Append(log, e)
    PROVE  /\ IInv' /\ LogTyped'
           /\ DOMAIN jobs \subseteq DOMAIN jobs'
           /\ Len(log) \in Nat /\ Len(log') \in Nat /\ Len(log) <= Len(log')
<1>1. IInv' /\ DOMAIN jobs \subseteq DOMAIN jobs'
  BY NextInv, JobsGrow
<1>2. CASE UNCHANGED log
  BY <1>1, <1>2 DEF LogTyped
<1>3. CASE \E e \in Event : e.id \in DOMAIN jobs' /\ log' = Append(log, e)
  BY <1>1, <1>3 DEF LogTyped
<1> QED
  BY <1>1, <1>2, <1>3

-----------------------------------------------------------------------------
(* Committing a command.                                                   *)

\* A broadcast appends one event about a job that exists.
LEMMA BroadcastEvent ==
    ASSUME IInv, IInv', NEW kind \in EventKind, NEW id \in DOMAIN jobs',
           NEW h \in Host, Broadcast(kind, id, h)
    PROVE  \E e \in Event : e.id \in DOMAIN jobs' /\ log' = Append(log, e)
<1> DEFINE e == [kind |-> kind, id |-> id, host |-> h, status |-> jobs'[id].status]
<1>1. id \in JobId
  BY MaxJobsAssumption DEF IInv, JobId, MaxJobsAssumption
<1>2. jobs'[id].status \in JobStatus
  <2>1. jobs'[id] \in Job
    BY DEF IInv
  <2> QED
    BY <2>1 DEF Job
<1>3. e \in Event
  BY <1>1, <1>2 DEF Event
<1> QED
  BY <1>3 DEF Broadcast

\* The commands there are.
LEMMA CommandKinds ==
    ASSUME NEW cmd \in Command
    PROVE  /\ cmd.kind \in {"configuration", "restart", "restarted"}
           /\ cmd.kind = "configuration" =>
                 cmd.host \in Host /\ cmd.report \in ConfigurationReport
           /\ cmd.kind = "restarted" => cmd.host \in Host /\ cmd.report \in RestartReport
BY DEF Command

LEMMA CommitStep ==
    ASSUME IInv, LogTyped, NEW cmd \in Command, cmd.id \in DOMAIN jobs, Commit(cmd)
    PROVE  /\ [Next]_jobs
           /\ \/ UNCHANGED log
              \/ \E e \in Event : e.id \in DOMAIN jobs' /\ log' = Append(log, e)
<1> DEFINE Appended == \E e \in Event : e.id \in DOMAIN jobs' /\ log' = Append(log, e)
<1>1. CASE UNCHANGED <<jobs, log>>
  BY <1>1
<1>2. CASE cmd.kind = "configuration" /\ CommitConfiguration(cmd.id, cmd.host, cmd.report)
  <2>1. Next
    BY <1>2, CommandKinds DEF CommitConfiguration, Next
  <2>2. IInv' /\ cmd.id \in DOMAIN jobs'
    BY <2>1, NextInv, JobsGrow
  <2>3. UNCHANGED log \/ Broadcast("AllHostConfigured", cmd.id, cmd.host)
    BY <1>2 DEF CommitConfiguration
  <2>4. cmd.host \in Host /\ "AllHostConfigured" \in EventKind
    BY <1>2, CommandKinds DEF EventKind
  <2> QED
    BY <2>1, <2>2, <2>3, <2>4, BroadcastEvent
<1>3. CASE cmd.kind = "restart" /\ CommitRestart(cmd.id)
  <2> DEFINE job == jobs'[cmd.id]
  <2>1. Next
    BY <1>3 DEF CommitRestart, Next
  <2>2. IInv' /\ cmd.id \in DOMAIN jobs'
    BY <2>1, NextInv, JobsGrow
  <2>3. job.status = "DEPLOYING"
    <3>1. jobs[cmd.id] \in Job /\ AcceptsRestart(jobs[cmd.id])
      BY <1>3 DEF IInv, CommitRestart, Restart
    <3>2. job = Restarted(jobs[cmd.id])
      BY <1>3 DEF CommitRestart, Restart
    <3> QED
      BY <3>1, <3>2 DEF Restarted, AcceptsRestart, Job
  <2>4. GoodJob(job)
    BY <2>2 DEF IInv, GoodJob
  <2>5. job.currentOrder \in 0..(Len(job.hostOrder) - 1)
    BY <2>3, <2>4, OrderBound
  <2>6. OnProgress(job) \in Host
    BY <2>4, <2>5 DEF GoodJob, Job, OnProgress
  <2>7. Broadcast("RestartConfirmed", cmd.id, OnProgress(job)) /\ "RestartConfirmed" \in EventKind
    BY <1>3 DEF CommitRestart, EventKind
  <2> QED
    BY <2>1, <2>2, <2>6, <2>7, BroadcastEvent
<1>4. CASE cmd.kind = "restarted" /\ CommitRestarted(cmd.id, cmd.host, cmd.report)
  <2>1. Next
    BY <1>4, CommandKinds DEF CommitRestarted, Next
  <2>2. IInv' /\ cmd.id \in DOMAIN jobs'
    BY <2>1, NextInv, JobsGrow
  <2>3. UNCHANGED log \/ Broadcast("ServiceRestarted", cmd.id, cmd.host)
    BY <1>4 DEF CommitRestarted
  <2>4. cmd.host \in Host /\ "ServiceRestarted" \in EventKind
    BY <1>4, CommandKinds DEF EventKind
  <2> QED
    BY <2>1, <2>2, <2>3, <2>4, BroadcastEvent
<1> QED
  BY <1>1, <1>2, <1>3, <1>4 DEF Commit

\* A proposal is committed, or is left among those that may still commit.
LEMMA PublishStep ==
    ASSUME IInv, LogTyped, LateTyped, timeouts \in 0..MaxTimeouts,
           NEW cmd \in Command, cmd.id \in DOMAIN jobs, Publish(cmd)
    PROVE  /\ [Next]_jobs
           /\ \/ UNCHANGED log
              \/ \E e \in Event : e.id \in DOMAIN jobs' /\ log' = Append(log, e)
           /\ LateTyped'
           /\ timeouts' \in 0..MaxTimeouts
<1>1. CASE Commit(cmd) /\ UNCHANGED <<late, timeouts>>
  <2>1. [Next]_jobs /\ DOMAIN jobs \subseteq DOMAIN jobs'
    BY <1>1, CommitStep, JobsGrow
  <2> QED
    BY <1>1, <2>1, CommitStep DEF LateTyped
<1>2. CASE /\ timeouts < MaxTimeouts
           /\ timeouts' = timeouts + 1
           /\ late' = late \cup {[cmd EXCEPT !.n = timeouts]}
           /\ UNCHANGED <<jobs, log>>
  <2> DEFINE new == [cmd EXCEPT !.n = timeouts]
  <2>1. new \in Command /\ new.id = cmd.id
    BY DEF Command
  <2>2. LateTyped'
    BY <1>2, <2>1 DEF LateTyped
  <2>3. timeouts' \in 0..MaxTimeouts
    BY <1>2, BoundsAssumption DEF BoundsAssumption
  <2> QED
    BY <1>2, <2>2, <2>3
<1> QED
  BY <1>1, <1>2 DEF Publish

-----------------------------------------------------------------------------
(* The cluster's steps: each is a step of the application, or none, and    *)
(* leaves the state well formed.                                           *)

\* The hosts' states stay well formed when jobs and log grow under them.
LEMMA HostsKept ==
    ASSUME IInv, LogTyped, ConsumerTyped, [Next]_jobs,
           \/ UNCHANGED log
           \/ \E e \in Event : e.id \in DOMAIN jobs' /\ log' = Append(log, e),
           cursor' = cursor
    PROVE  /\ cursor' \in [Host -> 0..Len(log')]
           /\ \A h \in Host : consumer[h] # Idle => consumer[h].id \in DOMAIN jobs'
<1>1. /\ DOMAIN jobs \subseteq DOMAIN jobs'
      /\ Len(log) \in Nat /\ Len(log') \in Nat /\ Len(log) <= Len(log')
  BY LogGrows
<1>2. \A h \in Host : cursor[h] \in 0..Len(log')
  BY <1>1 DEF ConsumerTyped
<1> QED
  BY <1>1, <1>2 DEF ConsumerTyped

\* The consumer's place after a step of the consumer of h.
LEMMA ConsumerMoved ==
    ASSUME IInv, LogTyped, ConsumerTyped, [Next]_jobs,
           \/ UNCHANGED log
           \/ \E e \in Event : e.id \in DOMAIN jobs' /\ log' = Append(log, e),
           cursor' = cursor,
           NEW h \in Host, NEW place \in [at : ConsumerAt, id : JobId \cup {NoJobId}],
           place = Idle \/ place.id \in DOMAIN jobs',
           consumer' = [consumer EXCEPT ![h] = place]
    PROVE  ConsumerTyped'
BY HostsKept DEF ConsumerTyped

LEMMA IdlePlace == Idle \in [at : ConsumerAt, id : JobId \cup {NoJobId}]
BY DEF Idle, ConsumerAt

\* A step of the consumer of h that publishes a command and moves on.
LEMMA ConsumerPublishes ==
    ASSUME SystemInv, NEW h \in Host, consumer[h] # Idle,
           NEW cmd \in Command, cmd.id = consumer[h].id, Publish(cmd),
           GoIdle(h) \/ GoTo(h, "deploying"),
           UNCHANGED <<cursor, worker, installed, overlapped, running, cancels, crashes>>
    PROVE  [Next]_jobs /\ SystemInv'
<1>1. cmd.id \in DOMAIN jobs
  BY DEF SystemInv, ConsumerTyped
<1>2. /\ [Next]_jobs
      /\ \/ UNCHANGED log
         \/ \E e \in Event : e.id \in DOMAIN jobs' /\ log' = Append(log, e)
      /\ LateTyped' /\ timeouts' \in 0..MaxTimeouts
  BY <1>1, PublishStep DEF SystemInv, CountersTyped
<1>3. IInv' /\ LogTyped' /\ DOMAIN jobs \subseteq DOMAIN jobs'
  BY <1>2, LogGrows DEF SystemInv
<1>4. ConsumerTyped'
  <2>1. CASE GoIdle(h)
    BY <2>1, <1>2, IdlePlace, ConsumerMoved DEF GoIdle, SystemInv
  <2>2. CASE GoTo(h, "deploying")
    <3> DEFINE place == [consumer[h] EXCEPT !.at = "deploying"]
    <3>1. place \in [at : ConsumerAt, id : JobId \cup {NoJobId}] /\ place.id = cmd.id
      BY DEF SystemInv, ConsumerTyped, ConsumerAt
    <3>2. consumer' = [consumer EXCEPT ![h] = place]
      BY <2>2 DEF GoTo
    <3> QED
      BY <3>1, <3>2, <1>1, <1>2, <1>3, ConsumerMoved DEF SystemInv
  <2> QED
    BY <2>1, <2>2
<1>5. WorkerTyped' /\ CountersTyped'
  BY <1>2 DEF SystemInv, WorkerTyped, CountersTyped
<1> QED
  BY <1>2, <1>3, <1>4, <1>5 DEF SystemInv

LEMMA SubmitJobStep ==
    ASSUME SystemInv, NEW svc \in Service, NEW believe \in Believe,
           NEW targets \in TargetLists, SubmitJob(svc, believe, targets)
    PROVE  [Next]_jobs /\ SystemInv'
<1>1. believe \in BOOLEAN
  BY BoundsAssumption DEF BoundsAssumption
<1>2. Next /\ jobs' = Append(jobs, NewJob(svc, believe, targets))
  BY <1>1 DEF SubmitJob, UserSubmitJob, Next
<1>3. IInv'
  BY <1>2, NextInv DEF SystemInv
<1>4. Len(jobs') \in DOMAIN jobs'
  <2>1. NewJob(svc, believe, targets) \in Job
    BY <1>1, NewJobGood DEF SubmitJob, UserSubmitJob, GoodJob
  <2> QED
    BY <1>2, <2>1 DEF SystemInv, IInv
<1>5. targets[1].host \in Host
  <2>1. targets \in Seq(Target) /\ targets # <<>>
    BY TargetListsAssumption DEF TargetListsAssumption, SubmitJob, UserSubmitJob, AcceptsTargets
  <2>2. targets[1] \in Target
    BY <2>1
  <2> QED
    BY <2>2 DEF Target
<1>6. \E e \in Event : e.id \in DOMAIN jobs' /\ log' = Append(log, e)
  BY <1>3, <1>4, <1>5, BroadcastEvent DEF SubmitJob, EventKind, SystemInv
<1>7. LogTyped' /\ DOMAIN jobs \subseteq DOMAIN jobs'
  BY <1>2, <1>6, LogGrows DEF SystemInv
<1>8. cursor' = cursor /\ consumer' = consumer
  BY DEF SubmitJob, hostVars
<1>9. ConsumerTyped'
  BY <1>2, <1>6, <1>8, HostsKept DEF SystemInv, ConsumerTyped
<1>10. LateTyped' /\ WorkerTyped' /\ CountersTyped'
  BY <1>7 DEF SubmitJob, SystemInv, LateTyped, WorkerTyped, CountersTyped, hostVars, faultVars
<1> QED
  BY <1>2, <1>3, <1>7, <1>9, <1>10 DEF SystemInv

LEMMA UserCancelJobStep ==
    ASSUME SystemInv, NEW id \in DOMAIN jobs, UserCancelJob(id)
    PROVE  [Next]_jobs /\ SystemInv'
<1>1. Next
  BY DEF UserCancelJob, Next
<1>2. UNCHANGED <<log, hostVars, late, faultVars>>
  BY DEF UserCancelJob
<1>3. IInv' /\ LogTyped' /\ DOMAIN jobs \subseteq DOMAIN jobs'
  BY <1>1, <1>2, LogGrows DEF SystemInv
<1>4. ConsumerTyped'
  BY <1>1, <1>2, HostsKept DEF SystemInv, ConsumerTyped, hostVars
<1>5. cancels' \in 0..MaxCancels
  BY BoundsAssumption DEF UserCancelJob, SystemInv, CountersTyped, BoundsAssumption
<1>6. LateTyped' /\ WorkerTyped' /\ CountersTyped'
  BY <1>2, <1>3, <1>5 DEF SystemInv, LateTyped, WorkerTyped, CountersTyped, hostVars, faultVars
<1> QED
  BY <1>1, <1>3, <1>4, <1>6 DEF SystemInv

LEMMA CommitLateStep ==
    ASSUME SystemInv, CommitLate
    PROVE  [Next]_jobs /\ SystemInv'
<1>1. PICK cmd \in late :
         /\ Commit(cmd)
         /\ late' = late \ {cmd}
         /\ UNCHANGED <<hostVars, cancels, faultVars>>
  BY DEF CommitLate
<1>2. /\ [Next]_jobs
      /\ \/ UNCHANGED log
         \/ \E e \in Event : e.id \in DOMAIN jobs' /\ log' = Append(log, e)
  BY <1>1, CommitStep DEF SystemInv, LateTyped
<1>3. IInv' /\ LogTyped' /\ DOMAIN jobs \subseteq DOMAIN jobs'
  BY <1>2, LogGrows DEF SystemInv
<1>4. ConsumerTyped'
  BY <1>1, <1>2, HostsKept DEF SystemInv, ConsumerTyped, hostVars
<1>5. LateTyped' /\ WorkerTyped' /\ CountersTyped'
  BY <1>1, <1>3 DEF SystemInv, LateTyped, WorkerTyped, CountersTyped, hostVars, faultVars
<1> QED
  BY <1>2, <1>3, <1>4, <1>5 DEF SystemInv

\* A handled event names a job that exists, so what the consumer does next is
\* about one.
LEMMA TakeStep ==
    ASSUME SystemInv, NEW h \in Host, Take(h)
    PROVE  [Next]_jobs /\ SystemInv'
<1> DEFINE e == Next1(h)
<1>1. UNCHANGED <<jobs, log, late, installed, overlapped, running, cancels, faultVars>>
  BY DEF Take
<1>2. e \in Event /\ e.id \in DOMAIN jobs /\ e.id \in JobId
  <2>1. cursor[h] \in Nat /\ cursor[h] < Len(log) /\ log \in Seq(Event)
    BY DEF SystemInv, ConsumerTyped, LogTyped, Take
  <2>2. cursor[h] + 1 \in DOMAIN log
    BY <2>1
  <2> QED
    BY <2>1, <2>2, JobIds DEF Next1, SystemInv, LogTyped
<1>3. cursor' \in [Host -> 0..Len(log')]
  <2>1. Len(log) \in Nat
    BY DEF SystemInv, LogTyped
  <2> QED
    BY <1>1, <2>1 DEF Take, SystemInv, ConsumerTyped
<1>4. \/ consumer' = consumer
      \/ \E at \in {"confirm", "announce"} :
            consumer' = [consumer EXCEPT ![h] = [at |-> at, id |-> e.id]]
  BY DEF Take, HandleJobCreated, HandleConfirmable, HandleRestartConfirmed
<1>5. ConsumerTyped'
  <2>1. CASE consumer' = consumer
    BY <1>1, <1>3, <2>1 DEF SystemInv, ConsumerTyped
  <2>2. ASSUME NEW at \in {"confirm", "announce"},
               consumer' = [consumer EXCEPT ![h] = [at |-> at, id |-> e.id]]
        PROVE  ConsumerTyped'
    <3> DEFINE place == [at |-> at, id |-> e.id]
    <3>1. place \in [at : ConsumerAt, id : JobId \cup {NoJobId}] /\ place.id \in DOMAIN jobs
      BY <1>2 DEF ConsumerAt
    <3> HIDE DEF place
    <3>2. consumer' = [consumer EXCEPT ![h] = place]
      BY <2>2 DEF place
    <3> QED
      BY <1>1, <1>3, <3>1, <3>2 DEF SystemInv, ConsumerTyped
  <2> QED
    BY <1>4, <2>1, <2>2
<1>6. worker' \in [Host -> [JobId -> WorkerAt]]
  <2>1. worker' = worker \/ worker' = [worker EXCEPT ![h][e.id] = "announce"]
    BY DEF Take, HandleJobCreated, HandleConfirmable, HandleRestartConfirmed
  <2>2. ASSUME NEW id \in JobId
        PROVE  [worker EXCEPT ![h][id] = "announce"] \in [Host -> [JobId -> WorkerAt]]
    <3>1. worker[h] \in [JobId -> WorkerAt] /\ worker \in [Host -> [JobId -> WorkerAt]]
      BY DEF SystemInv, WorkerTyped
    <3>2. [worker[h] EXCEPT ![id] = "announce"] \in [JobId -> WorkerAt]
      BY <3>1, <2>2 DEF WorkerAt
    <3> QED
      BY <3>1, <3>2
  <2>3. worker \in [Host -> [JobId -> WorkerAt]]
    BY DEF SystemInv, WorkerTyped
  <2> QED
    BY <1>2, <2>1, <2>2, <2>3
<1>7. IInv' /\ LogTyped' /\ LateTyped' /\ WorkerTyped' /\ CountersTyped'
  BY <1>1, <1>6, LogGrows DEF SystemInv, LateTyped, WorkerTyped, CountersTyped, faultVars
<1> QED
  BY <1>1, <1>5, <1>7 DEF SystemInv

LEMMA ConfirmRestartStep ==
    ASSUME SystemInv, NEW h \in Host, ConfirmRestart(h)
    PROVE  [Next]_jobs /\ SystemInv'
<1> DEFINE cmd == [kind |-> "restart", id |-> consumer[h].id, n |-> 0]
<1>1. consumer[h] # Idle
  BY DEF ConfirmRestart, Idle
<1>2. cmd \in Command
  BY <1>1, JobIds, BoundsAssumption
     DEF Command, SystemInv, ConsumerTyped, BoundsAssumption
<1> QED
  BY <1>1, <1>2, ConsumerPublishes DEF ConfirmRestart

LEMMA RestartReportStep ==
    ASSUME SystemInv, NEW h \in Host, AnnounceRestart(h) \/ ReportRestart(h)
    PROVE  [Next]_jobs /\ SystemInv'
<1>1. PICK report \in RestartReport :
         /\ Publish(RestartReportOf(h, report))
         /\ GoIdle(h) \/ GoTo(h, "deploying")
         /\ UNCHANGED <<cursor, worker, installed, overlapped, running, cancels, crashes>>
  BY DEF AnnounceRestart, ReportRestart, RestartReport
<1>2. consumer[h] # Idle
  BY DEF AnnounceRestart, ReportRestart, Idle
<1>3. RestartReportOf(h, report) \in Command
  BY <1>2, JobIds, BoundsAssumption
     DEF Command, RestartReportOf, SystemInv, ConsumerTyped, BoundsAssumption
<1>4. RestartReportOf(h, report).id = consumer[h].id
  BY DEF RestartReportOf
<1> QED
  BY <1>1, <1>2, <1>3, <1>4, ConsumerPublishes

LEMMA DeployStep ==
    ASSUME SystemInv, NEW h \in Host, Deploy(h)
    PROVE  [Next]_jobs /\ SystemInv'
<1> DEFINE id == consumer[h].id
           svc == jobs[id].service
<1>1. UNCHANGED <<jobs, log, late, cursor, worker, installed, overlapped, cancels, faultVars>>
  BY DEF Deploy
<1>2. consumer[h] # Idle /\ id \in DOMAIN jobs /\ id \in JobId
  BY JobIds DEF Deploy, Idle, SystemInv, ConsumerTyped
<1>3. ConsumerTyped'
  <2>1. PICK at \in {"SUCCESS", "FAILED"} : consumer' = [consumer EXCEPT ![h].at = at]
    BY DEF Deploy, GoTo
  <2> DEFINE place == [consumer[h] EXCEPT !.at = at]
  <2>2. place \in [at : ConsumerAt, id : JobId \cup {NoJobId}] /\ place.id = id
    BY <2>1 DEF SystemInv, ConsumerTyped, ConsumerAt
  <2>3. consumer' = [consumer EXCEPT ![h] = place]
    BY <2>1
  <2> HIDE DEF place
  <2> QED
    BY <1>1, <1>2, <2>2, <2>3, ConsumerMoved DEF SystemInv
<1>4. running' \in [Host -> [Service -> SUBSET (JobId \cup {Down})]]
  <2>1. running \in [Host -> [Service -> SUBSET (JobId \cup {Down})]]
    BY DEF SystemInv, WorkerTyped
  <2>2. svc \in Service
    BY <1>2, JobService DEF SystemInv
  <2>3. running' = running \/ \E now \in {{id}, running[h][svc] \cup {Down, id}} :
                                 running' = [running EXCEPT ![h][svc] = now]
    BY DEF Deploy, Disturbed
  <2>4. ASSUME NEW now \in {{id}, running[h][svc] \cup {Down, id}}
        PROVE  [running EXCEPT ![h][svc] = now] \in [Host -> [Service -> SUBSET (JobId \cup {Down})]]
    <3>1. [running[h] EXCEPT ![svc] = now] \in [Service -> SUBSET (JobId \cup {Down})]
      BY <1>2, <2>1, <2>2
    <3> QED
      BY <2>1, <3>1
  <2> QED
    BY <2>1, <2>3, <2>4
<1>5. IInv' /\ LogTyped' /\ LateTyped' /\ WorkerTyped' /\ CountersTyped'
  BY <1>1, <1>4, LogGrows DEF SystemInv, LateTyped, WorkerTyped, CountersTyped, faultVars
<1> QED
  BY <1>1, <1>3, <1>5 DEF SystemInv

\* Setting the state of one configuration goroutine.
LEMMA WorkerSet ==
    ASSUME WorkerTyped, NEW h \in Host, NEW id \in JobId, NEW at \in WorkerAt
    PROVE  [worker EXCEPT ![h][id] = at] \in [Host -> [JobId -> WorkerAt]]
<1>1. worker \in [Host -> [JobId -> WorkerAt]]
  BY DEF WorkerTyped
<1>2. [worker[h] EXCEPT ![id] = at] \in [JobId -> WorkerAt]
  BY <1>1
<1> QED
  BY <1>1, <1>2

LEMMA BeginInstallingTyped ==
    ASSUME SystemInv, NEW h \in Host, NEW id \in DOMAIN jobs,
           BeginInstalling(h, id) \/ UNCHANGED <<installed, overlapped>>
    PROVE  installed' \in [Host -> SUBSET JobId] /\ overlapped' \in [Host -> SUBSET Service]
<1> DEFINE svc == jobs[id].service
           rest == installed[h] \ JobsOf(svc)
           now == overlapped[h] \cup {svc}
<1>1. svc \in Service
  BY JobService DEF SystemInv
<1>2. installed \in [Host -> SUBSET JobId] /\ overlapped \in [Host -> SUBSET Service]
  BY DEF SystemInv, WorkerTyped
<1>3. rest \in SUBSET JobId /\ now \in SUBSET Service
  BY <1>1, <1>2
<1>4. \/ UNCHANGED <<installed, overlapped>>
      \/ /\ installed' = [installed EXCEPT ![h] = rest]
         /\ overlapped' = [overlapped EXCEPT ![h] = now]
  BY DEF BeginInstalling
<1> HIDE DEF rest, now
<1> QED
  BY <1>2, <1>3, <1>4

LEMMA ConfigurationReportStep ==
    ASSUME SystemInv, NEW h \in Host, NEW id \in DOMAIN jobs,
           AnnounceConfiguration(h, id) \/ ReportConfiguration(h, id)
    PROVE  [Next]_jobs /\ SystemInv'
<1>1. PICK report \in ConfigurationReport, at \in WorkerAt :
         /\ Publish(ConfigurationReportOf(h, id, report))
         /\ worker' = [worker EXCEPT ![h][id] = at]
         /\ BeginInstalling(h, id) \/ UNCHANGED <<installed, overlapped>>
         /\ UNCHANGED <<cursor, consumer, running, cancels, crashes>>
  BY DEF AnnounceConfiguration, ReportConfiguration, ConfigurationReport, WorkerAt
<1> DEFINE cmd == ConfigurationReportOf(h, id, report)
<1>2. cmd \in Command /\ cmd.id = id /\ id \in JobId
  BY JobIds, BoundsAssumption
     DEF Command, ConfigurationReportOf, SystemInv, BoundsAssumption
<1> HIDE DEF cmd
<1>3. /\ [Next]_jobs
      /\ \/ UNCHANGED log
         \/ \E e \in Event : e.id \in DOMAIN jobs' /\ log' = Append(log, e)
      /\ LateTyped' /\ timeouts' \in 0..MaxTimeouts
  BY <1>1, <1>2, PublishStep DEF SystemInv, CountersTyped, cmd
<1>4. IInv' /\ LogTyped'
  BY <1>3, LogGrows DEF SystemInv
<1>5. ConsumerTyped'
  BY <1>1, <1>3, HostsKept DEF SystemInv, ConsumerTyped
<1>6. WorkerTyped' /\ CountersTyped'
  BY <1>1, <1>2, <1>3, WorkerSet, BeginInstallingTyped DEF SystemInv, WorkerTyped, CountersTyped
<1> QED
  BY <1>3, <1>4, <1>5, <1>6 DEF SystemInv

LEMMA ConfigureStep ==
    ASSUME SystemInv, NEW h \in Host, NEW id \in DOMAIN jobs, Configure(h, id)
    PROVE  [Next]_jobs /\ SystemInv'
<1>1. UNCHANGED <<jobs, log, late, cursor, consumer, overlapped, running, cancels, faultVars>>
  BY DEF Configure
<1>2. id \in JobId
  BY JobIds DEF SystemInv
<1>3. worker' \in [Host -> [JobId -> WorkerAt]]
  <2>1. PICK outcome \in ConfigureOutcomes : worker' = [worker EXCEPT ![h][id] = outcome]
    BY DEF Configure
  <2>2. outcome \in WorkerAt
    BY OutcomesAssumption DEF OutcomesAssumption, ConfigurationReport, WorkerAt
  <2> QED
    BY <1>2, <2>1, <2>2, WorkerSet DEF SystemInv
<1>4. installed' \in [Host -> SUBSET JobId]
  <2>1. installed' = installed \/ installed' = [installed EXCEPT ![h] = @ \cup {id}]
    BY DEF Configure
  <2>2. installed \in [Host -> SUBSET JobId]
    BY DEF SystemInv, WorkerTyped
  <2>3. installed[h] \cup {id} \in SUBSET JobId
    BY <1>2, <2>2
  <2> QED
    BY <2>1, <2>2, <2>3
<1>5. IInv' /\ LogTyped' /\ LateTyped' /\ ConsumerTyped' /\ WorkerTyped' /\ CountersTyped'
  BY <1>1, <1>3, <1>4, LogGrows
     DEF SystemInv, LateTyped, ConsumerTyped, WorkerTyped, CountersTyped, faultVars
<1> QED
  BY <1>1, <1>5 DEF SystemInv

LEMMA CrashStep ==
    ASSUME SystemInv, NEW h \in Host, Crash(h)
    PROVE  [Next]_jobs /\ SystemInv'
<1> DEFINE id == consumer[h].id
           svc == jobs[id].service
<1>1. UNCHANGED <<jobs, log, late, installed, overlapped, cancels, timeouts>>
  BY DEF Crash
<1>2. crashes' \in 0..MaxCrashes
  BY BoundsAssumption DEF Crash, SystemInv, CountersTyped, BoundsAssumption
<1>3. cursor' \in [Host -> 0..Len(log)]
  <2>1. Len(log) \in Nat
    BY DEF SystemInv, LogTyped
  <2>2. PICK applied \in cursor[h]..Len(log) : cursor' = [cursor EXCEPT ![h] = applied]
    BY DEF Crash
  <2> QED
    BY <2>1, <2>2 DEF SystemInv, ConsumerTyped
<1>4. ConsumerTyped'
  <2>1. consumer' = [consumer EXCEPT ![h] = Idle]
    BY DEF Crash, GoIdle
  <2> QED
    BY <1>1, <1>3, <2>1, IdlePlace DEF SystemInv, ConsumerTyped
<1>5. worker' \in [Host -> [JobId -> WorkerAt]]
  BY DEF Crash, SystemInv, WorkerTyped, WorkerAt
<1>6. running' \in [Host -> [Service -> SUBSET (JobId \cup {Down})]]
  <2>1. running \in [Host -> [Service -> SUBSET (JobId \cup {Down})]]
    BY DEF SystemInv, WorkerTyped
  <2>2. CASE consumer[h].at = "deploying"
    <3>1. id \in DOMAIN jobs /\ id \in JobId /\ svc \in Service
      <4>1. consumer[h] # Idle
        BY <2>2 DEF Idle
      <4>2. id \in DOMAIN jobs
        BY <4>1 DEF SystemInv, ConsumerTyped
      <4> QED
        BY <4>2, JobIds, JobService DEF SystemInv
    <3>2. PICK now \in {running[h][svc], running[h][svc] \cup {Down, id}} :
             running' = [running EXCEPT ![h][svc] = now]
      BY <2>1, <2>2 DEF Crash, Disturbed
    <3>3. [running[h] EXCEPT ![svc] = now] \in [Service -> SUBSET (JobId \cup {Down})]
      BY <2>1, <3>1
    <3> QED
      BY <2>1, <3>2, <3>3
  <2>3. CASE consumer[h].at # "deploying"
    BY <2>1, <2>3 DEF Crash
  <2> QED
    BY <2>2, <2>3
<1>7. IInv' /\ LogTyped' /\ LateTyped' /\ WorkerTyped' /\ CountersTyped'
  BY <1>1, <1>2, <1>5, <1>6, LogGrows DEF SystemInv, LateTyped, WorkerTyped, CountersTyped
<1> QED
  BY <1>1, <1>4, <1>7 DEF SystemInv

-----------------------------------------------------------------------------

LEMMA SystemInitInv == SystemInit => SystemInv
<1> SUFFICES ASSUME SystemInit
             PROVE  SystemInv
  OBVIOUS
<1>1. IInv
  BY InitInv DEF SystemInit
<1>2. LogTyped /\ LateTyped
  BY DEF SystemInit, LogTyped, LateTyped
<1>3. ConsumerTyped
  BY IdlePlace DEF SystemInit, ConsumerTyped
<1>4. WorkerTyped
  BY DEF SystemInit, WorkerTyped, WorkerAt
<1>5. CountersTyped
  BY BoundsAssumption DEF SystemInit, CountersTyped, BoundsAssumption
<1> QED
  BY <1>1, <1>2, <1>3, <1>4, <1>5 DEF SystemInv

LEMMA SystemStep ==
    ASSUME SystemInv, [SystemNext]_vars
    PROVE  [Next]_jobs /\ SystemInv'
<1>1. CASE UNCHANGED vars
  BY <1>1, LogGrows DEF vars, SystemInv, LogTyped, LateTyped, ConsumerTyped, WorkerTyped,
                        CountersTyped
<1>2. CASE \E svc \in Service, believe \in Believe, targets \in TargetLists :
              SubmitJob(svc, believe, targets)
  BY <1>2, SubmitJobStep
<1>3. CASE \E id \in DOMAIN jobs : UserCancelJob(id)
  BY <1>3, UserCancelJobStep
<1>4. CASE CommitLate
  BY <1>4, CommitLateStep
<1>5. CASE \E h \in Host : ConsumerStep(h)
  BY <1>5, TakeStep, ConfirmRestartStep, RestartReportStep, DeployStep DEF ConsumerStep
<1>6. CASE \E h \in Host, id \in DOMAIN jobs : WorkerStep(h, id)
  BY <1>6, ConfigurationReportStep, ConfigureStep DEF WorkerStep
<1>7. CASE \E h \in Host : Crash(h)
  BY <1>7, CrashStep
<1> QED
  BY <1>1, <1>2, <1>3, <1>4, <1>5, <1>6, <1>7 DEF SystemNext

\* In the cluster, too, every stored job satisfies the application's invariant,
\* and every event, consumer and late proposal is about a job that exists.
THEOREM SystemInvariance == SystemSpec => []SystemInv
<1>1. SystemInv /\ [SystemNext]_vars => SystemInv'
  BY SystemStep
<1> QED
  BY SystemInitInv, <1>1, PTL DEF SystemSpec

\* The cluster's state is always well formed: cursors stay within the events,
\* commands that may still commit name existing jobs (SystemTypeOK).
THEOREM SystemTypeCorrect == SystemSpec => []SystemTypeOK
<1>1. SystemInv => SystemTypeOK
  BY DEF SystemInv, IInv, JobInv, TypeOK, LogTyped, LateTyped, ConsumerTyped, WorkerTyped,
         CountersTyped, SystemTypeOK
<1> QED
  BY <1>1, SystemInvariance, PTL

\* The cluster changes the jobs by committing commands, so what is proved of the
\* replicated application holds in the cluster.
LEMMA ClusterJobs == SystemSpec => Spec
<1>1. SystemInit => Init
  BY DEF SystemInit
<1>2. SystemInv /\ [SystemNext]_vars => [Next]_jobs
  BY SystemStep
<1> QED
  BY <1>1, <1>2, SystemInvariance, PTL DEF SystemSpec, Spec

\* So in the cluster a DEPLOYED job, too, has restarted every one of its hosts.
THEOREM ClusterDeployedAllRestarted == SystemSpec => []DeployedAllRestarted
BY ClusterJobs, DeployedJobsAllRestarted, PTL

\* And every job of the cluster is a rolling restart: the refinements compose.
THEOREM ClusterRollsOut == SystemSpec => ImplementsRollingDeploy
BY ClusterJobs, Refinement, PTL

-----------------------------------------------------------------------------
(* The log, the jobs and the commands.                                     *)

LEMMA Appended ==
    ASSUME LogTyped, NEW e \in Event, log' = Append(log, e)
    PROVE  /\ Len(log) \in Nat /\ DOMAIN log = 1..Len(log)
           /\ DOMAIN log' = DOMAIN log \cup {Len(log) + 1}
           /\ Len(log) + 1 \notin DOMAIN log
           /\ \A i \in DOMAIN log : log'[i] = log[i]
           /\ log'[Len(log) + 1] = e
BY DEF LogTyped

\* A command's event is appended to the log.
Logged(kind, id, h) ==
    \E e \in Event :
        e.kind = kind /\ e.id = id /\ e.host = h /\ log' = Append(log, e)

\* What a stored job keeps for good.
LEMMA JobsKept ==
    ASSUME IInv, [Next]_jobs
    PROVE  \A id \in DOMAIN jobs :
              /\ id \in DOMAIN jobs'
              /\ jobs'[id].service = jobs[id].service
              /\ jobs'[id].hostOrder = jobs[id].hostOrder
              /\ HostsOf(jobs'[id]) = HostsOf(jobs[id])
<1>1. DOMAIN jobs \subseteq DOMAIN jobs' /\ IInv'
  BY JobsGrow, NextInv
<1>2. \A id \in DOMAIN jobs :
         /\ jobs'[id].service = jobs[id].service
         /\ jobs'[id].hostOrder = jobs[id].hostOrder
  <2> SUFFICES ASSUME NEW id \in DOMAIN jobs
               PROVE  /\ jobs'[id].service = jobs[id].service
                      /\ jobs'[id].hostOrder = jobs[id].hostOrder
    OBVIOUS
  <2>1. jobs \in Seq(Job) /\ jobs[id] \in Job
    BY DEF IInv
  <2>2. ASSUME NEW svc \in Service, NEW believe \in BOOLEAN, NEW targets \in TargetLists,
               UserSubmitJob(svc, believe, targets)
        PROVE  jobs'[id] = jobs[id]
    <3>1. NewJob(svc, believe, targets) \in Job
      BY <2>2, NewJobGood DEF UserSubmitJob, GoodJob
    <3> QED
      BY <2>1, <2>2, <3>1 DEF UserSubmitJob
  <2>3. ASSUME NEW k \in DOMAIN jobs, CancelJob(k)
        PROVE  /\ jobs'[id].service = jobs[id].service
               /\ jobs'[id].hostOrder = jobs[id].hostOrder
    BY <2>1, <2>3 DEF CancelJob, Cancelled, Job
  <2>4. ASSUME NEW k \in DOMAIN jobs, NEW h \in Host, NEW report \in ConfigurationReport,
               HostConfigurationUpdate(k, h, report)
        PROVE  /\ jobs'[id].service = jobs[id].service
               /\ jobs'[id].hostOrder = jobs[id].hostOrder
    BY <2>1, <2>4 DEF HostConfigurationUpdate, ConfigurationUpdated, Job
  <2>5. ASSUME NEW k \in DOMAIN jobs, Restart(k)
        PROVE  /\ jobs'[id].service = jobs[id].service
               /\ jobs'[id].hostOrder = jobs[id].hostOrder
    BY <2>1, <2>5 DEF Restart, Restarted, Job
  <2>6. ASSUME NEW k \in DOMAIN jobs, NEW h \in Host, NEW report \in RestartReport,
               HostRestartServiceUpdate(k, h, report)
        PROVE  /\ jobs'[id].service = jobs[id].service
               /\ jobs'[id].hostOrder = jobs[id].hostOrder
    BY <2>1, <2>6 DEF HostRestartServiceUpdate, RestartUpdated, RestartReport, Job
  <2> QED
    BY <2>2, <2>3, <2>4, <2>5, <2>6 DEF Next
<1>3. \A id \in DOMAIN jobs : HostsOf(jobs'[id]) = HostsOf(jobs[id])
  BY <1>1, <1>2 DEF IInv, JobInv, HostsOf
<1> QED
  BY <1>1, <1>2, <1>3

\* What committing a report of a configuration does.
LEMMA ConfigurationCommitted ==
    ASSUME IInv, LogTyped, NEW id \in DOMAIN jobs, NEW h \in Host,
           NEW report \in ConfigurationReport, CommitConfiguration(id, h, report)
    PROVE  /\ h \in HostsOf(jobs[id])
           /\ DOMAIN jobs' = DOMAIN jobs
           /\ \A k \in DOMAIN jobs \ {id} : jobs'[k] = jobs[k]
           /\ jobs'[id].configuration = [jobs[id].configuration EXCEPT ![h] = report]
           /\ jobs'[id].currentOrder = jobs[id].currentOrder
           /\ jobs'[id].deployment = jobs[id].deployment
           /\ \/ /\ jobs'[id].status = jobs[id].status
                 /\ log' = log
              \/ /\ report = "SUCCESS"
                 /\ jobs'[id].status = "CONFIGURED"
                 /\ \A g \in HostsOf(jobs[id]) : jobs'[id].configuration[g] = "SUCCESS"
                 /\ Logged("AllHostConfigured", id, h)
<1> DEFINE job == jobs[id]
           updated == [job EXCEPT !.configuration[h] = report]
<1>1. job \in Job /\ h \in HostsOf(job) /\ jobs \in Seq(Job)
  BY DEF IInv, CommitConfiguration, HostConfigurationUpdate, AcceptsConfiguration
<1>2. jobs' = [jobs EXCEPT ![id] = ConfigurationUpdated(job, h, report)]
  BY DEF CommitConfiguration, HostConfigurationUpdate
<1>3. jobs'[id] = ConfigurationUpdated(job, h, report)
  BY <1>2
<1>4. /\ jobs'[id].configuration = [job.configuration EXCEPT ![h] = report]
      /\ jobs'[id].currentOrder = job.currentOrder
      /\ jobs'[id].deployment = job.deployment
      /\ updated.configuration = [job.configuration EXCEPT ![h] = report]
  BY <1>1, <1>3 DEF ConfigurationUpdated, Job
<1>5. HostsOf(jobs'[id]) = HostsOf(job) /\ HostsOf(updated) = HostsOf(job)
  BY <1>4 DEF HostsOf
<1>6. AllConfigured(updated) <=> AllConfigured(jobs'[id])
  BY <1>4, <1>5 DEF AllConfigured
<1>7. CASE ~AllConfigured(updated)
  <2>1. jobs'[id].status = job.status
    BY <1>1, <1>3, <1>7 DEF ConfigurationUpdated, Job
  <2>2. log' = log
    BY <1>6, <1>7 DEF CommitConfiguration
  <2> QED
    BY <1>1, <1>2, <1>4, <2>1, <2>2
<1>8. CASE AllConfigured(updated)
  <2>1. jobs'[id].status = "CONFIGURED"
    BY <1>1, <1>3, <1>8 DEF ConfigurationUpdated, Job
  <2>2. \A g \in HostsOf(job) : jobs'[id].configuration[g] = "SUCCESS"
    BY <1>5, <1>6, <1>8 DEF AllConfigured
  <2>3. report = "SUCCESS"
    BY <1>1, <1>4, <2>2 DEF HostsOf
  <2> DEFINE e == [kind |-> "AllHostConfigured", id |-> id, host |-> h, status |-> "CONFIGURED"]
  <2>4. log' = Append(log, e)
    BY <1>6, <1>8, <2>1 DEF CommitConfiguration, Broadcast
  <2>5. e \in Event
    BY JobIds DEF Event, EventKind, JobStatus
  <2> HIDE DEF e
  <2>6. e.kind = "AllHostConfigured" /\ e.id = id /\ e.host = h
    BY DEF e
  <2>7. Logged("AllHostConfigured", id, h)
    BY <2>4, <2>5, <2>6 DEF Logged
  <2> QED
    BY <1>1, <1>2, <1>4, <2>1, <2>2, <2>3, <2>7
<1> QED
  BY <1>7, <1>8

\* What committing a confirmation does.
LEMMA RestartCommitted ==
    ASSUME IInv, LogTyped, NEW id \in DOMAIN jobs, CommitRestart(id)
    PROVE  /\ jobs[id].status \in {"CONFIGURED", "DEPLOYING"}
           /\ DOMAIN jobs' = DOMAIN jobs
           /\ \A k \in DOMAIN jobs \ {id} : jobs'[k] = jobs[k]
           /\ jobs'[id].configuration = jobs[id].configuration
           /\ jobs'[id].deployment = jobs[id].deployment
           /\ jobs'[id].status = "DEPLOYING"
           /\ jobs'[id].currentOrder =
                 IF jobs[id].status = "CONFIGURED" THEN 0 ELSE jobs[id].currentOrder
           /\ jobs'[id].currentOrder \in 0..(Len(jobs'[id].hostOrder) - 1)
           /\ OnProgress(jobs'[id]) \in HostsOf(jobs'[id])
           /\ Logged("RestartConfirmed", id, OnProgress(jobs'[id]))
<1> DEFINE job == jobs[id]
           new == jobs'[id]
<1>1. job \in Job /\ AcceptsRestart(job)
  BY DEF IInv, CommitRestart, Restart
<1>2. jobs' = [jobs EXCEPT ![id] = Restarted(job)]
  BY DEF CommitRestart, Restart
<1>3. new = Restarted(job)
  BY <1>2
<1>4. /\ new.configuration = job.configuration /\ new.status = "DEPLOYING"
      /\ new.deployment = job.deployment
      /\ new.currentOrder = IF job.status = "CONFIGURED" THEN 0 ELSE job.currentOrder
  BY <1>1, <1>3 DEF Restarted, AcceptsRestart, Job
<1>5. GoodJob(new)
  <2>1. Next
    BY DEF CommitRestart, Next
  <2> QED
    BY <2>1, <1>2, NextInv DEF IInv, GoodJob
<1>6. new.currentOrder \in 0..(Len(new.hostOrder) - 1)
  BY <1>4, <1>5, OrderBound
<1>7. OnProgress(new) \in Host /\ OnProgress(new) \in HostsOf(new)
  <2>1. new.hostOrder \in Seq(Host) /\ DOMAIN new.configuration = SeqHosts(new.hostOrder)
    BY <1>5 DEF GoodJob, Job, JobInv
  <2>2. new.currentOrder + 1 \in DOMAIN new.hostOrder
    BY <1>6, <2>1
  <2> QED
    BY <2>1, <2>2 DEF OnProgress, SeqHosts, HostsOf
<1> DEFINE e == [kind |-> "RestartConfirmed", id |-> id, host |-> OnProgress(new),
                 status |-> "DEPLOYING"]
<1>8. log' = Append(log, e)
  BY <1>4 DEF CommitRestart, Broadcast
<1>9. e \in Event
  BY <1>7, JobIds DEF Event, EventKind, JobStatus
<1>10. e.kind = "RestartConfirmed" /\ e.id = id /\ e.host = OnProgress(new)
  OBVIOUS
<1>11. job.status \in {"CONFIGURED", "DEPLOYING"} /\ DOMAIN jobs' = DOMAIN jobs
       /\ \A k \in DOMAIN jobs \ {id} : jobs'[k] = jobs[k]
  BY <1>1, <1>2 DEF AcceptsRestart
<1> HIDE DEF e
<1>12. Logged("RestartConfirmed", id, OnProgress(new))
  BY <1>8, <1>9, <1>10 DEF Logged
<1> QED
  BY <1>4, <1>6, <1>7, <1>11, <1>12

\* What committing a report of a restart does.
LEMMA RestartedCommitted ==
    ASSUME IInv, LogTyped, NEW id \in DOMAIN jobs, NEW h \in Host,
           NEW report \in RestartReport, CommitRestarted(id, h, report)
    PROVE  /\ jobs[id].status = "DEPLOYING" /\ OnProgress(jobs[id]) = h
           /\ jobs[id].currentOrder \in 0..(Len(jobs[id].hostOrder) - 1)
           /\ DOMAIN jobs' = DOMAIN jobs
           /\ \A k \in DOMAIN jobs \ {id} : jobs'[k] = jobs[k]
           /\ jobs'[id].configuration = jobs[id].configuration
           /\ CASE report = "FAILED" ->
                     /\ jobs'[id].status = "FAILED"
                     /\ jobs'[id].currentOrder = jobs[id].currentOrder
                     /\ log' = log
                [] report = "RESTARTING" ->
                     /\ jobs'[id].status = "DEPLOYING"
                     /\ jobs'[id].currentOrder = jobs[id].currentOrder
                     /\ log' = log
                [] report = "SUCCESS" ->
                     /\ jobs'[id].status \in {"DEPLOYING", "DEPLOYED"}
                     /\ jobs'[id].currentOrder = jobs[id].currentOrder + 1
                     /\ Logged("ServiceRestarted", id, h)
<1> DEFINE job == jobs[id]
           new == jobs'[id]
<1>1. job \in Job /\ job.status = "DEPLOYING" /\ OnProgress(job) = h /\ GoodJob(job)
  BY DEF IInv, GoodJob, CommitRestarted, HostRestartServiceUpdate, AcceptsRestartUpdate
<1>2. jobs' = [jobs EXCEPT ![id] = RestartUpdated(job, h, report)]
  BY DEF CommitRestarted, HostRestartServiceUpdate
<1>3. new = RestartUpdated(job, h, report)
  BY <1>2
<1>4. job.currentOrder \in 0..(Len(job.hostOrder) - 1)
  BY <1>1, OrderBound
<1>5. DOMAIN jobs' = DOMAIN jobs /\ \A k \in DOMAIN jobs \ {id} : jobs'[k] = jobs[k]
  BY <1>2
<1>6. CASE report = "FAILED"
  BY <1>1, <1>3, <1>4, <1>5, <1>6 DEF RestartUpdated, Job, CommitRestarted
<1>7. CASE report = "RESTARTING"
  BY <1>1, <1>3, <1>4, <1>5, <1>7 DEF RestartUpdated, Job, CommitRestarted
<1>8. CASE report = "SUCCESS"
  <2>1. /\ new.configuration = job.configuration
        /\ new.status \in {"DEPLOYING", "DEPLOYED"}
        /\ new.currentOrder = job.currentOrder + 1
    BY <1>1, <1>3, <1>4, <1>8 DEF RestartUpdated, Job
  <2> DEFINE e == [kind |-> "ServiceRestarted", id |-> id, host |-> h, status |-> new.status]
  <2>2. log' = Append(log, e)
    BY <1>8 DEF CommitRestarted, Broadcast
  <2>3. e \in Event
    BY <2>1, JobIds DEF Event, EventKind, JobStatus
  <2>4. e.kind = "ServiceRestarted" /\ e.id = id /\ e.host = h
    OBVIOUS
  <2> HIDE DEF e
  <2>5. Logged("ServiceRestarted", id, h)
    BY <2>2, <2>3, <2>4 DEF Logged
  <2> QED
    BY <1>1, <1>4, <1>5, <1>8, <2>1, <2>5
<1> QED
  BY <1>6, <1>7, <1>8 DEF RestartReport

-----------------------------------------------------------------------------
(* The outcome of configuring a host is in one place.                      *)

\* Committing appends at most one event, and not a JobCreated.
LEMMA CommitLog ==
    ASSUME IInv, LogTyped, NEW cmd \in Command, cmd.id \in DOMAIN jobs, Commit(cmd)
    PROVE  \/ log' = log
           \/ \E e \in Event : /\ e.kind # "JobCreated" /\ e.id = cmd.id
                               /\ log' = Append(log, e)
<1>1. CASE cmd.kind = "configuration" /\ CommitConfiguration(cmd.id, cmd.host, cmd.report)
  <2>1. log' = log \/ Logged("AllHostConfigured", cmd.id, cmd.host)
    BY <1>1, CommandKinds, ConfigurationCommitted
  <2> QED
    BY <2>1 DEF Logged
<1>2. CASE cmd.kind = "restart" /\ CommitRestart(cmd.id)
  <2>1. Logged("RestartConfirmed", cmd.id, OnProgress(jobs'[cmd.id]))
    BY <1>2, RestartCommitted
  <2> QED
    BY <2>1 DEF Logged
<1>3. CASE cmd.kind = "restarted" /\ CommitRestarted(cmd.id, cmd.host, cmd.report)
  <2>1. log' = log \/ Logged("ServiceRestarted", cmd.id, cmd.host)
    BY <1>3, CommandKinds, RestartedCommitted DEF RestartReport
  <2> QED
    BY <2>1 DEF Logged
<1> QED
  BY <1>1, <1>2, <1>3 DEF Commit

\* Publishing does so, or leaves the command among the late ones.
LEMMA PublishLog ==
    ASSUME IInv, LogTyped, NEW cmd \in Command, cmd.id \in DOMAIN jobs, Publish(cmd)
    PROVE  /\ \/ log' = log
              \/ \E e \in Event : /\ e.kind # "JobCreated" /\ e.id = cmd.id
                                  /\ log' = Append(log, e)
           /\ \/ late' = late
              \/ late' = late \cup {[cmd EXCEPT !.n = timeouts]} /\ log' = log
BY CommitLog DEF Publish

LEMMA SameContent ==
    ASSUME NEW cmd \in Command, NEW n
    PROVE  LET c == [cmd EXCEPT !.n = n]
           IN  /\ c.kind = cmd.kind /\ c.id = cmd.id
               /\ cmd.kind \in {"configuration", "restarted"} =>
                     c.host = cmd.host /\ c.report = cmd.report
BY DEF Command

\* The configuration of jobs is asked for once each.
CreatedOnce ==
    \A i, k \in DOMAIN log :
        log[i].kind = "JobCreated" /\ log[k].kind = "JobCreated" /\ log[i].id = log[k].id
        => i = k

LEMMA CreatedKept ==
    ASSUME LogTyped, CreatedOnce, cursor' = cursor,
           \/ log' = log
           \/ \E e \in Event : e.kind # "JobCreated" /\ log' = Append(log, e)
    PROVE  CreatedOnce' /\ \A h, id : CreatedFor(h, id)' = CreatedFor(h, id)
<1>1. CASE log' = log
  BY <1>1 DEF CreatedOnce, CreatedFor
<1>2. ASSUME NEW e \in Event, e.kind # "JobCreated", log' = Append(log, e)
      PROVE  CreatedOnce' /\ \A h, id : CreatedFor(h, id)' = CreatedFor(h, id)
  <2>1. /\ DOMAIN log' = DOMAIN log \cup {Len(log) + 1}
        /\ \A i \in DOMAIN log : log'[i] = log[i]
        /\ log'[Len(log) + 1] = e
    BY <1>2, Appended
  <2> QED
    BY <1>2, <2>1 DEF CreatedOnce, CreatedFor
<1> QED
  BY <1>1, <1>2

\* What a step of the cluster does to the places of outcomes: they stay in one
\* place, and a host without any gets none.
OutcomeKept == \A h \in Host, id \in DOMAIN jobs : NoOutcome(h, id) => NoOutcome(h, id)'

LEMMA SubmitOutcome ==
    ASSUME SystemInv, OutcomeInv, NEW svc \in Service, NEW believe \in Believe,
           NEW targets \in TargetLists, SubmitJob(svc, believe, targets), SystemInv'
    PROVE  OutcomeInv' /\ OutcomeKept
<1>0. PICK n : n = Len(jobs')
  OBVIOUS
<1>1. jobs' = Append(jobs, NewJob(svc, believe, targets)) /\ jobs \in Seq(Job) /\ jobs' \in Seq(Job)
  BY DEF SubmitJob, UserSubmitJob, SystemInv, IInv
<1>2. Len(jobs') = Len(jobs) + 1 /\ n \notin DOMAIN jobs /\ n \in DOMAIN jobs'
      /\ DOMAIN jobs \subseteq DOMAIN jobs'
  <2>1. NewJob(svc, believe, targets) \in Job
    <3>1. believe \in BOOLEAN
      BY BoundsAssumption DEF BoundsAssumption
    <3> QED
      BY <3>1, NewJobGood DEF SubmitJob, UserSubmitJob, GoodJob
  <2> QED
    BY <1>0, <1>1, <2>1
<1>13. PICK e : e = [kind |-> "JobCreated", id |-> n, host |-> targets[1].host,
                   status |-> jobs'[n].status]
  OBVIOUS
<1>3. log' = Append(log, e) /\ e.kind = "JobCreated" /\ e.id = n
  BY <1>0, <1>13 DEF SubmitJob, Broadcast
<1>4. UNCHANGED <<cursor, worker, late>>
  BY DEF SubmitJob, hostVars
<1>5. /\ Len(log) \in Nat /\ DOMAIN log = 1..Len(log)
      /\ DOMAIN log' = DOMAIN log \cup {Len(log) + 1}
      /\ Len(log) + 1 \notin DOMAIN log
      /\ \A i \in DOMAIN log : log'[i] = log[i]
      /\ log'[Len(log) + 1] = e
  <2>1. log \in Seq(Event)
    BY DEF SystemInv, LogTyped
  <2>2. Len(log) \in Nat /\ DOMAIN log = 1..Len(log)
    BY <2>1
  <2>3. DOMAIN log' = 1..(Len(log) + 1) /\ log'[Len(log) + 1] = e
        /\ \A i \in DOMAIN log : log'[i] = log[i]
    BY <1>3, <2>1, <2>2
  <2> QED
    BY <2>2, <2>3
<1>6. \A i \in DOMAIN log : log[i].id \in DOMAIN jobs
  BY DEF SystemInv, LogTyped
<1>7. \A h \in Host, id \in JobId : id # n =>
         /\ CreatedFor(h, id)' = CreatedFor(h, id)
         /\ WorkersFor(h, id)' = WorkersFor(h, id)
         /\ OutcomesFor(h, id)' = OutcomesFor(h, id)
  BY <1>3, <1>4, <1>5 DEF CreatedFor, WorkersFor, OutcomesFor
<1>8. \A h \in Host : n \in JobId =>
         /\ CreatedFor(h, n)' \subseteq {Len(log) + 1}
         /\ WorkersFor(h, n)' = {}
         /\ OutcomesFor(h, n)' = {}
  <2>1. \A h \in Host : CreatedFor(h, n)' \subseteq {Len(log) + 1}
    BY <1>2, <1>5, <1>6 DEF CreatedFor
  <2>2. \A h \in Host : n \in JobId => worker[h][n] = "none"
    BY <1>2 DEF OutcomeInv
  <2>3. \A h \in Host : n \in JobId => WorkersFor(h, n)' = {}
    BY <1>4, <2>2 DEF WorkersFor, Outcome
  <2>4. \A h \in Host : OutcomesFor(h, n)' = {}
    BY <1>2, <1>4 DEF OutcomesFor, SystemInv, LateTyped
  <2> QED
    BY <2>1, <2>3, <2>4
<1>9. CreatedOnce'
  BY <1>2, <1>3, <1>5, <1>6 DEF OutcomeInv, CreatedOnce
<1>10. \A h \in Host, id \in JobId :
          AtMostOneOf(CreatedFor(h, id), WorkersFor(h, id), OutcomesFor(h, id))'
  <2> SUFFICES ASSUME NEW h \in Host, NEW id \in JobId
               PROVE  AtMostOneOf(CreatedFor(h, id)', WorkersFor(h, id)', OutcomesFor(h, id)')
    BY DEF AtMostOneOf
  <2>1. CASE id = n
    <3> DEFINE A == CreatedFor(h, id)'
               B == WorkersFor(h, id)'
               C == OutcomesFor(h, id)'
    <3>1. A \subseteq {Len(log) + 1} /\ B = {} /\ C = {}
      BY <1>8, <2>1
    <3> HIDE DEF A, B, C
    <3>2. AtMostOneOf(A, B, C)
      BY <3>1 DEF AtMostOneOf
    <3> QED
      BY <3>2 DEF A, B, C
  <2>2. CASE id # n
    BY <1>7, <2>2 DEF OutcomeInv
  <2> QED
    BY <2>1, <2>2
<1>11. \A h \in Host, id \in JobId : worker'[h][id] # "none" => id \in DOMAIN jobs'
  BY <1>2, <1>4 DEF OutcomeInv
<1>12. OutcomeKept
  BY <1>2, <1>7, JobIds DEF OutcomeKept, NoOutcome, SystemInv
<1> QED
  BY <1>9, <1>10, <1>11, <1>12 DEF OutcomeInv, CreatedOnce

\* Outcomes that stay where they are or get lost.
LEMMA OutcomeShrinks ==
    ASSUME SystemInv, OutcomeInv, CreatedOnce', DOMAIN jobs \subseteq DOMAIN jobs',
           \A h \in Host, id \in JobId :
              /\ CreatedFor(h, id)' \subseteq CreatedFor(h, id)
              /\ WorkersFor(h, id)' \subseteq WorkersFor(h, id)
              /\ OutcomesFor(h, id)' \subseteq OutcomesFor(h, id)
              /\ worker'[h][id] # "none" => worker[h][id] # "none"
    PROVE  OutcomeInv' /\ OutcomeKept
<1>1. ASSUME NEW h \in Host, NEW id \in JobId
      PROVE  AtMostOneOf(CreatedFor(h, id), WorkersFor(h, id), OutcomesFor(h, id))'
  <2> DEFINE A == CreatedFor(h, id)
             B == WorkersFor(h, id)
             C == OutcomesFor(h, id)
             A1 == CreatedFor(h, id)'
             B1 == WorkersFor(h, id)'
             C1 == OutcomesFor(h, id)'
  <2>1. AtMostOneOf(A, B, C)
    BY DEF OutcomeInv
  <2>2. A1 \subseteq A /\ B1 \subseteq B /\ C1 \subseteq C
    OBVIOUS
  <2> HIDE DEF A, B, C, A1, B1, C1
  <2>3. AtMostOneOf(A1, B1, C1)
    BY <2>1, <2>2 DEF AtMostOneOf
  <2> QED
    BY <2>3 DEF A1, B1, C1, AtMostOneOf
<1>2. OutcomeKept
  BY JobIds DEF OutcomeKept, NoOutcome, SystemInv
<1>3. \A h \in Host, id \in JobId : worker'[h][id] # "none" => id \in DOMAIN jobs'
  BY DEF OutcomeInv
<1> QED
  BY <1>1, <1>2, <1>3 DEF OutcomeInv, CreatedOnce

\* What changes for one job on one host only.
LEMMA OutcomeMoves ==
    ASSUME SystemInv, OutcomeInv, CreatedOnce', DOMAIN jobs \subseteq DOMAIN jobs',
           NEW h \in Host, NEW id \in DOMAIN jobs,
           ~NoOutcome(h, id),
           AtMostOneOf(CreatedFor(h, id)', WorkersFor(h, id)', OutcomesFor(h, id)'),
           \A g \in Host, k \in JobId : g # h \/ k # id =>
              /\ CreatedFor(g, k)' \subseteq CreatedFor(g, k)
              /\ WorkersFor(g, k)' \subseteq WorkersFor(g, k)
              /\ OutcomesFor(g, k)' \subseteq OutcomesFor(g, k)
              /\ worker'[g][k] # "none" => worker[g][k] # "none"
    PROVE  OutcomeInv' /\ OutcomeKept
<1>1. ASSUME NEW g \in Host, NEW k \in JobId, g # h \/ k # id
      PROVE  AtMostOneOf(CreatedFor(g, k)', WorkersFor(g, k)', OutcomesFor(g, k)')
  <2> DEFINE A == CreatedFor(g, k)
             B == WorkersFor(g, k)
             C == OutcomesFor(g, k)
             A1 == CreatedFor(g, k)'
             B1 == WorkersFor(g, k)'
             C1 == OutcomesFor(g, k)'
  <2>1. AtMostOneOf(A, B, C)
    BY DEF OutcomeInv
  <2>2. A1 \subseteq A /\ B1 \subseteq B /\ C1 \subseteq C
    BY <1>1
  <2> HIDE DEF A, B, C, A1, B1, C1
  <2>3. AtMostOneOf(A1, B1, C1)
    BY <2>1, <2>2 DEF AtMostOneOf
  <2> QED
    BY <2>3 DEF A1, B1, C1
<1>2. \A g \in Host, k \in JobId :
         AtMostOneOf(CreatedFor(g, k)', WorkersFor(g, k)', OutcomesFor(g, k)')
  <2> SUFFICES ASSUME NEW g \in Host, NEW k \in JobId
               PROVE  AtMostOneOf(CreatedFor(g, k)', WorkersFor(g, k)', OutcomesFor(g, k)')
    OBVIOUS
  <2>1. CASE g = h /\ k = id
    BY <2>1
  <2>2. CASE g # h \/ k # id
    BY <2>2, <1>1
  <2> QED
    BY <2>1, <2>2
<1>3. \A g \in Host, k \in JobId : worker'[g][k] # "none" => k \in DOMAIN jobs'
  BY DEF OutcomeInv
<1>4. OutcomeKept
  <2> SUFFICES ASSUME NEW g \in Host, NEW k \in DOMAIN jobs, NoOutcome(g, k)
               PROVE  NoOutcome(g, k)'
    BY DEF OutcomeKept
  <2>1. g # h \/ k # id
    OBVIOUS
  <2>2. k \in JobId
    BY JobIds DEF SystemInv
  <2> QED
    BY <2>1, <2>2 DEF NoOutcome
<1> QED
  BY <1>2, <1>3, <1>4 DEF OutcomeInv, CreatedOnce, AtMostOneOf

\* Steps that publish no outcome and leave the hosts' workers alone.
LEMMA QuietOutcome ==
    ASSUME SystemInv, OutcomeInv, [Next]_jobs, UNCHANGED <<log, cursor, worker, late>>
    PROVE  OutcomeInv' /\ OutcomeKept
<1>1. DOMAIN jobs \subseteq DOMAIN jobs'
  BY JobsGrow DEF SystemInv
<1>2. CreatedOnce'
  BY DEF OutcomeInv, CreatedOnce
<1> QED
  BY <1>1, <1>2, OutcomeShrinks DEF CreatedFor, WorkersFor, OutcomesFor

LEMMA ConsumerOutcome ==
    ASSUME SystemInv, OutcomeInv, [Next]_jobs,
           NEW cmd \in Command, cmd.id \in DOMAIN jobs, cmd.kind # "configuration",
           Publish(cmd), UNCHANGED <<cursor, worker>>
    PROVE  OutcomeInv' /\ OutcomeKept
<1>1. DOMAIN jobs \subseteq DOMAIN jobs'
  BY JobsGrow DEF SystemInv
<1>2. CreatedOnce' /\ \A h, id : CreatedFor(h, id)' = CreatedFor(h, id)
  BY PublishLog, CreatedKept DEF SystemInv, OutcomeInv, CreatedOnce
<1>3. \A h, id : OutcomesFor(h, id)' = OutcomesFor(h, id)
  <2> DEFINE c == [cmd EXCEPT !.n = timeouts]
  <2>1. late' = late \/ late' = late \cup {c}
    BY PublishLog DEF SystemInv
  <2>2. c.kind # "configuration"
    BY SameContent
  <2> HIDE DEF c
  <2> QED
    BY <2>1, <2>2 DEF OutcomesFor
<1> QED
  BY <1>1, <1>2, <1>3, OutcomeShrinks DEF WorkersFor

LEMMA AnnounceOutcome ==
    ASSUME SystemInv, OutcomeInv, [Next]_jobs,
           NEW h \in Host, NEW id \in DOMAIN jobs, AnnounceConfiguration(h, id)
    PROVE  OutcomeInv' /\ OutcomeKept
<1>1. DOMAIN jobs \subseteq DOMAIN jobs' /\ id \in JobId
  BY JobsGrow, JobIds DEF SystemInv
<1>2. PICK cmd : cmd = ConfigurationReportOf(h, id, "CONFIGURING")
  OBVIOUS
<1>3. cmd \in Command /\ cmd.id = id /\ cmd.kind = "configuration" /\ cmd.report = "CONFIGURING"
  BY <1>1, <1>2, BoundsAssumption
     DEF Command, ConfigurationReportOf, BoundsAssumption, ConfigurationReport
<1>4. Publish(cmd)
  BY <1>2 DEF AnnounceConfiguration
<1>5. CreatedOnce' /\ \A g, k : CreatedFor(g, k)' = CreatedFor(g, k)
  <2>1. cursor' = cursor
    BY DEF AnnounceConfiguration
  <2> QED
    BY <1>3, <1>4, <2>1, PublishLog, CreatedKept DEF SystemInv, OutcomeInv, CreatedOnce
<1>6. \A g, k : OutcomesFor(g, k)' = OutcomesFor(g, k)
  <2> DEFINE c == [cmd EXCEPT !.n = timeouts]
  <2>1. late' = late \/ late' = late \cup {c}
    BY <1>3, <1>4, PublishLog DEF SystemInv
  <2>2. c.report = "CONFIGURING"
    BY <1>3, SameContent
  <2> HIDE DEF c
  <2> QED
    BY <2>1, <2>2 DEF OutcomesFor, Outcome
<1>7. /\ worker \in [Host -> [JobId -> WorkerAt]]
      /\ worker[h][id] = "announce" /\ worker' = [worker EXCEPT ![h][id] = "installing"]
  BY DEF AnnounceConfiguration, SystemInv, WorkerTyped
<1>8. \A g \in Host, k \in JobId :
         /\ WorkersFor(g, k)' = WorkersFor(g, k)
         /\ worker'[g][k] # "none" => worker[g][k] # "none"
  BY <1>1, <1>7 DEF WorkersFor
<1> QED
  BY <1>1, <1>5, <1>6, <1>8, OutcomeShrinks

LEMMA ConfigureOutcome ==
    ASSUME SystemInv, OutcomeInv, NEW h \in Host, NEW id \in DOMAIN jobs, Configure(h, id)
    PROVE  OutcomeInv' /\ OutcomeKept
<1>1. UNCHANGED <<jobs, log, cursor, late>>
  BY DEF Configure
<1>2. PICK outcome \in Outcome : worker' = [worker EXCEPT ![h][id] = outcome]
  BY OutcomesAssumption DEF Configure, OutcomesAssumption, ConfigurationReport, Outcome
<1>3. worker \in [Host -> [JobId -> WorkerAt]] /\ worker[h][id] = "installing" /\ id \in JobId
  BY JobIds DEF Configure, SystemInv, WorkerTyped
<1>4. \A g \in Host, k \in JobId :
         /\ WorkersFor(g, k)' = WorkersFor(g, k)
         /\ worker'[g][k] # "none" => worker[g][k] # "none"
  BY <1>2, <1>3 DEF WorkersFor
<1>5. CreatedOnce'
  BY <1>1 DEF OutcomeInv, CreatedOnce
<1> QED
  BY <1>1, <1>4, <1>5, OutcomeShrinks DEF CreatedFor, OutcomesFor

\* The outcome of a goroutine is committed, or becomes a late one.
LEMMA ReportOutcome ==
    ASSUME SystemInv, OutcomeInv, [Next]_jobs,
           NEW h \in Host, NEW id \in DOMAIN jobs, ReportConfiguration(h, id)
    PROVE  /\ OutcomeInv' /\ OutcomeKept
           /\ ~NoOutcome(h, id)
           /\ late' = late => NoOutcome(h, id)'
<1>1. DOMAIN jobs \subseteq DOMAIN jobs' /\ id \in JobId
  BY JobsGrow, JobIds DEF SystemInv
<1>2. PICK cmd : cmd = ConfigurationReportOf(h, id, worker[h][id])
  OBVIOUS
<1>3. worker[h][id] \in Outcome
  BY DEF ReportConfiguration, Outcome
<1>4. cmd \in Command /\ cmd.id = id /\ cmd.kind = "configuration" /\ cmd.host = h
  BY <1>1, <1>2, <1>3, BoundsAssumption
     DEF Command, ConfigurationReportOf, BoundsAssumption, ConfigurationReport, Outcome
<1>5. Publish(cmd)
  BY <1>2 DEF ReportConfiguration
<1>6. CreatedOnce' /\ \A g, k : CreatedFor(g, k)' = CreatedFor(g, k)
  <2>1. cursor' = cursor
    BY DEF ReportConfiguration
  <2> QED
    BY <1>4, <1>5, <2>1, PublishLog, CreatedKept DEF SystemInv, OutcomeInv, CreatedOnce
<1>7. /\ worker \in [Host -> [JobId -> WorkerAt]]
      /\ worker' = [worker EXCEPT ![h][id] = "done"]
  BY DEF ReportConfiguration, SystemInv, WorkerTyped
<1>8. h \in WorkersFor(h, id) /\ WorkersFor(h, id)' = {}
  BY <1>1, <1>3, <1>7 DEF WorkersFor, Outcome
<1>9. CreatedFor(h, id) = {} /\ OutcomesFor(h, id) = {}
  BY <1>1, <1>8 DEF OutcomeInv, AtMostOneOf
<1>10. PICK c : c = [cmd EXCEPT !.n = timeouts]
  OBVIOUS
<1>11. late' = late \/ late' = late \cup {c}
  BY <1>4, <1>5, <1>10, PublishLog DEF SystemInv
<1>12. c.id = id /\ c.host = h
  BY <1>4, <1>10, SameContent
<1>13. OutcomesFor(h, id)' \subseteq {c} /\ (late' = late => OutcomesFor(h, id)' = {})
  BY <1>9, <1>11 DEF OutcomesFor
<1>14. AtMostOneOf(CreatedFor(h, id)', WorkersFor(h, id)', OutcomesFor(h, id)')
  <2> DEFINE A == CreatedFor(h, id)'
             B == WorkersFor(h, id)'
             C == OutcomesFor(h, id)'
  <2>1. A = {} /\ B = {} /\ C \subseteq {c}
    BY <1>6, <1>8, <1>9, <1>13
  <2> HIDE DEF A, B, C
  <2>2. AtMostOneOf(A, B, C)
    BY <2>1 DEF AtMostOneOf
  <2> QED
    BY <2>2 DEF A, B, C
<1>15. \A g \in Host, k \in JobId : g # h \/ k # id =>
         /\ WorkersFor(g, k)' \subseteq WorkersFor(g, k)
         /\ OutcomesFor(g, k)' \subseteq OutcomesFor(g, k)
         /\ worker'[g][k] # "none" => worker[g][k] # "none"
  BY <1>1, <1>7, <1>11, <1>12 DEF WorkersFor, OutcomesFor
<1>16. ~NoOutcome(h, id)
  BY <1>8 DEF NoOutcome
<1>17. OutcomeInv' /\ OutcomeKept
  BY <1>1, <1>6, <1>14, <1>15, <1>16, OutcomeMoves
<1> QED
  BY <1>6, <1>8, <1>9, <1>13, <1>16, <1>17 DEF NoOutcome

LEMMA CommitLateOutcome ==
    ASSUME SystemInv, OutcomeInv, [Next]_jobs,
           NEW cmd \in late, Commit(cmd), late' = late \ {cmd}, UNCHANGED <<cursor, worker>>
    PROVE  /\ OutcomeInv' /\ OutcomeKept
           /\ cmd.kind = "configuration" /\ cmd.report \in Outcome =>
                 ~NoOutcome(cmd.host, cmd.id) /\ NoOutcome(cmd.host, cmd.id)'
<1>1. cmd \in Command /\ cmd.id \in DOMAIN jobs /\ cmd.id \in JobId
  BY JobIds DEF SystemInv, LateTyped
<1>2. DOMAIN jobs \subseteq DOMAIN jobs'
  BY JobsGrow DEF SystemInv
<1>3. CreatedOnce' /\ \A h, id : CreatedFor(h, id)' = CreatedFor(h, id)
  BY <1>1, CommitLog, CreatedKept DEF SystemInv, OutcomeInv, CreatedOnce
<1>4. \A h, id : OutcomesFor(h, id)' = OutcomesFor(h, id) \ {cmd}
  BY DEF OutcomesFor
<1>5. OutcomeInv' /\ OutcomeKept
  BY <1>2, <1>3, <1>4, OutcomeShrinks DEF WorkersFor
<1>6. ASSUME cmd.kind = "configuration", cmd.report \in Outcome
      PROVE  ~NoOutcome(cmd.host, cmd.id) /\ NoOutcome(cmd.host, cmd.id)'
  <2> DEFINE h == cmd.host
             id == cmd.id
  <2>1. h \in Host
    BY <1>1, <1>6, CommandKinds
  <2>2. cmd \in OutcomesFor(h, id)
    BY <1>6 DEF OutcomesFor
  <2>3. AtMostOneOf(CreatedFor(h, id), WorkersFor(h, id), OutcomesFor(h, id))
    BY <1>1, <2>1 DEF OutcomeInv
  <2>4. CreatedFor(h, id) = {} /\ WorkersFor(h, id) = {} /\ OutcomesFor(h, id) = {cmd}
    BY <2>2, <2>3 DEF AtMostOneOf
  <2>5. CreatedFor(h, id)' = {} /\ WorkersFor(h, id)' = {} /\ OutcomesFor(h, id)' = {}
    BY <1>3, <1>4, <2>4 DEF WorkersFor
  <2> QED
    BY <2>2, <2>5 DEF NoOutcome
<1> QED
  BY <1>5, <1>6

\* The event the consumer takes.
LEMMA Taken ==
    ASSUME SystemInv, NEW h \in Host, Take(h)
    PROVE  /\ cursor[h] + 1 \in DOMAIN log
           /\ Next1(h) = log[cursor[h] + 1]
           /\ Next1(h) \in Event /\ Next1(h).id \in DOMAIN jobs
           /\ \A i \in DOMAIN log : i \in Nat
           /\ cursor \in [Host -> Nat]
           /\ cursor' = [cursor EXCEPT ![h] = cursor[h] + 1]
<1>1. cursor \in [Host -> 0..Len(log)] /\ log \in Seq(Event) /\ Len(log) \in Nat
  BY DEF SystemInv, ConsumerTyped, LogTyped
<1>2. cursor[h] + 1 \in DOMAIN log
  BY <1>1 DEF Take
<1> QED
  BY <1>1, <1>2 DEF Take, Next1, SystemInv, LogTyped

LEMMA TakeOutcome ==
    ASSUME SystemInv, OutcomeInv, NEW h \in Host, Take(h)
    PROVE  OutcomeInv' /\ OutcomeKept
<1>1. UNCHANGED <<jobs, log, late>>
  BY DEF Take
<1>2. PICK e : e = Next1(h)
  OBVIOUS
<1>3. PICK i : i = cursor[h] + 1
  OBVIOUS
<1>4. /\ i \in DOMAIN log /\ e = log[i] /\ e.id \in DOMAIN jobs /\ e.id \in JobId
      /\ \A k \in DOMAIN log : k \in Nat
      /\ cursor \in [Host -> Nat] /\ cursor' = [cursor EXCEPT ![h] = i]
      /\ cursor[h] < i
  BY <1>2, <1>3, Taken, JobIds DEF SystemInv
<1>5. CreatedOnce' /\ OutcomesFor(h, e.id)' = OutcomesFor(h, e.id)
  BY <1>1 DEF OutcomeInv, CreatedOnce, OutcomesFor
<1>6. \A g \in Host, k \in JobId :
         /\ CreatedFor(g, k)' \subseteq CreatedFor(g, k)
         /\ OutcomesFor(g, k)' = OutcomesFor(g, k)
  <2>1. \A g \in Host : cursor[g] <= cursor'[g] /\ cursor[g] \in Nat /\ cursor'[g] \in Nat
    BY <1>3, <1>4
  <2> QED
    BY <1>1, <1>4, <2>1 DEF CreatedFor, OutcomesFor
<1>7. CASE worker' = worker
  BY <1>1, <1>5, <1>6, <1>7, OutcomeShrinks DEF WorkersFor
<1>8. CASE worker' # worker
  <2>1. /\ e.kind = "JobCreated" /\ e.id \notin Pool(h)
        /\ worker' = [worker EXCEPT ![h][e.id] = "announce"]
    BY <1>2, <1>8 DEF Take, HandleJobCreated, HandleConfirmable, HandleRestartConfirmed
  <2>2. worker \in [Host -> [JobId -> WorkerAt]] /\ worker[h][e.id] = "none"
    BY <1>4, <2>1 DEF SystemInv, WorkerTyped, Pool
  <2>3. i \in CreatedFor(h, e.id)
    BY <1>4, <2>1 DEF CreatedFor
  <2>4. AtMostOneOf(CreatedFor(h, e.id), WorkersFor(h, e.id), OutcomesFor(h, e.id))
    BY <1>4 DEF OutcomeInv
  <2>5. CreatedFor(h, e.id) = {i} /\ OutcomesFor(h, e.id) = {}
    BY <2>3, <2>4 DEF AtMostOneOf
  <2>6. i \notin CreatedFor(h, e.id)'
    BY <1>4 DEF CreatedFor
  <2>7. CreatedFor(h, e.id)' = {} /\ OutcomesFor(h, e.id)' = {} /\ WorkersFor(h, e.id)' \subseteq {h}
    <3>1. CreatedFor(h, e.id)' \subseteq {i}
      BY <1>4, <1>6, <2>5
    <3> QED
      BY <1>5, <2>5, <2>6, <3>1 DEF WorkersFor
  <2>8. AtMostOneOf(CreatedFor(h, e.id)', WorkersFor(h, e.id)', OutcomesFor(h, e.id)')
    <3> DEFINE A == CreatedFor(h, e.id)'
               B == WorkersFor(h, e.id)'
               C == OutcomesFor(h, e.id)'
    <3>1. A = {} /\ C = {} /\ B \subseteq {h}
      BY <2>7
    <3> HIDE DEF A, B, C
    <3>2. AtMostOneOf(A, B, C)
      BY <3>1 DEF AtMostOneOf
    <3> QED
      BY <3>2 DEF A, B, C
  <2>9. \A g \in Host, k \in JobId : g # h \/ k # e.id =>
           /\ WorkersFor(g, k)' \subseteq WorkersFor(g, k)
           /\ worker'[g][k] # "none" => worker[g][k] # "none"
    BY <1>4, <2>1, <2>2 DEF WorkersFor
  <2>10. ~NoOutcome(h, e.id)
    BY <2>3 DEF NoOutcome
  <2> QED
    BY <1>1, <1>4, <1>5, <1>6, <2>8, <2>9, <2>10, OutcomeMoves
<1> QED
  BY <1>7, <1>8

LEMMA CrashOutcome ==
    ASSUME SystemInv, OutcomeInv, NEW h \in Host, Crash(h)
    PROVE  OutcomeInv' /\ OutcomeKept
<1>1. UNCHANGED <<jobs, log, late>>
  BY DEF Crash
<1>2. /\ cursor \in [Host -> Nat] /\ Len(log) \in Nat
      /\ \A i \in DOMAIN log : i \in Nat
  BY DEF SystemInv, ConsumerTyped, LogTyped
<1>3. PICK applied \in cursor[h]..Len(log) : cursor' = [cursor EXCEPT ![h] = applied]
  BY DEF Crash
<1>4. \A g \in Host : cursor'[g] \in Nat /\ cursor[g] \in Nat /\ cursor[g] <= cursor'[g]
  BY <1>2, <1>3
<1>5. /\ worker \in [Host -> [JobId -> WorkerAt]]
      /\ worker' = [worker EXCEPT ![h] = [id \in JobId |-> "none"]]
  BY DEF Crash, SystemInv, WorkerTyped
<1>6. \A g \in Host, k \in JobId :
         /\ CreatedFor(g, k)' \subseteq CreatedFor(g, k)
         /\ WorkersFor(g, k)' \subseteq WorkersFor(g, k)
         /\ OutcomesFor(g, k)' = OutcomesFor(g, k)
         /\ worker'[g][k] # "none" => worker[g][k] # "none"
  BY <1>1, <1>2, <1>4, <1>5 DEF CreatedFor, WorkersFor, OutcomesFor, Outcome
<1>7. CreatedOnce'
  BY <1>1 DEF OutcomeInv, CreatedOnce
<1> QED
  BY <1>1, <1>6, <1>7, OutcomeShrinks

-----------------------------------------------------------------------------
(* A host counted as configured has no outcome left to report.             *)

LEMMA HostsOfJob ==
    ASSUME IInv, NEW id \in DOMAIN jobs
    PROVE  HostsOf(jobs[id]) \subseteq Host /\ id \in JobId
<1>1. jobs[id] \in Job
  BY DEF IInv
<1> QED
  BY <1>1, JobIds DEF Job, HostMap, HostsOf

\* An event other than AllHostConfigured does not make a job configured.
LEMMA WasConfiguredKept ==
    ASSUME LogTyped, NEW k \in {"JobCreated", "RestartConfirmed", "ServiceRestarted"},
           \/ log' = log
           \/ \E e \in Event : e.kind = k /\ log' = Append(log, e)
    PROVE  \A id : WasConfigured(id)' <=> WasConfigured(id)
<1>1. CASE log' = log
  BY <1>1 DEF WasConfigured
<1>2. ASSUME NEW e \in Event, e.kind = k, log' = Append(log, e)
      PROVE  \A id : WasConfigured(id)' <=> WasConfigured(id)
  <2>1. /\ DOMAIN log' = DOMAIN log \cup {Len(log) + 1}
        /\ \A i \in DOMAIN log : log'[i] = log[i]
        /\ log'[Len(log) + 1] = e
    BY <1>2, Appended
  <2>2. e.kind # "AllHostConfigured"
    BY <1>2
  <2> QED
    BY <2>1, <2>2 DEF WasConfigured
<1> QED
  BY <1>1, <1>2

LEMMA NowConfigured ==
    ASSUME LogTyped, NEW id, NEW h, Logged("AllHostConfigured", id, h)
    PROVE  /\ WasConfigured(id)'
           /\ \A k : k # id => (WasConfigured(k)' <=> WasConfigured(k))
<1>1. PICK e \in Event : e.kind = "AllHostConfigured" /\ e.id = id /\ log' = Append(log, e)
  BY DEF Logged
<1>2. /\ DOMAIN log' = DOMAIN log \cup {Len(log) + 1}
      /\ \A i \in DOMAIN log : log'[i] = log[i]
      /\ log'[Len(log) + 1] = e
  BY <1>1, Appended
<1> QED
  BY <1>1, <1>2 DEF WasConfigured

\* The statuses of a job that was configured.
Going == {"CONFIGURED", "DEPLOYING", "DEPLOYED", "FAILED"}

\* Steps that configure no host.
LEMMA CountedFrame ==
    ASSUME SystemInv, [Next]_jobs, CountedInv, OutcomeKept, DOMAIN jobs' = DOMAIN jobs,
           \A id \in DOMAIN jobs :
              /\ jobs'[id].configuration = jobs[id].configuration
              /\ WasConfigured(id)' <=> WasConfigured(id)
              /\ jobs'[id].status \in Going => jobs[id].status \in Going
    PROVE  CountedInv'
<1>1. ASSUME NEW id \in DOMAIN jobs
      PROVE  /\ \A h \in HostsOf(jobs'[id]) :
                   jobs'[id].configuration[h] = "SUCCESS" => NoOutcome(h, id)'
             /\ WasConfigured(id)' => \A h \in HostsOf(jobs'[id]) : NoOutcome(h, id)'
             /\ jobs'[id].status \in Going => WasConfigured(id)'
  <2>1. HostsOf(jobs'[id]) = HostsOf(jobs[id]) /\ HostsOf(jobs[id]) \subseteq Host
    BY HostsOfJob, JobsKept DEF SystemInv
  <2> QED
    BY <2>1 DEF CountedInv, OutcomeKept, Going
<1> QED
  BY <1>1 DEF CountedInv, Going

\* Committing the report of a configuration whose outcome, if it is one, is no
\* longer anywhere.
LEMMA CountedCommit ==
    ASSUME SystemInv, [Next]_jobs, CountedInv, OutcomeKept,
           NEW id \in DOMAIN jobs, NEW h \in Host, NEW report \in ConfigurationReport,
           CommitConfiguration(id, h, report),
           report = "SUCCESS" => ~NoOutcome(h, id) /\ NoOutcome(h, id)'
    PROVE  /\ CountedInv'
           /\ jobs'[id].status # jobs[id].status =>
                 jobs[id].status \notin Going /\ ~WasConfigured(id)
           /\ log' # log => ~WasConfigured(id)
<1> DEFINE job == jobs[id]
           new == jobs'[id]
<1>1. /\ h \in HostsOf(job)
      /\ DOMAIN jobs' = DOMAIN jobs
      /\ \A k \in DOMAIN jobs \ {id} : jobs'[k] = jobs[k]
      /\ new.configuration = [job.configuration EXCEPT ![h] = report]
      /\ \/ new.status = job.status /\ log' = log
         \/ /\ report = "SUCCESS"
            /\ new.status = "CONFIGURED"
            /\ \A g \in HostsOf(job) : new.configuration[g] = "SUCCESS"
            /\ Logged("AllHostConfigured", id, h)
  BY ConfigurationCommitted DEF SystemInv
<1>2. \A k \in DOMAIN jobs : HostsOf(jobs'[k]) = HostsOf(jobs[k]) /\ HostsOf(jobs[k]) \subseteq Host
  BY HostsOfJob, JobsKept DEF SystemInv
<1>3. \A g \in HostsOf(new) : new.configuration[g] = "SUCCESS" => NoOutcome(g, id)'
  <2> SUFFICES ASSUME NEW g \in HostsOf(job), new.configuration[g] = "SUCCESS"
               PROVE  NoOutcome(g, id)'
    BY <1>2
  <2>1. CASE g = h
    BY <1>1, <2>1 DEF HostsOf
  <2>2. CASE g # h
    <3>1. job.configuration[g] = "SUCCESS"
      BY <1>1, <2>2 DEF HostsOf
    <3> QED
      BY <3>1, <1>2 DEF CountedInv, OutcomeKept
  <2> QED
    BY <2>1, <2>2
<1>4. \A k \in DOMAIN jobs : WasConfigured(k) => \A g \in HostsOf(jobs'[k]) : NoOutcome(g, k)'
  BY <1>2 DEF CountedInv, OutcomeKept
<1>5. \A k \in DOMAIN jobs \ {id} :
         \A g \in HostsOf(jobs'[k]) :
            jobs'[k].configuration[g] = "SUCCESS" => NoOutcome(g, k)'
  BY <1>1, <1>2 DEF CountedInv, OutcomeKept
<1>6. CASE new.status = job.status /\ log' = log
  <2>1. \A k : WasConfigured(k)' <=> WasConfigured(k)
    BY <1>6 DEF WasConfigured
  <2> QED
    BY <1>1, <1>3, <1>4, <1>5, <1>6, <2>1 DEF CountedInv
<1>7. CASE /\ report = "SUCCESS"
           /\ new.status = "CONFIGURED"
           /\ \A g \in HostsOf(job) : new.configuration[g] = "SUCCESS"
           /\ Logged("AllHostConfigured", id, h)
  <2>1. WasConfigured(id)' /\ \A k : k # id => (WasConfigured(k)' <=> WasConfigured(k))
    BY <1>7, NowConfigured DEF SystemInv
  <2>2. ~WasConfigured(id)
    BY <1>1, <1>7 DEF CountedInv
  <2>3. job.status \notin Going
    BY <2>2 DEF CountedInv, Going
  <2>4. \A g \in HostsOf(new) : NoOutcome(g, id)'
    BY <1>2, <1>3, <1>7
  <2>5. CountedInv'
    BY <1>1, <1>3, <1>4, <1>5, <2>1, <2>4 DEF CountedInv
  <2> QED
    BY <2>2, <2>3, <2>5
<1> QED
  BY <1>1, <1>6, <1>7

LEMMA CountedStill ==
    ASSUME SystemInv, CountedInv, OutcomeKept, UNCHANGED <<jobs, log>>
    PROVE  CountedInv'
<1>1. \A id \in DOMAIN jobs : WasConfigured(id)' <=> WasConfigured(id)
  BY DEF WasConfigured
<1> QED
  BY <1>1, CountedFrame

\* What submitting a job does.
LEMMA Submitted ==
    ASSUME SystemInv, NEW svc \in Service, NEW believe \in Believe, NEW targets \in TargetLists,
           SubmitJob(svc, believe, targets), [Next]_jobs
    PROVE  /\ \A id \in DOMAIN jobs : jobs'[id] = jobs[id]
           /\ \E n \in JobId :
                 /\ n \notin DOMAIN jobs /\ DOMAIN jobs' = DOMAIN jobs \cup {n}
                 /\ jobs'[n].status = "QUEUED" /\ jobs'[n].currentOrder = NilOrder
                 /\ \A h \in HostsOf(jobs'[n]) : jobs'[n].configuration[h] = "PENDING"
                 /\ ~WasConfigured(n)'
                 /\ \E e \in Event :
                       e.kind = "JobCreated" /\ e.id = n /\ log' = Append(log, e)
           /\ \A id : WasConfigured(id)' <=> WasConfigured(id)
<1>1. jobs' = Append(jobs, NewJob(svc, believe, targets)) /\ jobs \in Seq(Job)
  BY DEF SubmitJob, UserSubmitJob, SystemInv, IInv
<1>2. PICK new : new = NewJob(svc, believe, targets)
  OBVIOUS
<1>3. new \in Job
  <2>1. believe \in BOOLEAN
    BY BoundsAssumption DEF BoundsAssumption
  <2> QED
    BY <1>2, <2>1, NewJobGood DEF SubmitJob, UserSubmitJob, GoodJob
<1>4. /\ DOMAIN jobs' = DOMAIN jobs \cup {Len(jobs) + 1} /\ Len(jobs) + 1 \notin DOMAIN jobs
      /\ \A id \in DOMAIN jobs : jobs'[id] = jobs[id]
      /\ jobs'[Len(jobs) + 1] = new
      /\ Len(jobs') = Len(jobs) + 1
  BY <1>1, <1>2, <1>3
<1>5. PICK n : n = Len(jobs) + 1
  OBVIOUS
<1>6. /\ new.status = "QUEUED" /\ new.currentOrder = NilOrder
      /\ \A h \in HostsOf(new) : new.configuration[h] = "PENDING"
  BY <1>2 DEF NewJob, HostsOf
<1>7. PICK e \in Event : e.kind = "JobCreated" /\ e.id = n /\ log' = Append(log, e)
  <2>1. IInv' /\ n \in DOMAIN jobs' /\ targets[1].host \in Host
    <3>1. IInv'
      BY NextInv DEF SystemInv
    <3>2. targets \in Seq(Target) /\ targets # <<>>
      BY TargetListsAssumption DEF TargetListsAssumption, SubmitJob, UserSubmitJob, AcceptsTargets
    <3>3. targets[1] \in Target
      BY <3>2
    <3> QED
      BY <1>4, <1>5, <3>1, <3>3 DEF Target
  <2>2. new.status \in JobStatus /\ n \in JobId
    BY <1>3, <2>1, MaxJobsAssumption DEF IInv, JobId, MaxJobsAssumption, Job
  <2> DEFINE e0 == [kind |-> "JobCreated", id |-> n, host |-> targets[1].host,
                    status |-> new.status]
  <2>3. log' = Append(log, e0)
    BY <1>4, <1>5 DEF SubmitJob, Broadcast
  <2>4. e0 \in Event
    BY <2>1, <2>2 DEF Event, EventKind
  <2>5. e0.kind = "JobCreated" /\ e0.id = n
    OBVIOUS
  <2> HIDE DEF e0
  <2> QED
    BY <2>3, <2>4, <2>5
<1>8. \A id : WasConfigured(id)' <=> WasConfigured(id)
  BY <1>7, WasConfiguredKept DEF SystemInv
<1>9. ~WasConfigured(n)'
  <2>1. n \notin DOMAIN jobs
    BY <1>4, <1>5
  <2>2. \A i \in DOMAIN log : log[i].id \in DOMAIN jobs
    BY DEF SystemInv, LogTyped
  <2>3. ~WasConfigured(n)
    BY <2>1, <2>2 DEF WasConfigured
  <2> QED
    BY <1>8, <2>3
<1>10. n \in JobId
  BY <1>7 DEF Event
<1> QED
  BY <1>4, <1>5, <1>6, <1>7, <1>8, <1>9, <1>10

LEMMA CountedSubmit ==
    ASSUME SystemInv, CountedInv, OutcomeKept,
           NEW svc \in Service, NEW believe \in Believe, NEW targets \in TargetLists,
           SubmitJob(svc, believe, targets), [Next]_jobs
    PROVE  CountedInv' /\ \A id \in DOMAIN jobs : jobs'[id] = jobs[id]
<1>1. PICK n \in JobId :
         /\ n \notin DOMAIN jobs /\ DOMAIN jobs' = DOMAIN jobs \cup {n}
         /\ jobs'[n].status = "QUEUED"
         /\ \A h \in HostsOf(jobs'[n]) : jobs'[n].configuration[h] = "PENDING"
         /\ ~WasConfigured(n)'
  BY Submitted
<1>2. /\ \A id \in DOMAIN jobs : jobs'[id] = jobs[id]
      /\ \A id : WasConfigured(id)' <=> WasConfigured(id)
  BY Submitted
<1>3. \A id \in DOMAIN jobs : HostsOf(jobs[id]) \subseteq Host
  BY HostsOfJob DEF SystemInv
<1>4. \A id \in DOMAIN jobs :
         /\ \A h \in HostsOf(jobs'[id]) :
               jobs'[id].configuration[h] = "SUCCESS" => NoOutcome(h, id)'
         /\ WasConfigured(id)' => \A h \in HostsOf(jobs'[id]) : NoOutcome(h, id)'
         /\ jobs'[id].status \in Going => WasConfigured(id)'
  BY <1>2, <1>3 DEF CountedInv, OutcomeKept, Going
<1>5. /\ \A h \in HostsOf(jobs'[n]) :
            jobs'[n].configuration[h] = "SUCCESS" => NoOutcome(h, n)'
      /\ WasConfigured(n)' => \A h \in HostsOf(jobs'[n]) : NoOutcome(h, n)'
      /\ jobs'[n].status \in Going => WasConfigured(n)'
  BY <1>1 DEF Going
<1>6. CountedInv'
  BY <1>1, <1>4, <1>5 DEF CountedInv, Going
<1> QED
  BY <1>2, <1>6

\* A job that restarts services is not put back to CONFIGURED by this step.
GoesOn ==
    \A id \in DOMAIN jobs :
        jobs[id].status \in {"DEPLOYING", "DEPLOYED", "FAILED"} => jobs'[id].status # "CONFIGURED"

LEMMA CountedCancel ==
    ASSUME SystemInv, CountedInv, OutcomeKept, NEW id \in DOMAIN jobs, UserCancelJob(id)
    PROVE  CountedInv' /\ GoesOn
<1>1. PICK target : jobs' = [jobs EXCEPT ![target] = Cancelled(@)]
  BY DEF UserCancelJob, CancelJob
<1>2. \A k \in DOMAIN jobs : jobs[k] \in Job
  BY DEF SystemInv, IInv
<1>3. /\ DOMAIN jobs' = DOMAIN jobs
      /\ \A k \in DOMAIN jobs :
            /\ jobs'[k].configuration = jobs[k].configuration
            /\ jobs'[k].status \in {jobs[k].status, "CANCELLED"}
  BY <1>1, <1>2 DEF Cancelled, Job
<1>4. \A k : WasConfigured(k)' <=> WasConfigured(k)
  BY DEF UserCancelJob, WasConfigured
<1>5. Next
  BY DEF UserCancelJob, Next
<1>6. CountedInv'
  BY <1>3, <1>4, <1>5, CountedFrame DEF Going
<1> QED
  BY <1>3, <1>6 DEF GoesOn

\* Committing anything; an outcome that is committed is no longer anywhere.
LEMMA CountedAny ==
    ASSUME SystemInv, CountedInv, OutcomeKept,
           NEW cmd \in Command, cmd.id \in DOMAIN jobs, Commit(cmd),
           cmd.kind = "configuration" /\ cmd.report \in Outcome =>
              ~NoOutcome(cmd.host, cmd.id) /\ NoOutcome(cmd.host, cmd.id)'
    PROVE  CountedInv' /\ GoesOn
<1>0. [Next]_jobs
  BY CommitStep DEF SystemInv
<1>1. CASE UNCHANGED <<jobs, log>>
  BY <1>1, CountedStill DEF GoesOn
<1>2. CASE cmd.kind = "configuration" /\ CommitConfiguration(cmd.id, cmd.host, cmd.report)
  <2> DEFINE id == cmd.id
             h == cmd.host
             report == cmd.report
  <2>1. id \in DOMAIN jobs /\ h \in Host /\ report \in ConfigurationReport
        /\ CommitConfiguration(id, h, report)
        /\ (report = "SUCCESS" => ~NoOutcome(h, id) /\ NoOutcome(h, id)')
    BY <1>2, CommandKinds DEF Outcome
  <2> HIDE DEF id, h, report
  <2>2. /\ CountedInv'
        /\ jobs'[id].status # jobs[id].status => jobs[id].status \notin Going
    BY <1>0, <2>1, CountedCommit
  <2>3. \A k \in DOMAIN jobs \ {id} : jobs'[k] = jobs[k]
    BY <2>1, ConfigurationCommitted DEF SystemInv
  <2>4. GoesOn
    BY <2>2, <2>3 DEF GoesOn, Going
  <2> QED
    BY <2>2, <2>4
<1>3. CASE cmd.kind = "restart" /\ CommitRestart(cmd.id)
  <2> DEFINE id == cmd.id
  <2>1. id \in DOMAIN jobs /\ CommitRestart(id)
    BY <1>3
  <2> HIDE DEF id
  <2>2. /\ jobs[id].status \in {"CONFIGURED", "DEPLOYING"}
        /\ DOMAIN jobs' = DOMAIN jobs
        /\ \A k \in DOMAIN jobs \ {id} : jobs'[k] = jobs[k]
        /\ jobs'[id].configuration = jobs[id].configuration
        /\ jobs'[id].status = "DEPLOYING"
        /\ Logged("RestartConfirmed", id, OnProgress(jobs'[id]))
    BY <2>1, RestartCommitted DEF SystemInv
  <2>3. \A k : WasConfigured(k)' <=> WasConfigured(k)
    BY <2>2, WasConfiguredKept DEF SystemInv, Logged
  <2>4. CountedInv'
    BY <1>0, <2>2, <2>3, CountedFrame DEF Going
  <2> QED
    BY <2>2, <2>4 DEF GoesOn
<1>4. CASE cmd.kind = "restarted" /\ CommitRestarted(cmd.id, cmd.host, cmd.report)
  <2> DEFINE id == cmd.id
             h == cmd.host
             report == cmd.report
  <2>1. id \in DOMAIN jobs /\ h \in Host /\ report \in RestartReport
        /\ CommitRestarted(id, h, report)
    BY <1>4, CommandKinds
  <2> HIDE DEF id, h, report
  <2>2. /\ jobs[id].status = "DEPLOYING"
        /\ DOMAIN jobs' = DOMAIN jobs
        /\ \A k \in DOMAIN jobs \ {id} : jobs'[k] = jobs[k]
        /\ jobs'[id].configuration = jobs[id].configuration
        /\ jobs'[id].status # "CONFIGURED"
        /\ log' = log \/ Logged("ServiceRestarted", id, h)
    BY <2>1, RestartedCommitted DEF SystemInv, RestartReport
  <2>3. \A k : WasConfigured(k)' <=> WasConfigured(k)
    BY <2>2, WasConfiguredKept DEF SystemInv, Logged
  <2>4. CountedInv'
    BY <1>0, <2>2, <2>3, CountedFrame DEF Going
  <2> QED
    BY <2>2, <2>4 DEF GoesOn
<1> QED
  BY <1>1, <1>2, <1>3, <1>4 DEF Commit

LEMMA CountedPublish ==
    ASSUME SystemInv, CountedInv, OutcomeKept,
           NEW cmd \in Command, cmd.id \in DOMAIN jobs, Publish(cmd),
           cmd.kind = "configuration" /\ cmd.report \in Outcome /\ late' = late =>
              ~NoOutcome(cmd.host, cmd.id) /\ NoOutcome(cmd.host, cmd.id)'
    PROVE  CountedInv' /\ GoesOn
<1>1. CASE Commit(cmd) /\ late' = late
  BY <1>1, CountedAny
<1>2. CASE UNCHANGED <<jobs, log>>
  BY <1>2, CountedStill DEF GoesOn
<1> QED
  BY <1>1, <1>2 DEF Publish

LEMMA ConsumerCommand ==
    ASSUME SystemInv, NEW h \in Host,
           ConfirmRestart(h) \/ AnnounceRestart(h) \/ ReportRestart(h)
    PROVE  \E cmd \in Command :
              /\ cmd.id = consumer[h].id /\ cmd.id \in DOMAIN jobs /\ cmd.kind # "configuration"
              /\ Publish(cmd)
              /\ \/ /\ consumer[h].at = "confirm" /\ cmd.kind = "restart" /\ GoIdle(h)
                 \/ /\ consumer[h].at = "announce"
                    /\ cmd.kind = "restarted" /\ cmd.host = h /\ cmd.report = "RESTARTING"
                    /\ GoTo(h, "deploying")
                 \/ /\ consumer[h].at \in {"SUCCESS", "FAILED"}
                    /\ cmd.kind = "restarted" /\ cmd.host = h /\ cmd.report = consumer[h].at
                    /\ GoIdle(h)
              /\ UNCHANGED <<cursor, worker, installed, overlapped, running, cancels, crashes>>
<1> DEFINE id == consumer[h].id
<1>1. consumer[h] # Idle
  BY DEF ConfirmRestart, AnnounceRestart, ReportRestart, Idle
<1>2. id \in DOMAIN jobs /\ id \in JobId
  BY <1>1, JobIds DEF SystemInv, ConsumerTyped
<1>3. CASE ConfirmRestart(h)
  <2> DEFINE cmd == [kind |-> "restart", id |-> id, n |-> 0]
  <2>1. cmd \in Command
    BY <1>2, BoundsAssumption DEF Command, BoundsAssumption
  <2> QED
    BY <1>2, <1>3, <2>1 DEF ConfirmRestart
<1>4. CASE AnnounceRestart(h)
  <2> DEFINE cmd == RestartReportOf(h, "RESTARTING")
  <2>1. cmd \in Command /\ cmd.id = id /\ cmd.kind = "restarted" /\ cmd.host = h
        /\ cmd.report = "RESTARTING"
    BY <1>2, BoundsAssumption DEF Command, BoundsAssumption, RestartReportOf, RestartReport
  <2> HIDE DEF cmd
  <2>2. Publish(cmd)
    BY <1>4 DEF AnnounceRestart, cmd
  <2> QED
    BY <1>2, <1>4, <2>1, <2>2 DEF AnnounceRestart
<1>5. CASE ReportRestart(h)
  <2> DEFINE cmd == RestartReportOf(h, consumer[h].at)
  <2>1. cmd \in Command /\ cmd.id = id /\ cmd.kind = "restarted" /\ cmd.host = h
        /\ cmd.report = consumer[h].at
    BY <1>2, <1>5, BoundsAssumption
       DEF Command, BoundsAssumption, RestartReportOf, RestartReport, ReportRestart
  <2> HIDE DEF cmd
  <2>2. Publish(cmd)
    BY <1>5 DEF ReportRestart, cmd
  <2> QED
    BY <1>2, <1>5, <2>1, <2>2 DEF ReportRestart
<1> QED
  BY <1>3, <1>4, <1>5

LEMMA WorkerCommand ==
    ASSUME SystemInv, NEW h \in Host, NEW id \in DOMAIN jobs,
           AnnounceConfiguration(h, id) \/ ReportConfiguration(h, id)
    PROVE  \E cmd \in Command :
              /\ cmd.id = id /\ cmd.kind = "configuration" /\ cmd.host = h
              /\ \/ AnnounceConfiguration(h, id) /\ cmd.report = "CONFIGURING"
                 \/ ReportConfiguration(h, id) /\ cmd.report = worker[h][id]
              /\ Publish(cmd)
<1>1. id \in JobId
  BY JobIds DEF SystemInv
<1>2. CASE AnnounceConfiguration(h, id)
  <2> DEFINE cmd == ConfigurationReportOf(h, id, "CONFIGURING")
  <2>1. cmd \in Command /\ cmd.id = id /\ cmd.kind = "configuration" /\ cmd.host = h
        /\ cmd.report = "CONFIGURING"
    BY <1>1, BoundsAssumption
       DEF Command, BoundsAssumption, ConfigurationReportOf, ConfigurationReport
  <2> HIDE DEF cmd
  <2>2. Publish(cmd)
    BY <1>2 DEF AnnounceConfiguration, cmd
  <2> QED
    BY <1>2, <2>1, <2>2
<1>3. CASE ReportConfiguration(h, id)
  <2> DEFINE cmd == ConfigurationReportOf(h, id, worker[h][id])
  <2>1. cmd \in Command /\ cmd.id = id /\ cmd.kind = "configuration" /\ cmd.host = h
        /\ cmd.report = worker[h][id]
    BY <1>1, <1>3, BoundsAssumption
       DEF Command, BoundsAssumption, ConfigurationReportOf, ConfigurationReport,
           ReportConfiguration
  <2> HIDE DEF cmd
  <2>2. Publish(cmd)
    BY <1>3 DEF ReportConfiguration, cmd
  <2> QED
    BY <1>3, <2>1, <2>2
<1> QED
  BY <1>2, <1>3

\* One step of the cluster.
LEMMA OutcomeStep ==
    ASSUME SystemInv, OutcomeInv, CountedInv, [SystemNext]_vars
    PROVE  OutcomeInv' /\ OutcomeKept /\ CountedInv' /\ GoesOn
<1>1. [Next]_jobs /\ SystemInv'
  BY SystemStep
<1>2. CASE UNCHANGED vars
  <2>1. UNCHANGED <<jobs, log, cursor, worker, late>>
    BY <1>2 DEF vars
  <2> QED
    BY <1>1, <2>1, QuietOutcome, CountedStill DEF GoesOn
<1>3. ASSUME NEW svc \in Service, NEW believe \in Believe, NEW targets \in TargetLists,
             SubmitJob(svc, believe, targets)
      PROVE  OutcomeInv' /\ OutcomeKept /\ CountedInv' /\ GoesOn
  <2>1. OutcomeInv' /\ OutcomeKept
    BY <1>1, <1>3, SubmitOutcome
  <2>2. CountedInv' /\ \A id \in DOMAIN jobs : jobs'[id] = jobs[id]
    BY <1>1, <1>3, <2>1, CountedSubmit
  <2> QED
    BY <2>1, <2>2 DEF GoesOn
<1>4. ASSUME NEW id \in DOMAIN jobs, UserCancelJob(id)
      PROVE  OutcomeInv' /\ OutcomeKept /\ CountedInv' /\ GoesOn
  <2>1. UNCHANGED <<log, cursor, worker, late>>
    BY <1>4 DEF UserCancelJob, hostVars
  <2> QED
    BY <1>1, <1>4, <2>1, QuietOutcome, CountedCancel
<1>5. CASE CommitLate
  <2>1. PICK cmd \in late :
           Commit(cmd) /\ late' = late \ {cmd} /\ UNCHANGED <<hostVars, cancels, faultVars>>
    BY <1>5 DEF CommitLate
  <2>2. cmd \in Command /\ cmd.id \in DOMAIN jobs
    BY DEF SystemInv, LateTyped
  <2>3. /\ OutcomeInv' /\ OutcomeKept
        /\ cmd.kind = "configuration" /\ cmd.report \in Outcome =>
              ~NoOutcome(cmd.host, cmd.id) /\ NoOutcome(cmd.host, cmd.id)'
    BY <1>1, <2>1, CommitLateOutcome DEF hostVars
  <2> QED
    BY <2>1, <2>2, <2>3, CountedAny
<1>6. ASSUME NEW h \in Host, ConfirmRestart(h) \/ AnnounceRestart(h) \/ ReportRestart(h)
      PROVE  OutcomeInv' /\ OutcomeKept /\ CountedInv' /\ GoesOn
  <2>1. PICK cmd \in Command :
           /\ cmd.id \in DOMAIN jobs /\ cmd.kind # "configuration" /\ Publish(cmd)
           /\ UNCHANGED <<cursor, worker>>
    BY <1>6, ConsumerCommand
  <2>2. OutcomeInv' /\ OutcomeKept
    BY <1>1, <2>1, ConsumerOutcome
  <2> QED
    BY <2>1, <2>2, CountedPublish
<1>7. ASSUME NEW h \in Host, Take(h) \/ Deploy(h) \/ Crash(h)
      PROVE  OutcomeInv' /\ OutcomeKept /\ CountedInv' /\ GoesOn
  <2>1. UNCHANGED <<jobs, log>>
    BY <1>7 DEF Take, Deploy, Crash
  <2>2. CASE Deploy(h)
    <3>1. UNCHANGED <<log, cursor, worker, late>>
      BY <2>2 DEF Deploy
    <3> QED
      BY <1>1, <2>1, <3>1, QuietOutcome, CountedStill DEF GoesOn
  <2> QED
    BY <1>7, <2>1, <2>2, TakeOutcome, CrashOutcome, CountedStill DEF GoesOn
<1>8. ASSUME NEW h \in Host, NEW id \in DOMAIN jobs, WorkerStep(h, id)
      PROVE  OutcomeInv' /\ OutcomeKept /\ CountedInv' /\ GoesOn
  <2>1. CASE AnnounceConfiguration(h, id)
    <3>1. PICK cmd \in Command :
             /\ cmd.id = id /\ cmd.report \in {"CONFIGURING", worker[h][id]}
             /\ (ReportConfiguration(h, id) \/ cmd.report = "CONFIGURING")
             /\ Publish(cmd)
      BY <2>1, WorkerCommand
    <3>2. cmd.report = "CONFIGURING"
      BY <2>1, <3>1 DEF AnnounceConfiguration, ReportConfiguration
    <3>3. OutcomeInv' /\ OutcomeKept
      BY <1>1, <2>1, AnnounceOutcome
    <3> QED
      BY <3>1, <3>2, <3>3, CountedPublish DEF Outcome
  <2>2. CASE Configure(h, id)
    BY <2>2, ConfigureOutcome, CountedStill DEF Configure, GoesOn
  <2>3. CASE ReportConfiguration(h, id)
    <3>1. PICK cmd \in Command :
             cmd.id = id /\ cmd.kind = "configuration" /\ cmd.host = h /\ Publish(cmd)
      BY <2>3, WorkerCommand
    <3>2. OutcomeInv' /\ OutcomeKept /\ ~NoOutcome(h, id) /\ (late' = late => NoOutcome(h, id)')
      BY <1>1, <2>3, ReportOutcome
    <3> QED
      BY <3>1, <3>2, CountedPublish
  <2> QED
    BY <1>8, <2>1, <2>2, <2>3 DEF WorkerStep
<1> QED
  BY <1>2, <1>3, <1>4, <1>5, <1>6, <1>7, <1>8 DEF SystemNext, ConsumerStep

-----------------------------------------------------------------------------
(* Whoever reports a host as configured has installed the release.         *)

ReadyKept == \A h \in Host, id \in DOMAIN jobs : Ready(h, id) => Ready(h, id)'

LEMMA ReadyStays ==
    ASSUME SystemInv, OutcomeInv, [SystemNext]_vars
    PROVE  ReadyKept
<1>1. /\ worker \in [Host -> [JobId -> WorkerAt]] /\ installed \in [Host -> SUBSET JobId]
      /\ overlapped \in [Host -> SUBSET Service]
  BY DEF SystemInv, WorkerTyped
<1>2. \A id \in DOMAIN jobs : id \in JobId /\ jobs'[id].service = jobs[id].service
  BY SystemStep, JobsKept, JobIds DEF SystemInv
<1>3. CASE UNCHANGED <<installed, overlapped, worker, crashes>>
  BY <1>2, <1>3 DEF ReadyKept, Ready, Overlapped
<1>4. ASSUME NEW h \in Host, NEW id \in JobId, NEW at \in WorkerAt, at # "none",
             UNCHANGED <<installed, overlapped, crashes>>,
             worker' = [worker EXCEPT ![h][id] = at]
      PROVE  ReadyKept
  BY <1>1, <1>2, <1>4 DEF ReadyKept, Ready, Overlapped
<1>5. ASSUME NEW h \in Host, Take(h)
      PROVE  ReadyKept
  <2>1. Next1(h).id \in JobId /\ UNCHANGED <<installed, overlapped, crashes>>
    BY <1>5, Taken, JobIds DEF SystemInv, Take, faultVars
  <2>2. worker' = worker \/ worker' = [worker EXCEPT ![h][Next1(h).id] = "announce"]
    BY <1>5 DEF Take, HandleJobCreated, HandleConfirmable, HandleRestartConfirmed
  <2> QED
    BY <1>3, <1>4, <2>1, <2>2 DEF WorkerAt
<1>6. ASSUME NEW h \in Host, NEW id \in DOMAIN jobs, AnnounceConfiguration(h, id)
      PROVE  ReadyKept
  <2>1. worker' = [worker EXCEPT ![h][id] = "installing"] /\ crashes' = crashes
    BY <1>6 DEF AnnounceConfiguration
  <2>2. /\ \A g \in Host : overlapped[g] \subseteq overlapped'[g]
        /\ \A g \in Host, k \in DOMAIN jobs : k \in installed[g] =>
              k \in installed'[g] \/ jobs[k].service \in overlapped'[g]
    BY <1>1, <1>6 DEF AnnounceConfiguration, BeginInstalling, JobsOf
  <2>3. \A g \in Host, k \in DOMAIN jobs : worker[g][k] # "none" => worker'[g][k] # "none"
    BY <1>1, <1>2, <2>1
  <2> QED
    BY <1>2, <2>1, <2>2, <2>3 DEF ReadyKept, Ready, Overlapped
<1>7. ASSUME NEW h \in Host, NEW id \in DOMAIN jobs, Configure(h, id)
      PROVE  ReadyKept
  <2>1. PICK outcome \in ConfigureOutcomes : worker' = [worker EXCEPT ![h][id] = outcome]
    BY <1>7 DEF Configure
  <2>2. outcome # "none"
    BY OutcomesAssumption DEF OutcomesAssumption, ConfigurationReport
  <2>3. /\ UNCHANGED <<overlapped, crashes>>
        /\ installed' = installed \/ installed' = [installed EXCEPT ![h] = @ \cup {id}]
    BY <1>7 DEF Configure, faultVars
  <2>4. \A g \in Host, k \in DOMAIN jobs : worker[g][k] # "none" => worker'[g][k] # "none"
    BY <1>1, <1>2, <2>1, <2>2
  <2>5. \A g \in Host : installed[g] \subseteq installed'[g]
    BY <1>1, <2>3
  <2> QED
    BY <1>2, <2>3, <2>4, <2>5 DEF ReadyKept, Ready, Overlapped
<1>8. ASSUME NEW h \in Host, NEW id \in DOMAIN jobs, ReportConfiguration(h, id)
      PROVE  ReadyKept
  <2>1. /\ UNCHANGED <<installed, overlapped, crashes>>
        /\ worker' = [worker EXCEPT ![h][id] = "done"]
    BY <1>8 DEF ReportConfiguration
  <2> QED
    BY <1>2, <1>4, <2>1 DEF WorkerAt
<1>9. ASSUME NEW h \in Host, Crash(h)
      PROVE  ReadyKept
  <2>1. crashes' # 0 /\ UNCHANGED <<installed, overlapped>>
    BY <1>9 DEF Crash, SystemInv, CountersTyped
  <2> QED
    BY <1>2, <2>1 DEF ReadyKept, Ready, Overlapped
<1>10. ASSUME NEW svc \in Service, NEW believe \in Believe, NEW targets \in TargetLists,
              SubmitJob(svc, believe, targets)
       PROVE  ReadyKept
  BY <1>3, <1>10 DEF SubmitJob, hostVars, faultVars
<1>11. ASSUME NEW id \in DOMAIN jobs, UserCancelJob(id)
       PROVE  ReadyKept
  BY <1>3, <1>11 DEF UserCancelJob, hostVars, faultVars
<1>12. CASE CommitLate
  BY <1>3, <1>12 DEF CommitLate, hostVars, faultVars
<1>13. ASSUME NEW h \in Host,
              ConfirmRestart(h) \/ AnnounceRestart(h) \/ Deploy(h) \/ ReportRestart(h)
       PROVE  ReadyKept
  BY <1>3, <1>13 DEF ConfirmRestart, AnnounceRestart, Deploy, ReportRestart, faultVars
<1>14. CASE UNCHANGED vars
  BY <1>3, <1>14 DEF vars
<1> QED
  BY <1>5, <1>6, <1>7, <1>8, <1>9, <1>10, <1>11, <1>12, <1>13, <1>14
     DEF SystemNext, ConsumerStep, WorkerStep

\* The parts of ReadyInv.
WorkersReady == \A h \in Host, id \in JobId : worker[h][id] = "SUCCESS" => Ready(h, id)
LateReady ==
    \A cmd \in late :
        cmd.kind = "configuration" /\ cmd.report = "SUCCESS" => Ready(cmd.host, cmd.id)
JobsReady ==
    \A id \in DOMAIN jobs, h \in Host :
        /\ h \in HostsOf(jobs[id])
        /\ jobs[id].configuration[h] = "SUCCESS" \/ WasConfigured(id)
        => Ready(h, id)

LEMMA ReadyParts == ReadyInv <=> WorkersReady /\ LateReady /\ JobsReady
BY DEF ReadyInv, WorkersReady, LateReady, JobsReady

LEMMA JobsReadyFrame ==
    ASSUME SystemInv, [Next]_jobs, JobsReady, ReadyKept, DOMAIN jobs' = DOMAIN jobs,
           \A id \in DOMAIN jobs :
              /\ jobs'[id].configuration = jobs[id].configuration
              /\ WasConfigured(id)' <=> WasConfigured(id)
    PROVE  JobsReady'
<1>1. \A id \in DOMAIN jobs : HostsOf(jobs'[id]) = HostsOf(jobs[id]) /\ id \in JobId
  BY HostsOfJob, JobsKept DEF SystemInv
<1> QED
  BY <1>1 DEF JobsReady, ReadyKept

LEMMA JobsReadyStill ==
    ASSUME SystemInv, JobsReady, ReadyKept, UNCHANGED <<jobs, log>>
    PROVE  JobsReady'
<1>1. \A id \in DOMAIN jobs : WasConfigured(id)' <=> WasConfigured(id)
  BY DEF WasConfigured
<1> QED
  BY <1>1, JobsReadyFrame

\* Committing anything; a host that is reported as configured is.
LEMMA JobsReadyAny ==
    ASSUME SystemInv, JobsReady, ReadyKept,
           NEW cmd \in Command, cmd.id \in DOMAIN jobs, Commit(cmd),
           cmd.kind = "configuration" /\ cmd.report = "SUCCESS" => Ready(cmd.host, cmd.id)
    PROVE  JobsReady'
<1>0. [Next]_jobs
  BY CommitStep DEF SystemInv
<1>1. CASE UNCHANGED <<jobs, log>>
  BY <1>1, JobsReadyStill
<1>2. CASE cmd.kind = "configuration" /\ CommitConfiguration(cmd.id, cmd.host, cmd.report)
  <2> DEFINE id == cmd.id
             h == cmd.host
             report == cmd.report
  <2>1. id \in DOMAIN jobs /\ h \in Host /\ report \in ConfigurationReport
        /\ CommitConfiguration(id, h, report)
        /\ (report = "SUCCESS" => Ready(h, id))
    BY <1>2, CommandKinds
  <2> HIDE DEF id, h, report
  <2>2. /\ h \in HostsOf(jobs[id])
        /\ DOMAIN jobs' = DOMAIN jobs
        /\ \A k \in DOMAIN jobs \ {id} : jobs'[k] = jobs[k]
        /\ jobs'[id].configuration = [jobs[id].configuration EXCEPT ![h] = report]
        /\ \/ log' = log
           \/ /\ \A g \in HostsOf(jobs[id]) : jobs'[id].configuration[g] = "SUCCESS"
              /\ Logged("AllHostConfigured", id, h)
    BY <2>1, ConfigurationCommitted DEF SystemInv
  <2>3. \A k \in DOMAIN jobs : HostsOf(jobs'[k]) = HostsOf(jobs[k]) /\ k \in JobId
    BY <1>0, HostsOfJob, JobsKept DEF SystemInv
  <2>4. \A g \in Host : /\ g \in HostsOf(jobs[id])
                        /\ jobs'[id].configuration[g] = "SUCCESS"
                        => Ready(g, id)'
    <3> SUFFICES ASSUME NEW g \in Host, g \in HostsOf(jobs[id]),
                        jobs'[id].configuration[g] = "SUCCESS"
                 PROVE  Ready(g, id)
      BY <2>1, <2>3 DEF ReadyKept
    <3>1. CASE g = h
      BY <2>1, <2>2, <3>1 DEF HostsOf
    <3>2. CASE g # h
      BY <2>1, <2>2, <3>2 DEF HostsOf, JobsReady
    <3> QED
      BY <3>1, <3>2
  <2>5. CASE log' = log
    <3>1. \A k : WasConfigured(k)' <=> WasConfigured(k)
      BY <2>5 DEF WasConfigured
    <3> QED
      BY <2>1, <2>2, <2>3, <2>4, <3>1 DEF JobsReady, ReadyKept
  <2>6. CASE /\ \A g \in HostsOf(jobs[id]) : jobs'[id].configuration[g] = "SUCCESS"
             /\ Logged("AllHostConfigured", id, h)
    <3>1. \A k : k # id => (WasConfigured(k)' <=> WasConfigured(k))
      BY <2>6, NowConfigured DEF SystemInv
    <3>2. \A g \in Host : g \in HostsOf(jobs[id]) => Ready(g, id)'
      BY <2>4, <2>6
    <3> QED
      BY <2>1, <2>2, <2>3, <3>1, <3>2 DEF JobsReady, ReadyKept
  <2> QED
    BY <2>2, <2>5, <2>6
<1>3. CASE cmd.kind = "restart" /\ CommitRestart(cmd.id)
  <2> DEFINE id == cmd.id
  <2>1. id \in DOMAIN jobs /\ CommitRestart(id)
    BY <1>3
  <2> HIDE DEF id
  <2>2. /\ DOMAIN jobs' = DOMAIN jobs
        /\ \A k \in DOMAIN jobs \ {id} : jobs'[k] = jobs[k]
        /\ jobs'[id].configuration = jobs[id].configuration
        /\ Logged("RestartConfirmed", id, OnProgress(jobs'[id]))
    BY <2>1, RestartCommitted DEF SystemInv
  <2>3. \A k : WasConfigured(k)' <=> WasConfigured(k)
    BY <2>2, WasConfiguredKept DEF SystemInv, Logged
  <2> QED
    BY <1>0, <2>2, <2>3, JobsReadyFrame
<1>4. CASE cmd.kind = "restarted" /\ CommitRestarted(cmd.id, cmd.host, cmd.report)
  <2> DEFINE id == cmd.id
             h == cmd.host
             report == cmd.report
  <2>1. id \in DOMAIN jobs /\ h \in Host /\ report \in RestartReport
        /\ CommitRestarted(id, h, report)
    BY <1>4, CommandKinds
  <2> HIDE DEF id, h, report
  <2>2. /\ DOMAIN jobs' = DOMAIN jobs
        /\ \A k \in DOMAIN jobs \ {id} : jobs'[k] = jobs[k]
        /\ jobs'[id].configuration = jobs[id].configuration
        /\ log' = log \/ Logged("ServiceRestarted", id, h)
    BY <2>1, RestartedCommitted DEF SystemInv, RestartReport
  <2>3. \A k : WasConfigured(k)' <=> WasConfigured(k)
    BY <2>2, WasConfiguredKept DEF SystemInv, Logged
  <2> QED
    BY <1>0, <2>2, <2>3, JobsReadyFrame
<1> QED
  BY <1>1, <1>2, <1>3, <1>4 DEF Commit

\* What a proposal given up by its caller adds to the late ones.
LEMMA LateReadyPublish ==
    ASSUME SystemInv, LateReady, ReadyKept,
           NEW cmd \in Command, cmd.id \in DOMAIN jobs, Publish(cmd),
           cmd.kind = "configuration" /\ cmd.report = "SUCCESS" => Ready(cmd.host, cmd.id)
    PROVE  LateReady'
<1>1. PICK c : c = [cmd EXCEPT !.n = timeouts]
  OBVIOUS
<1>2. late' = late \/ late' = late \cup {c}
  BY <1>1 DEF Publish
<1>3. /\ c.kind = cmd.kind /\ c.id = cmd.id
      /\ cmd.kind \in {"configuration", "restarted"} => c.host = cmd.host /\ c.report = cmd.report
  BY <1>1, SameContent
<1>4. cmd.kind = "configuration" => cmd.host \in Host
  BY CommandKinds
<1>5. \A d \in late : d \in Command /\ d.id \in DOMAIN jobs
                      /\ (d.kind = "configuration" => d.host \in Host)
  BY CommandKinds, JobIds DEF SystemInv, LateTyped
<1> QED
  BY <1>2, <1>3, <1>4, <1>5 DEF LateReady, ReadyKept

LEMMA LateReadyStill ==
    ASSUME SystemInv, LateReady, ReadyKept, late' \subseteq late
    PROVE  LateReady'
<1>1. \A d \in late : d \in Command /\ d.id \in DOMAIN jobs
                      /\ (d.kind = "configuration" => d.host \in Host)
  BY CommandKinds, JobIds DEF SystemInv, LateTyped
<1> QED
  BY <1>1 DEF LateReady, ReadyKept

LEMMA JobsReadyPublish ==
    ASSUME SystemInv, JobsReady, ReadyKept,
           NEW cmd \in Command, cmd.id \in DOMAIN jobs, Publish(cmd),
           cmd.kind = "configuration" /\ cmd.report = "SUCCESS" => Ready(cmd.host, cmd.id)
    PROVE  JobsReady'
<1>1. CASE Commit(cmd)
  BY <1>1, JobsReadyAny
<1>2. CASE UNCHANGED <<jobs, log>>
  BY <1>2, JobsReadyStill
<1> QED
  BY <1>1, <1>2 DEF Publish

LEMMA WorkersReadyStill ==
    ASSUME OutcomeInv, WorkersReady, ReadyKept,
           \A h \in Host, id \in JobId : worker'[h][id] = "SUCCESS" => worker[h][id] = "SUCCESS"
    PROVE  WorkersReady'
BY DEF OutcomeInv, WorkersReady, ReadyKept

LEMMA ReadyStep ==
    ASSUME SystemInv, OutcomeInv, ReadyInv, [SystemNext]_vars
    PROVE  ReadyInv'
<1>1. [Next]_jobs /\ SystemInv' /\ ReadyKept
  BY SystemStep, ReadyStays
<1>2. WorkersReady /\ LateReady /\ JobsReady
  BY ReadyParts
<1>3. worker \in [Host -> [JobId -> WorkerAt]] /\ installed \in [Host -> SUBSET JobId]
  BY DEF SystemInv, WorkerTyped
<1> USE <1>1, <1>2, <1>3
<1> SUFFICES WorkersReady' /\ LateReady' /\ JobsReady'
  <2>1. ReadyInv' <=> WorkersReady' /\ LateReady' /\ JobsReady'
    BY DEF ReadyInv, WorkersReady, LateReady, JobsReady
  <2> QED
    BY <2>1
<1>4. CASE UNCHANGED vars
  <2>1. UNCHANGED <<jobs, log, worker, late>>
    BY <1>4 DEF vars
  <2> QED
    BY <2>1, WorkersReadyStill, LateReadyStill, JobsReadyStill
<1>5. ASSUME NEW svc \in Service, NEW believe \in Believe, NEW targets \in TargetLists,
             SubmitJob(svc, believe, targets)
      PROVE  WorkersReady' /\ LateReady' /\ JobsReady'
  <2>1. UNCHANGED <<worker, late>>
    BY <1>5 DEF SubmitJob, hostVars
  <2>2. PICK n \in JobId :
           /\ n \notin DOMAIN jobs /\ DOMAIN jobs' = DOMAIN jobs \cup {n}
           /\ \A h \in HostsOf(jobs'[n]) : jobs'[n].configuration[h] = "PENDING"
           /\ ~WasConfigured(n)'
    BY <1>5, Submitted
  <2>3. /\ \A id \in DOMAIN jobs : jobs'[id] = jobs[id]
        /\ \A id : WasConfigured(id)' <=> WasConfigured(id)
    BY <1>5, Submitted
  <2>4. JobsReady'
    BY <2>2, <2>3, JobIds DEF JobsReady, ReadyKept, SystemInv
  <2> QED
    BY <2>1, <2>4, WorkersReadyStill, LateReadyStill
<1>6. ASSUME NEW id \in DOMAIN jobs, UserCancelJob(id)
      PROVE  WorkersReady' /\ LateReady' /\ JobsReady'
  <2>1. UNCHANGED <<log, worker, late>>
    BY <1>6 DEF UserCancelJob, hostVars
  <2>2. PICK target : jobs' = [jobs EXCEPT ![target] = Cancelled(@)]
    BY <1>6 DEF UserCancelJob, CancelJob
  <2>3. \A k \in DOMAIN jobs : jobs[k] \in Job
    BY DEF SystemInv, IInv
  <2>4. /\ DOMAIN jobs' = DOMAIN jobs
        /\ \A k \in DOMAIN jobs : jobs'[k].configuration = jobs[k].configuration
    BY <2>2, <2>3 DEF Cancelled, Job
  <2>5. \A k : WasConfigured(k)' <=> WasConfigured(k)
    BY <2>1 DEF WasConfigured
  <2> QED
    BY <2>1, <2>4, <2>5, WorkersReadyStill, LateReadyStill, JobsReadyFrame
<1>7. CASE CommitLate
  <2>1. PICK cmd \in late :
           Commit(cmd) /\ late' = late \ {cmd} /\ UNCHANGED <<hostVars, cancels, faultVars>>
    BY <1>7 DEF CommitLate
  <2>2. cmd \in Command /\ cmd.id \in DOMAIN jobs
    BY DEF SystemInv, LateTyped
  <2>3. cmd.kind = "configuration" /\ cmd.report = "SUCCESS" => Ready(cmd.host, cmd.id)
    BY DEF LateReady
  <2>4. worker' = worker
    BY <2>1 DEF hostVars
  <2> QED
    BY <2>1, <2>2, <2>3, <2>4, WorkersReadyStill, LateReadyStill, JobsReadyAny
<1>8. ASSUME NEW h \in Host, ConfirmRestart(h) \/ AnnounceRestart(h) \/ ReportRestart(h)
      PROVE  WorkersReady' /\ LateReady' /\ JobsReady'
  <2>1. PICK cmd \in Command :
           /\ cmd.id \in DOMAIN jobs /\ cmd.kind # "configuration" /\ Publish(cmd)
           /\ UNCHANGED <<cursor, worker>>
    BY <1>8, ConsumerCommand
  <2>2. cmd.id \in JobId
    BY <2>1, JobIds DEF SystemInv
  <2> QED
    BY <2>1, <2>2, WorkersReadyStill, LateReadyPublish, JobsReadyPublish
<1>9. ASSUME NEW h \in Host, Take(h) \/ Deploy(h) \/ Crash(h)
      PROVE  WorkersReady' /\ LateReady' /\ JobsReady'
  <2>1. UNCHANGED <<jobs, log, late>>
    BY <1>9 DEF Take, Deploy, Crash
  <2>2. \A g \in Host, id \in JobId :
           worker'[g][id] = "SUCCESS" => worker[g][id] = "SUCCESS"
    <3>1. CASE Take(h)
      <4>1. Next1(h).id \in JobId
        BY <3>1, Taken, JobIds DEF SystemInv
      <4>2. worker' = worker \/ worker' = [worker EXCEPT ![h][Next1(h).id] = "announce"]
        BY <3>1 DEF Take, HandleJobCreated, HandleConfirmable, HandleRestartConfirmed
      <4> QED
        BY <4>1, <4>2
    <3>2. CASE Deploy(h)
      BY <3>2 DEF Deploy
    <3>3. CASE Crash(h)
      BY <3>3 DEF Crash
    <3> QED
      BY <1>9, <3>1, <3>2, <3>3
  <2> QED
    BY <2>1, <2>2, WorkersReadyStill, LateReadyStill, JobsReadyStill
<1>10. ASSUME NEW h \in Host, NEW id \in DOMAIN jobs,
              AnnounceConfiguration(h, id) \/ ReportConfiguration(h, id)
       PROVE  WorkersReady' /\ LateReady' /\ JobsReady'
  <2>1. id \in JobId
    BY JobIds DEF SystemInv
  <2>2. PICK cmd \in Command :
           /\ cmd.id = id /\ cmd.host = h
           /\ cmd.report \in {"CONFIGURING", worker[h][id]}
           /\ Publish(cmd)
    BY <1>10, WorkerCommand
  <2>3. cmd.report = "SUCCESS" => Ready(cmd.host, cmd.id)
    BY <2>1, <2>2 DEF WorkersReady
  <2>4. \A g \in Host, k \in JobId :
           worker'[g][k] = "SUCCESS" => worker[g][k] = "SUCCESS"
    <3>1. \E at \in {"installing", "done"} : worker' = [worker EXCEPT ![h][id] = at]
      BY <1>10 DEF AnnounceConfiguration, ReportConfiguration
    <3> QED
      BY <2>1, <3>1
  <2> QED
    BY <2>1, <2>2, <2>3, <2>4, WorkersReadyStill, LateReadyPublish, JobsReadyPublish
<1>11. ASSUME NEW h \in Host, NEW id \in DOMAIN jobs, Configure(h, id)
       PROVE  WorkersReady' /\ LateReady' /\ JobsReady'
  <2>1. id \in JobId /\ UNCHANGED <<jobs, log, late>>
    BY <1>11, JobIds DEF SystemInv, Configure
  <2>2. PICK outcome \in ConfigureOutcomes :
           /\ worker' = [worker EXCEPT ![h][id] = outcome]
           /\ outcome = "SUCCESS" /\ ~Overlapped(h, id)
                 => installed' = [installed EXCEPT ![h] = @ \cup {id}]
           /\ overlapped' = overlapped
    BY <1>11 DEF Configure
  <2>3. outcome # "none"
    BY OutcomesAssumption DEF OutcomesAssumption, ConfigurationReport
  <2>4. outcome = "SUCCESS" => Ready(h, id)'
    BY <2>1, <2>2, <2>3 DEF Ready, Overlapped
  <2>5. WorkersReady'
    BY <2>1, <2>2, <2>4 DEF OutcomeInv, WorkersReady, ReadyKept
  <2> QED
    BY <2>1, <2>5, LateReadyStill, JobsReadyStill
<1> QED
  BY <1>4, <1>5, <1>6, <1>7, <1>8, <1>9, <1>10, <1>11
     DEF SystemNext, ConsumerStep, WorkerStep

-----------------------------------------------------------------------------

ReportingInv == SystemInv /\ OutcomeInv /\ CountedInv /\ ReadyInv

LEMMA ReportingInit == SystemInit => ReportingInv
<1> SUFFICES ASSUME SystemInit
             PROVE  ReportingInv
  OBVIOUS
<1>1. SystemInv
  BY SystemInitInv
<1>2. jobs = <<>> /\ log = <<>> /\ late = {}
      /\ worker = [h \in Host |-> [id \in JobId |-> "none"]]
  BY DEF SystemInit, Init
<1>3. \A h \in Host, id \in JobId :
         CreatedFor(h, id) = {} /\ WorkersFor(h, id) = {} /\ OutcomesFor(h, id) = {}
  BY <1>2 DEF CreatedFor, WorkersFor, OutcomesFor, Outcome
<1>4. OutcomeInv
  BY <1>2, <1>3 DEF OutcomeInv, AtMostOneOf
<1>5. CountedInv /\ ReadyInv
  BY <1>2 DEF CountedInv, ReadyInv
<1> QED
  BY <1>1, <1>4, <1>5 DEF ReportingInv

LEMMA ReportingStep ==
    ASSUME ReportingInv, [SystemNext]_vars
    PROVE  ReportingInv' /\ GoesOn
<1>1. SystemInv'
  BY SystemStep DEF ReportingInv
<1>2. OutcomeInv' /\ CountedInv' /\ GoesOn
  BY OutcomeStep DEF ReportingInv
<1>3. ReadyInv'
  BY ReadyStep DEF ReportingInv
<1> QED
  BY <1>1, <1>2, <1>3 DEF ReportingInv

\* Every host reports one outcome, and one that reports success is ready, in
\* every behaviour of the cluster.
THEOREM ReportingInvariance == SystemSpec => []ReportingInv
<1>1. ReportingInv /\ [SystemNext]_vars => ReportingInv'
  BY ReportingStep
<1> QED
  BY ReportingInit, <1>1, PTL DEF SystemSpec

\* No late, lost or reordered report puts a job that restarts services back to
\* CONFIGURED, which would begin the restart over (NeverStartsOver).
THEOREM JobsNeverStartOver == SystemSpec => NeverStartsOver
<1>1. ReportingInv /\ [SystemNext]_vars =>
         [\A id \in DOMAIN jobs :
             jobs[id].status \in {"DEPLOYING", "DEPLOYED", "FAILED"}
                 => jobs'[id].status # "CONFIGURED"]_vars
  BY ReportingStep DEF GoesOn
<1> QED
  BY <1>1, ReportingInvariance, PTL DEF SystemSpec, NeverStartsOver
=============================================================================
