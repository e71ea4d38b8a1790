------------------------- MODULE DeploydRuns_proofs -------------------------
(***************************************************************************)
(* Proofs about the builds that run on the hosts, for any hosts, services, *)
(* target lists and any number of jobs, timeouts, crashes and              *)
(* cancellations.  A deployed job runs on its hosts: whoever says that a   *)
(* host was restarted says so of a running build (RunsInv), and the        *)
(* application only believes who has the turn.  And builds spread in the   *)
(* order of their job: one runs where a host was told to restart for it,   *)
(* and the hosts told are those up to the current order (SpreadInv).  Last, *)
(* the events of a job follow one script, whatever becomes of the job: its *)
(* hosts are told and restart in turn, each once (ScriptInv).              *)
(***************************************************************************)
EXTENDS DeploydTurn_proofs
-----------------------------------------------------------------------------
(* What a step does to a job.                                              *)

\* A job that began to restart services has begun for good.
LEMMA OrdersKept ==
    ASSUME IInv, [Next]_jobs, NEW id \in DOMAIN jobs
    PROVE  jobs'[id].currentOrder = NilOrder => jobs[id].currentOrder = NilOrder
<1>1. /\ jobs \in Seq(Job) /\ jobs[id] \in Job
      /\ \A k \in DOMAIN jobs : jobs[k] \in Job /\ GoodJob(jobs[k])
  BY DEF IInv, GoodJob
<1>2. CASE UNCHANGED jobs
  BY <1>2
<1>3. ASSUME NEW svc \in Service, NEW believe \in BOOLEAN, NEW targets \in TargetLists,
             UserSubmitJob(svc, believe, targets)
      PROVE  jobs'[id] = jobs[id]
  <2>1. jobs' = Append(jobs, NewJob(svc, believe, targets))
    BY <1>3 DEF UserSubmitJob
  <2>2. NewJob(svc, believe, targets) \in Job
    BY <1>3, NewJobGood DEF UserSubmitJob, GoodJob
  <2> QED
    BY <1>1, <2>1, <2>2
<1>4. ASSUME NEW k, CancelJob(k)
      PROVE  jobs'[id].currentOrder = jobs[id].currentOrder
  <2>1. PICK t : jobs' = [jobs EXCEPT ![t] = Cancelled(@)]
    BY <1>4 DEF CancelJob
  <2> QED
    BY <1>1, <2>1 DEF Cancelled, Job
<1>5. ASSUME NEW k \in DOMAIN jobs, NEW h \in Host, NEW report \in ConfigurationReport,
             HostConfigurationUpdate(k, h, report)
      PROVE  jobs'[id].currentOrder = jobs[id].currentOrder
  <2>1. jobs' = [jobs EXCEPT ![k] = ConfigurationUpdated(@, h, report)]
    BY <1>5 DEF HostConfigurationUpdate
  <2> QED
    BY <1>1, <2>1 DEF ConfigurationUpdated, Job
<1>6. ASSUME NEW k \in DOMAIN jobs, Restart(k)
      PROVE  jobs'[id].currentOrder \in {0, jobs[id].currentOrder}
  <2>1. jobs' = [jobs EXCEPT ![k] = Restarted(@)]
    BY <1>6 DEF Restart
  <2> QED
    BY <1>1, <2>1 DEF Restarted, Job
<1>7. ASSUME NEW k \in DOMAIN jobs, NEW h \in Host, NEW report \in RestartReport,
             HostRestartServiceUpdate(k, h, report)
      PROVE  \/ jobs'[id].currentOrder = jobs[id].currentOrder
             \/ /\ jobs[id].currentOrder \in Nat
                /\ jobs'[id].currentOrder = jobs[id].currentOrder + 1
  <2>1. jobs' = [jobs EXCEPT ![k] = RestartUpdated(@, h, report)]
    BY <1>7 DEF HostRestartServiceUpdate
  <2>2. jobs[k].status = "DEPLOYING"
    BY <1>7 DEF HostRestartServiceUpdate, AcceptsRestartUpdate
  <2>3. jobs[k].currentOrder \in Nat
    BY <1>1, <2>2 DEF GoodJob, JobInv
  <2>4. CASE k = id
    <3>1. jobs'[id] = RestartUpdated(jobs[id], h, report)
      BY <2>1, <2>4
    <3>2. CASE report = "FAILED"
      BY <1>1, <3>1, <3>2 DEF RestartUpdated, Job
    <3>3. CASE report = "RESTARTING"
      BY <1>1, <3>1, <3>3 DEF RestartUpdated, Job
    <3>4. CASE report = "SUCCESS"
      BY <1>1, <2>3, <2>4, <3>1, <3>4 DEF RestartUpdated, Job
    <3> QED
      BY <3>2, <3>3, <3>4 DEF RestartReport
  <2>5. CASE k # id
    BY <1>1, <2>1, <2>5
  <2> QED
    BY <2>4, <2>5
<1>8. CASE UNCHANGED jobs \/ jobs'[id].currentOrder = jobs[id].currentOrder
  BY <1>8
<1> QED
  BY <1>2, <1>3, <1>4, <1>5, <1>6, <1>7, <1>8 DEF Next, NilOrder

\* A job without rivals had none before.
LEMMA UnrivalledBefore ==
    ASSUME IInv, [Next]_jobs, NEW id \in DOMAIN jobs, Unrivalled(id)'
    PROVE  Unrivalled(id)
<1>1. \A k \in DOMAIN jobs :
         /\ k \in DOMAIN jobs'
         /\ jobs'[k].service = jobs[k].service
         /\ jobs'[k].currentOrder = NilOrder => jobs[k].currentOrder = NilOrder
  BY JobsKept, OrdersKept
<1> QED
  BY <1>1 DEF Unrivalled, JobsOf

\* A report counts when it comes from whoever says so of the host in turn.
Reported(id, h) ==
    \/ h \in TurnConsumers(id) /\ consumer[h].at = "SUCCESS"
    \/ \E cmd \in TurnLate(id) :
          cmd.kind = "restarted" /\ cmd.report = "SUCCESS" /\ cmd.host = h

\* How a job may move on.
MovesOn(id, advances) ==
    \/ jobs'[id].status = jobs[id].status /\ jobs'[id].currentOrder = jobs[id].currentOrder
    \/ jobs'[id].status \notin {"DEPLOYING", "DEPLOYED"}
    \/ jobs'[id].status = "DEPLOYING" /\ jobs'[id].currentOrder = 0
    \/ /\ jobs[id].status = "DEPLOYING" /\ jobs[id].currentOrder \in Nat
       /\ jobs'[id].currentOrder = jobs[id].currentOrder + 1
       /\ advances

LEMMA CommitMovesOn ==
    ASSUME SystemInv, NEW cmd \in Command, cmd.id \in DOMAIN jobs, Commit(cmd),
           NEW id \in DOMAIN jobs
    PROVE  MovesOn(id, /\ cmd.kind = "restarted" /\ cmd.report = "SUCCESS" /\ cmd.id = id
                       /\ cmd.host = OnProgress(jobs[id]))
<1> DEFINE advances == /\ cmd.kind = "restarted" /\ cmd.report = "SUCCESS" /\ cmd.id = id
                       /\ cmd.host = OnProgress(jobs[id])
<1>1. CASE UNCHANGED <<jobs, log>>
  BY <1>1 DEF MovesOn
<1>2. CASE cmd.kind = "configuration" /\ CommitConfiguration(cmd.id, cmd.host, cmd.report)
  <2>1. PICK k, h, report : k = cmd.id /\ h = cmd.host /\ report = cmd.report
    OBVIOUS
  <2>2. k \in DOMAIN jobs /\ h \in Host /\ report \in ConfigurationReport
        /\ CommitConfiguration(k, h, report)
    BY <1>2, <2>1, CommandKinds
  <2>3. /\ \A j \in DOMAIN jobs \ {k} : jobs'[j] = jobs[j]
        /\ jobs'[k].currentOrder = jobs[k].currentOrder
        /\ jobs'[k].status \in {jobs[k].status, "CONFIGURED"}
    BY <2>2, ConfigurationCommitted DEF SystemInv
  <2> QED
    BY <2>3 DEF MovesOn
<1>3. CASE cmd.kind = "restart" /\ CommitRestart(cmd.id)
  <2>1. PICK k : k = cmd.id
    OBVIOUS
  <2>2. k \in DOMAIN jobs /\ CommitRestart(k)
    BY <1>3, <2>1
  <2>3. /\ jobs[k].status \in {"CONFIGURED", "DEPLOYING"}
        /\ \A j \in DOMAIN jobs \ {k} : jobs'[j] = jobs[j]
        /\ jobs'[k].status = "DEPLOYING"
        /\ jobs'[k].currentOrder =
              IF jobs[k].status = "CONFIGURED" THEN 0 ELSE jobs[k].currentOrder
    BY <2>2, RestartCommitted DEF SystemInv
  <2> QED
    BY <2>3 DEF MovesOn
<1>4. CASE cmd.kind = "restarted" /\ CommitRestarted(cmd.id, cmd.host, cmd.report)
  <2>1. PICK k, h, report : k = cmd.id /\ h = cmd.host /\ report = cmd.report
    OBVIOUS
  <2>2. k \in DOMAIN jobs /\ h \in Host /\ report \in RestartReport
        /\ CommitRestarted(k, h, report)
    BY <1>4, <2>1, CommandKinds
  <2>3. /\ jobs[k].status = "DEPLOYING" /\ OnProgress(jobs[k]) = h
        /\ jobs[k].currentOrder \in 0..(Len(jobs[k].hostOrder) - 1)
        /\ \A j \in DOMAIN jobs \ {k} : jobs'[j] = jobs[j]
        /\ report = "FAILED" => jobs'[k].status = "FAILED"
        /\ report = "RESTARTING" =>
              jobs'[k].status = "DEPLOYING" /\ jobs'[k].currentOrder = jobs[k].currentOrder
        /\ report = "SUCCESS" => jobs'[k].currentOrder = jobs[k].currentOrder + 1
    BY <2>2, RestartedCommitted DEF SystemInv, RestartReport
  <2>4. jobs[k].currentOrder \in Nat
    BY <2>3
  <2> QED
    BY <1>4, <2>1, <2>2, <2>3, <2>4 DEF MovesOn, RestartReport
<1> QED
  BY <1>1, <1>2, <1>3, <1>4 DEF Commit

LEMMA StepMovesOn ==
    ASSUME ClusterInv, [SystemNext]_vars, NEW id \in DOMAIN jobs
    PROVE  MovesOn(id, Reported(id, OnProgress(jobs[id])))
<1>1. SystemInv
  BY DEF ClusterInv, ReportingInv
<1>2. CASE UNCHANGED jobs
  BY <1>2 DEF MovesOn
<1>3. ASSUME NEW svc \in Service, NEW believe \in Believe, NEW targets \in TargetLists,
             SubmitJob(svc, believe, targets)
      PROVE  MovesOn(id, Reported(id, OnProgress(jobs[id])))
  <2>1. [Next]_jobs
    BY <1>1, SystemStep
  <2>2. jobs'[id] = jobs[id]
    BY <1>1, <1>3, <2>1, Submitted
  <2> QED
    BY <2>2 DEF MovesOn
<1>4. ASSUME NEW k \in DOMAIN jobs, UserCancelJob(k)
      PROVE  MovesOn(id, Reported(id, OnProgress(jobs[id])))
  <2>1. PICK target : jobs' = [jobs EXCEPT ![target] = Cancelled(@)]
    BY <1>4 DEF UserCancelJob, CancelJob
  <2>2. jobs[id] \in Job
    BY <1>1 DEF SystemInv, IInv
  <2> QED
    BY <2>1, <2>2 DEF MovesOn, Cancelled, Job
<1>5. CASE CommitLate
  <2>1. PICK cmd \in late : Commit(cmd)
    BY <1>5 DEF CommitLate
  <2>2. cmd \in Command /\ cmd.id \in DOMAIN jobs
    BY <1>1 DEF SystemInv, LateTyped
  <2>3. MovesOn(id, /\ cmd.kind = "restarted" /\ cmd.report = "SUCCESS" /\ cmd.id = id
                    /\ cmd.host = OnProgress(jobs[id]))
    BY <1>1, <2>1, <2>2, CommitMovesOn
  <2> QED
    BY <2>3 DEF MovesOn, Reported, TurnLate
<1>6. ASSUME NEW h \in Host, ConfirmRestart(h) \/ AnnounceRestart(h) \/ ReportRestart(h)
      PROVE  MovesOn(id, Reported(id, OnProgress(jobs[id])))
  <2>1. PICK cmd \in Command :
           /\ cmd.id = consumer[h].id /\ cmd.id \in DOMAIN jobs
           /\ Publish(cmd)
           /\ cmd.kind = "restarted" /\ cmd.report = "SUCCESS" =>
                 cmd.host = h /\ consumer[h].at = "SUCCESS"
    BY <1>1, <1>6, ConsumerCommand
  <2>2. CASE Commit(cmd)
    <3>1. MovesOn(id, /\ cmd.kind = "restarted" /\ cmd.report = "SUCCESS" /\ cmd.id = id
                      /\ cmd.host = OnProgress(jobs[id]))
      BY <1>1, <2>1, <2>2, CommitMovesOn
    <3>2. cmd.kind = "restarted" /\ cmd.report = "SUCCESS" /\ cmd.id = id
             => h \in TurnConsumers(id) /\ consumer[h].at = "SUCCESS" /\ cmd.host = h
      <4>1. consumer[h].at = "SUCCESS" => consumer[h] # Idle
        BY DEF Idle
      <4> QED
        BY <2>1, <4>1 DEF TurnConsumers
    <3> QED
      BY <3>1, <3>2 DEF MovesOn, Reported
  <2>3. CASE UNCHANGED jobs
    BY <1>2, <2>3
  <2> QED
    BY <2>1, <2>2, <2>3 DEF Publish
<1>7. ASSUME NEW h \in Host, NEW k \in DOMAIN jobs, WorkerStep(h, k)
      PROVE  MovesOn(id, Reported(id, OnProgress(jobs[id])))
  <2>1. CASE Configure(h, k)
    BY <1>2, <2>1 DEF Configure
  <2>2. CASE AnnounceConfiguration(h, k) \/ ReportConfiguration(h, k)
    <3>1. PICK cmd \in Command : cmd.id = k /\ cmd.kind = "configuration" /\ Publish(cmd)
      BY <1>1, <2>2, WorkerCommand
    <3>2. CASE Commit(cmd)
      <4>1. MovesOn(id, /\ cmd.kind = "restarted" /\ cmd.report = "SUCCESS" /\ cmd.id = id
                        /\ cmd.host = OnProgress(jobs[id]))
        BY <1>1, <3>1, <3>2, CommitMovesOn
      <4> QED
        BY <3>1, <4>1 DEF MovesOn
    <3> QED
      BY <1>2, <3>1, <3>2 DEF Publish
  <2> QED
    BY <1>7, <2>1, <2>2 DEF WorkerStep
<1>8. ASSUME NEW h \in Host, Take(h) \/ Deploy(h) \/ Crash(h)
      PROVE  UNCHANGED jobs
  BY <1>8 DEF Take, Deploy, Crash
<1> QED
  BY <1>2, <1>3, <1>4, <1>5, <1>6, <1>7, <1>8 DEF SystemNext, ConsumerStep, vars

-----------------------------------------------------------------------------
(* What a step does to the services.                                       *)

\* Only the host that restarts for a job changes what runs for it.
LEMMA RunningKept ==
    ASSUME ClusterInv, [SystemNext]_vars, NEW id \in DOMAIN jobs, Unrivalled(id),
           NEW g \in Host, RunsOn(g, id), g \notin Restarting(id)
    PROVE  RunsOn(g, id)'
<1>1. SystemInv
  BY DEF ClusterInv, ReportingInv
<1>2. [Next]_jobs
  BY <1>1, SystemStep
<1>3. jobs'[id].service = jobs[id].service
  BY <1>1, <1>2, JobsKept DEF SystemInv
<1>4. running \in [Host -> [Service -> SUBSET (JobId \cup {Down})]]
  BY <1>1 DEF SystemInv, WorkerTyped
<1>5. CASE UNCHANGED running
  BY <1>3, <1>5 DEF RunsOn
<1>6. ASSUME NEW h \in Host, consumer[h].at = "deploying",
             NEW now, running' = [running EXCEPT ![h][jobs[consumer[h].id].service] = now]
      PROVE  RunsOn(g, id)'
  <2>1. PICK k : k = consumer[h].id
    OBVIOUS
  <2>2. consumer[h] # Idle
    BY <1>6 DEF Idle
  <2>3. k \in DOMAIN jobs
    BY <1>1, <2>1, <2>2 DEF SystemInv, ConsumerTyped
  <2>4. RestartsAt(k, h)
    BY <1>6, <2>1, <2>2 DEF RestartsAt, TurnConsumers
  <2>5. jobs[k].currentOrder # NilOrder
    BY <2>3, <2>4 DEF ClusterInv, TurnInv, OneTurn
  <2>6. k = id \/ jobs[k].service # jobs[id].service
    BY <2>3, <2>5 DEF Unrivalled, JobsOf
  <2>7. h = g => k # id
    <3>1. consumer \in [Host -> [at : ConsumerAt, id : JobId \cup {NoJobId}]]
      BY <1>1 DEF SystemInv, ConsumerTyped
    <3>2. h = g /\ k = id => consumer[g] = [at |-> "deploying", id |-> id]
      BY <1>6, <2>1, <3>1
    <3> QED
      BY <3>2 DEF Restarting
  <2>8. running'[g][jobs[id].service] = running[g][jobs[id].service]
    BY <1>4, <1>6, <2>1, <2>6, <2>7
  <2> QED
    BY <1>3, <2>8 DEF RunsOn
<1>7. ASSUME NEW h \in Host, Deploy(h)
      PROVE  RunsOn(g, id)'
  BY <1>5, <1>6, <1>7 DEF Deploy, Disturbed
<1>8. ASSUME NEW h \in Host, Crash(h)
      PROVE  RunsOn(g, id)'
  BY <1>5, <1>6, <1>8 DEF Crash, Disturbed
<1>9. ASSUME NEW h \in Host,
             Take(h) \/ ConfirmRestart(h) \/ AnnounceRestart(h) \/ ReportRestart(h)
      PROVE  UNCHANGED running
  BY <1>9 DEF Take, ConfirmRestart, AnnounceRestart, ReportRestart
<1>10. ASSUME NEW h \in Host, NEW k, WorkerStep(h, k)
       PROVE  UNCHANGED running
  BY <1>10 DEF WorkerStep, AnnounceConfiguration, Configure, ReportConfiguration
<1>11. CASE CommitLate \/ UNCHANGED vars
  BY <1>11, <1>5 DEF CommitLate, hostVars, vars
<1>12. ASSUME NEW svc, NEW believe, NEW targets, SubmitJob(svc, believe, targets)
       PROVE  UNCHANGED running
  BY <1>12 DEF SubmitJob, hostVars
<1>13. ASSUME NEW k, UserCancelJob(k)
       PROVE  UNCHANGED running
  BY <1>13 DEF UserCancelJob, hostVars
<1> QED
  BY <1>5, <1>7, <1>8, <1>9, <1>10, <1>11, <1>12, <1>13 DEF SystemNext, ConsumerStep

\* Whoever begins to say that a host was restarted, just restarted it.
LEMMA ConsumerRuns ==
    ASSUME ClusterInv, [SystemNext]_vars, NEW id \in DOMAIN jobs, NEW h \in Host,
           h \in TurnConsumers(id)', consumer'[h].at = "SUCCESS"
    PROVE  \/ h \in TurnConsumers(id) /\ consumer[h].at = "SUCCESS"
           \/ RunsOn(h, id)'
<1>1. /\ SystemInv
      /\ consumer \in [Host -> [at : ConsumerAt, id : JobId \cup {NoJobId}]]
      /\ running \in [Host -> [Service -> SUBSET (JobId \cup {Down})]]
  BY DEF ClusterInv, ReportingInv, SystemInv, ConsumerTyped, WorkerTyped
<1>2. CASE consumer'[h] = consumer[h]
  BY <1>2 DEF TurnConsumers
<1>3. CASE Deploy(h)
  <2>1. PICK k : k = consumer[h].id
    OBVIOUS
  <2>2. PICK at : /\ consumer' = [consumer EXCEPT ![h].at = at]
                  /\ at = "SUCCESS" => running' = [running EXCEPT ![h][jobs[k].service] = {k}]
                  /\ UNCHANGED jobs
    BY <1>3, <2>1 DEF Deploy, GoTo
  <2>3. consumer'[h].at = at /\ consumer'[h].id = k
    BY <1>1, <2>1, <2>2
  <2>4. k = id /\ at = "SUCCESS"
    BY <2>3 DEF TurnConsumers
  <2>5. jobs[id].service \in Service
    BY <1>1, JobService DEF SystemInv
  <2>6. running'[h][jobs[id].service] = {id}
    BY <1>1, <2>2, <2>4, <2>5
  <2> QED
    BY <2>2, <2>6 DEF RunsOn
<1>4. ASSUME NEW g \in Host, Deploy(g), g # h
      PROVE  consumer'[h] = consumer[h]
  <2>1. PICK at : consumer' = [consumer EXCEPT ![g].at = at]
    BY <1>4 DEF Deploy, GoTo
  <2> QED
    BY <1>1, <1>4, <2>1
<1>5. ASSUME NEW g \in Host, NEW c, consumer' = [consumer EXCEPT ![g] = c],
             c.at # "SUCCESS"
      PROVE  consumer'[h] = consumer[h]
  BY <1>1, <1>5
<1>6. ASSUME NEW g \in Host, Take(g)
      PROVE  consumer'[h] = consumer[h]
  <2>1. \/ consumer' = consumer
        \/ \E at \in {"confirm", "announce"} : \E k :
              consumer' = [consumer EXCEPT ![g] = [at |-> at, id |-> k]]
    BY <1>6 DEF Take, HandleJobCreated, HandleConfirmable, HandleRestartConfirmed
  <2>2. ASSUME NEW at \in {"confirm", "announce"}, NEW k,
               consumer' = [consumer EXCEPT ![g] = [at |-> at, id |-> k]]
        PROVE  consumer'[h] = consumer[h]
    <3>1. PICK c : c = [at |-> at, id |-> k]
      OBVIOUS
    <3>2. c.at # "SUCCESS"
      BY <3>1
    <3> QED
      BY <1>5, <2>2, <3>1, <3>2
  <2> QED
    BY <2>1, <2>2
<1>7. ASSUME NEW g \in Host, ConfirmRestart(g) \/ ReportRestart(g) \/ Crash(g)
      PROVE  consumer'[h] = consumer[h]
  <2>1. consumer' = [consumer EXCEPT ![g] = Idle]
    BY <1>7 DEF ConfirmRestart, ReportRestart, Crash, GoIdle
  <2>2. Idle.at # "SUCCESS"
    BY DEF Idle
  <2> QED
    BY <1>5, <2>1, <2>2
<1>8. ASSUME NEW g \in Host, AnnounceRestart(g)
      PROVE  consumer'[h] = consumer[h]
  <2>1. consumer' = [consumer EXCEPT ![g].at = "deploying"]
    BY <1>8 DEF AnnounceRestart, GoTo
  <2> QED
    BY <1>1, <2>1
<1>9. ASSUME NEW g \in Host, NEW k, WorkerStep(g, k)
      PROVE  UNCHANGED consumer
  BY <1>9 DEF WorkerStep, AnnounceConfiguration, Configure, ReportConfiguration
<1>10. CASE CommitLate \/ UNCHANGED vars
  BY <1>2, <1>10 DEF CommitLate, hostVars, vars
<1>11. ASSUME NEW svc, NEW believe, NEW targets, SubmitJob(svc, believe, targets)
       PROVE  UNCHANGED consumer
  BY <1>11 DEF SubmitJob, hostVars
<1>12. ASSUME NEW k, UserCancelJob(k)
       PROVE  UNCHANGED consumer
  BY <1>12 DEF UserCancelJob, hostVars
<1> QED
  BY <1>2, <1>3, <1>4, <1>6, <1>7, <1>8, <1>9, <1>10, <1>11, <1>12
     DEF SystemNext, ConsumerStep

\* A late report of success was a goroutine's.
LEMMA LateRuns ==
    ASSUME ClusterInv, [SystemNext]_vars, NEW id \in DOMAIN jobs,
           NEW cmd \in TurnLate(id)', cmd.kind = "restarted", cmd.report = "SUCCESS"
    PROVE  \/ cmd \in TurnLate(id)
           \/ cmd.host \in TurnConsumers(id) /\ consumer[cmd.host].at = "SUCCESS"
<1>1. SystemInv
  BY DEF ClusterInv, ReportingInv
<1>2. CASE cmd \in late
  BY <1>2 DEF TurnLate
<1>3. ASSUME NEW p \in Command, Publish(p)
      PROVE  \/ cmd \in late
             \/ cmd.kind = p.kind /\ cmd.id = p.id /\
                (p.kind = "restarted" => cmd.host = p.host /\ cmd.report = p.report)
  <2>1. CASE late' = late
    BY <2>1 DEF TurnLate
  <2>2. CASE late' = late \cup {[p EXCEPT !.n = timeouts]}
    <3>1. PICK c : c = [p EXCEPT !.n = timeouts]
      OBVIOUS
    <3>2. /\ c.kind = p.kind /\ c.id = p.id
          /\ p.kind = "restarted" => c.host = p.host /\ c.report = p.report
      BY <3>1, SameContent
    <3> QED
      BY <2>2, <3>1, <3>2 DEF TurnLate
  <2> QED
    BY <1>3, <2>1, <2>2 DEF Publish
<1>4. ASSUME NEW h \in Host, ConfirmRestart(h) \/ AnnounceRestart(h) \/ ReportRestart(h)
      PROVE  \/ cmd \in late
             \/ cmd.host \in TurnConsumers(id) /\ consumer[cmd.host].at = "SUCCESS"
  <2>1. PICK p \in Command :
           /\ p.id = consumer[h].id
           /\ Publish(p)
           /\ p.kind = "restarted" /\ p.report = "SUCCESS" =>
                 p.host = h /\ consumer[h].at = "SUCCESS"
    BY <1>1, <1>4, ConsumerCommand
  <2>2. consumer[h].at = "SUCCESS" => consumer[h] # Idle
    BY DEF Idle
  <2>3. cmd.id = id
    BY DEF TurnLate
  <2> QED
    BY <1>3, <2>1, <2>2, <2>3 DEF TurnConsumers
<1>5. ASSUME NEW h \in Host, NEW k \in DOMAIN jobs, WorkerStep(h, k)
      PROVE  cmd \in late
  <2>1. CASE Configure(h, k)
    BY <2>1 DEF Configure, TurnLate
  <2>2. CASE AnnounceConfiguration(h, k) \/ ReportConfiguration(h, k)
    <3>1. PICK p \in Command : p.kind = "configuration" /\ Publish(p)
      BY <1>1, <2>2, WorkerCommand
    <3> QED
      BY <1>3, <3>1
  <2> QED
    BY <1>5, <2>1, <2>2 DEF WorkerStep
<1>6. CASE CommitLate
  BY <1>6 DEF CommitLate, TurnLate
<1>7. ASSUME NEW h \in Host, Take(h) \/ Deploy(h) \/ Crash(h)
      PROVE  cmd \in late
  BY <1>7 DEF Take, Deploy, Crash, TurnLate
<1>8. ASSUME NEW svc, NEW believe, NEW targets, SubmitJob(svc, believe, targets)
      PROVE  cmd \in late
  BY <1>8 DEF SubmitJob, TurnLate
<1>9. ASSUME NEW k, UserCancelJob(k)
      PROVE  cmd \in late
  BY <1>9 DEF UserCancelJob, TurnLate
<1>10. CASE UNCHANGED vars
  BY <1>10 DEF vars, TurnLate
<1> QED
  BY <1>2, <1>4, <1>5, <1>6, <1>7, <1>8, <1>9, <1>10 DEF SystemNext, ConsumerStep

-----------------------------------------------------------------------------
(* A deployed job runs on its hosts.                                       *)

\* A job that was there before the step.
LEMMA JobRunsStep ==
    ASSUME ClusterInv, [SystemNext]_vars, NEW id \in DOMAIN jobs, JobRuns(id),
           Unrivalled(id), DistinctHosts(jobs[id])
    PROVE  JobRuns(id)'
<1> DEFINE job == jobs[id]
           new == jobs'[id]
           Still(h) == running'[h][job.service] = {id}
<1>1. SystemInv /\ SystemInv'
  BY SystemStep DEF ClusterInv, ReportingInv
<1>2. /\ new.hostOrder = job.hostOrder /\ HostsOf(new) = HostsOf(job)
      /\ new.service = job.service /\ HostsOf(job) \subseteq Host /\ id \in DOMAIN jobs'
  <2>1. [Next]_jobs
    BY <1>1, SystemStep
  <2> QED
    BY <1>1, <2>1, JobsKept, HostsOfJob DEF SystemInv
<1>3. /\ job.hostOrder \in Seq(Host)
      /\ HostsOf(job) = SeqHosts(job.hostOrder)
      /\ job.status = "DEPLOYING" => job.currentOrder \in Nat
      /\ new.status = "DEPLOYED" => new.currentOrder = Len(new.hostOrder)
  <2>1. job \in Job /\ JobInv(job) /\ JobInv(new)
    BY <1>1, <1>2 DEF SystemInv, IInv
  <2>2. DistinctHosts(new)
    BY <1>2 DEF DistinctHosts
  <2> QED
    BY <2>1, <2>2 DEF Job, JobInv, HostsOf
<1>4. \A g \in Host : RunsOn(g, id) /\ g \notin Restarting(id) => Still(g)
  <2>1. \A g \in Host : RunsOn(g, id) /\ g \notin Restarting(id) => RunsOn(g, id)'
    BY RunningKept
  <2> QED
    BY <1>2, <2>1 DEF RunsOn
<1>5. \A h \in Restarting(id) :
         /\ TurnConsumers(id) = {h} /\ TurnLate(id) = {}
         /\ job.status \in {"DEPLOYING", "CANCELLED"}
         /\ job.status = "DEPLOYING" => OnProgress(job) = h
  <2>1. \A h \in Restarting(id) : h \in TurnConsumers(id) /\ h \in Host /\ RestartsAt(id, h)
    BY DEF Restarting, TurnConsumers, RestartsAt, Idle
  <2> QED
    BY <2>1, TheTurn DEF ClusterInv, TurnInv, OneTurn
<1>6. \A h \in Host : Reported(id, h) => Still(h)
  <2> SUFFICES ASSUME NEW h \in Host, Reported(id, h)
               PROVE  Still(h)
    OBVIOUS
  <2>1. RunsOn(h, id)
    BY DEF Reported, JobRuns
  <2>2. h \notin Restarting(id)
    BY <1>5 DEF Reported, Restarting
  <2> QED
    BY <1>4, <2>1, <2>2
<1>7. \A h \in TurnConsumers(id)' : consumer'[h].at = "SUCCESS" => Still(h)
  <2> SUFFICES ASSUME NEW h \in TurnConsumers(id)', consumer'[h].at = "SUCCESS"
               PROVE  Still(h)
    OBVIOUS
  <2>1. h \in Host
    BY DEF TurnConsumers
  <2> QED
    <3>1. \/ h \in TurnConsumers(id) /\ consumer[h].at = "SUCCESS"
          \/ RunsOn(h, id)'
      BY <2>1, ConsumerRuns
    <3> QED
      BY <1>2, <1>6, <2>1, <3>1 DEF Reported, RunsOn
<1>8. \A cmd \in TurnLate(id)' :
         cmd.kind = "restarted" /\ cmd.report = "SUCCESS" => Still(cmd.host)
  <2> SUFFICES ASSUME NEW cmd \in TurnLate(id)', cmd.kind = "restarted", cmd.report = "SUCCESS"
               PROVE  Still(cmd.host)
    OBVIOUS
  <2>1. cmd.host \in Host
    BY <1>1, CommandKinds DEF TurnLate, SystemInv, LateTyped
  <2>2. Reported(id, cmd.host)
    BY LateRuns DEF Reported
  <2> QED
    BY <1>6, <2>1, <2>2
<1>9. MovesOn(id, Reported(id, OnProgress(job)))
  BY StepMovesOn
\* The hosts before the one in turn keep running.
<1>10. ASSUME job.status = "DEPLOYING",
              NEW i \in DOMAIN job.hostOrder, i <= job.currentOrder
       PROVE  Still(job.hostOrder[i])
  <2>1. RunsOn(job.hostOrder[i], id) /\ job.hostOrder[i] \in Host
    BY <1>3, <1>10 DEF JobRuns
  <2>2. job.hostOrder[i] \notin Restarting(id)
    <3>1. i # job.currentOrder + 1
      BY <1>3, <1>10
    <3>2. job.currentOrder + 1 \in DOMAIN job.hostOrder
      <4>1. job.currentOrder \in 0..(Cardinality(DOMAIN job.deployment) - 1)
            /\ DOMAIN job.deployment = SeqHosts(job.hostOrder)
        BY <1>1, <1>10 DEF SystemInv, IInv, JobInv
      <4>2. Cardinality(SeqHosts(job.hostOrder)) <= Len(job.hostOrder)
            /\ Cardinality(SeqHosts(job.hostOrder)) \in Nat
        BY <1>3, OrderCardinality
      <4> QED
        BY <1>3, <4>1, <4>2
    <3> QED
      BY <1>5, <1>10, <3>1, <3>2 DEF DistinctHosts, OnProgress
  <2> QED
    BY <1>4, <2>1, <2>2
\* So does the one in turn, when it reported.
<1>11. ASSUME job.status = "DEPLOYING", Reported(id, OnProgress(job)),
              NEW i \in DOMAIN job.hostOrder, i <= job.currentOrder + 1
       PROVE  Still(job.hostOrder[i])
  <2>1. CASE i = job.currentOrder + 1
    <3>1. job.hostOrder[i] = OnProgress(job) /\ job.hostOrder[i] \in Host
      BY <1>3, <2>1 DEF OnProgress
    <3> QED
      BY <1>6, <1>11, <3>1
  <2>2. CASE i # job.currentOrder + 1
    <3>1. i <= job.currentOrder
      BY <1>3, <1>11, <2>2
    <3> QED
      BY <1>10, <1>11, <3>1
  <2> QED
    BY <2>1, <2>2
<1>12. ASSUME new.status = "DEPLOYING", NEW i \in DOMAIN new.hostOrder, i <= new.currentOrder
       PROVE  Still(new.hostOrder[i])
  <2>1. i \in Nat /\ i >= 1 /\ i \in DOMAIN job.hostOrder
        /\ new.hostOrder[i] = job.hostOrder[i]
    BY <1>2, <1>3
  <2>2. CASE job.status = "DEPLOYING" /\ new.currentOrder = job.currentOrder
    <3>1. job.status = "DEPLOYING" /\ i <= job.currentOrder
      BY <1>12, <2>2
    <3> QED
      BY <1>10, <2>1, <3>1
  <2>3. CASE job.status = "DEPLOYING" /\ new.currentOrder = job.currentOrder + 1
             /\ Reported(id, OnProgress(job))
    <3>1. i <= job.currentOrder + 1
      BY <1>12, <2>3
    <3> QED
      BY <1>11, <2>1, <2>3, <3>1
  <2>4. new.currentOrder # 0
    BY <1>12, <2>1
  <2> QED
    BY <1>9, <1>12, <2>2, <2>3, <2>4 DEF MovesOn
<1>13. ASSUME new.status = "DEPLOYED", NEW h \in HostsOf(new)
       PROVE  Still(h)
  <2>1. PICK i \in DOMAIN job.hostOrder : h = job.hostOrder[i]
    BY <1>2, <1>3, <1>13 DEF SeqHosts
  <2>2. i <= Len(job.hostOrder)
    BY <1>3
  <2>3. CASE job.status = "DEPLOYED"
    BY <1>2, <1>4, <1>5, <1>13, <2>3 DEF JobRuns
  <2>4. CASE job.status # "DEPLOYED"
    <3>1. /\ job.status = "DEPLOYING" /\ Reported(id, OnProgress(job))
          /\ new.currentOrder = job.currentOrder + 1
      BY <1>9, <1>13, <2>4 DEF MovesOn
    <3>2. i <= job.currentOrder + 1
      BY <1>2, <1>3, <1>13, <2>2, <3>1
    <3> QED
      BY <1>11, <2>1, <3>1, <3>2
  <2> QED
    BY <2>3, <2>4
<1> QED
  <2>1. \A h \in TurnConsumers(id)' :
           consumer'[h].at = "SUCCESS" => running'[h][new.service] = {id}
    BY <1>2, <1>7
  <2>2. \A cmd \in TurnLate(id)' :
           cmd.kind = "restarted" /\ cmd.report = "SUCCESS"
              => running'[cmd.host][new.service] = {id}
    BY <1>2, <1>8
  <2>3. new.status = "DEPLOYING" =>
           \A i \in DOMAIN new.hostOrder :
              i <= new.currentOrder => running'[new.hostOrder[i]][new.service] = {id}
    BY <1>2, <1>12
  <2>4. new.status = "DEPLOYED" => \A h \in HostsOf(new) : running'[h][new.service] = {id}
    BY <1>2, <1>13
  <2> QED
    BY <2>1, <2>2, <2>3, <2>4 DEF JobRuns, RunsOn

\* A job just submitted has no turn yet.
LEMMA NewJobRuns ==
    ASSUME SystemInv, NEW svc \in Service, NEW believe \in Believe,
           NEW targets \in TargetLists, SubmitJob(svc, believe, targets), [Next]_jobs,
           NEW id \in DOMAIN jobs', id \notin DOMAIN jobs
    PROVE  JobRuns(id)'
<1>1. jobs'[id].status = "QUEUED"
  BY Submitted
<1>2. UNCHANGED <<consumer, late>>
  BY DEF SubmitJob, hostVars
<1>3. TurnConsumers(id)' = {} /\ TurnLate(id)' = {}
  BY <1>2 DEF TurnConsumers, TurnLate, SystemInv, ConsumerTyped, LateTyped
<1> QED
  BY <1>1, <1>3 DEF JobRuns

LEMMA RunsStep ==
    ASSUME ClusterInv, RunsInv, [SystemNext]_vars
    PROVE  RunsInv'
<1>1. SystemInv /\ [Next]_jobs
  BY SystemStep DEF ClusterInv, ReportingInv
<1>2. ASSUME NEW id \in DOMAIN jobs, DistinctHosts(jobs'[id]), Unrivalled(id)'
      PROVE  JobRuns(id)'
  <2>1. Unrivalled(id) /\ DistinctHosts(jobs[id])
    BY <1>1, <1>2, UnrivalledBefore, JobsKept DEF SystemInv, DistinctHosts
  <2> QED
    BY <2>1, JobRunsStep DEF RunsInv
<1>3. ASSUME NEW id \in DOMAIN jobs', id \notin DOMAIN jobs
      PROVE  JobRuns(id)'
  BY <1>1, <1>3, NoNewJob, NewJobRuns
<1>4. \A id \in DOMAIN jobs' : DistinctHosts(jobs'[id]) /\ Unrivalled(id)' => JobRuns(id)'
  BY <1>2, <1>3
<1>5. RunsInv' <=>
         \A id \in DOMAIN jobs' : DistinctHosts(jobs'[id]) /\ Unrivalled(id)' => JobRuns(id)'
  BY DEF RunsInv
<1> QED
  BY <1>4, <1>5

\* A DEPLOYED job that names each host once runs on every one of its hosts,
\* unless another job of the service began to restart it: a report of success
\* is only believed while the build it speaks of runs (job_deploy_restart.go).
THEOREM DeployedJobsRun == SystemSpec => []DeployedRuns
<1>1. SystemInit => RunsInv
  BY DEF SystemInit, Init, RunsInv
<1>2. ClusterInv /\ RunsInv /\ [SystemNext]_vars => RunsInv'
  BY RunsStep
<1>3. ClusterInv /\ RunsInv => DeployedRuns
  BY DEF RunsInv, JobRuns, RunsOn, DeployedRuns
<1> QED
  BY <1>1, <1>2, <1>3, ClusterInvariance, PTL DEF SystemSpec

-----------------------------------------------------------------------------
(* A build spreads in the order of its job.                                *)

\* Who was told to restart, was told for good.
LEMMA ToldForGood ==
    ASSUME SystemInv, [SystemNext]_vars, NEW id, NEW h, ToldTo(id, h)
    PROVE  ToldTo(id, h)'
BY LogMoves DEF ToldTo, Told

\* The parts of SpreadInv.
RunningTold ==
    \A h \in Host, svc \in Service : \A id \in running[h][svc] \ {Down} :
        id \in DOMAIN jobs /\ jobs[id].service = svc /\ ToldTo(id, h)
ConsumerTold ==
    \A h \in Host : consumer[h].at \notin {"idle", "confirm"} => ToldTo(consumer[h].id, h)
OrderTold == \A id \in DOMAIN jobs : SpreadInOrder(id)

\* A host runs, or may run, what it ran before and what it restarts.
LEMMA RunningStep ==
    ASSUME SystemInv, [SystemNext]_vars, NEW g \in Host, NEW svc \in Service,
           NEW id \in running'[g][svc] \ {Down}
    PROVE  \/ id \in running[g][svc]
           \/ /\ consumer[g].at = "deploying" /\ consumer[g].id = id
              /\ id \in DOMAIN jobs /\ jobs[id].service = svc
<1>1. running \in [Host -> [Service -> SUBSET (JobId \cup {Down})]]
  BY DEF SystemInv, WorkerTyped
<1>2. CASE UNCHANGED running
  BY <1>2
<1>3. ASSUME NEW h \in Host, consumer[h].at = "deploying",
             NEW now, now \subseteq running[h][jobs[consumer[h].id].service]
                                    \cup {Down, consumer[h].id},
             running' = [running EXCEPT ![h][jobs[consumer[h].id].service] = now]
      PROVE  \/ id \in running[g][svc]
             \/ /\ consumer[g].at = "deploying" /\ consumer[g].id = id
                /\ id \in DOMAIN jobs /\ jobs[id].service = svc
  <2>1. PICK k : k = consumer[h].id
    OBVIOUS
  <2>2. k \in DOMAIN jobs
    BY <1>3, <2>1 DEF SystemInv, ConsumerTyped, Idle
  <2>3. CASE g = h /\ jobs[k].service = svc
    BY <1>1, <1>3, <2>1, <2>2, <2>3
  <2>4. CASE g # h \/ jobs[k].service # svc
    BY <1>1, <1>3, <2>1, <2>4
  <2> QED
    BY <2>3, <2>4
<1>4. ASSUME NEW h \in Host, Deploy(h), running' # running
      PROVE  /\ consumer[h].at = "deploying"
             /\ \E now : /\ now \subseteq running[h][jobs[consumer[h].id].service]
                                    \cup {Down, consumer[h].id}
                         /\ running' = [running EXCEPT ![h][jobs[consumer[h].id].service] = now]
  <2>1. PICK k : k = consumer[h].id
    OBVIOUS
  <2>2. consumer[h].at = "deploying"
    BY <1>4 DEF Deploy
  <2>3. \/ running' = [running EXCEPT ![h][jobs[k].service] = {k}]
        \/ running' = [running EXCEPT ![h][jobs[k].service] = @ \cup {Down, k}]
    BY <1>4, <2>1 DEF Deploy, Disturbed
  <2>4. PICK old : old = running[h][jobs[k].service]
    OBVIOUS
  <2>5. \/ running' = [running EXCEPT ![h][jobs[k].service] = {k}]
        \/ running' = [running EXCEPT ![h][jobs[k].service] = old \cup {Down, k}]
    BY <2>3, <2>4
  <2> QED
    BY <2>1, <2>2, <2>4, <2>5
<1>5. ASSUME NEW h \in Host, Crash(h), running' # running
      PROVE  /\ consumer[h].at = "deploying"
             /\ \E now : /\ now \subseteq running[h][jobs[consumer[h].id].service]
                                    \cup {Down, consumer[h].id}
                         /\ running' = [running EXCEPT ![h][jobs[consumer[h].id].service] = now]
  <2>1. PICK k : k = consumer[h].id
    OBVIOUS
  <2>2. consumer[h].at = "deploying"
    BY <1>5 DEF Crash
  <2>3. running' = [running EXCEPT ![h][jobs[k].service] = @ \cup {Down, k}]
    BY <1>5, <2>1, <2>2 DEF Crash, Disturbed
  <2>4. PICK old : old = running[h][jobs[k].service]
    OBVIOUS
  <2>5. running' = [running EXCEPT ![h][jobs[k].service] = old \cup {Down, k}]
    BY <2>3, <2>4
  <2> QED
    BY <2>1, <2>2, <2>4, <2>5
<1>6. ASSUME NEW h \in Host,
             Take(h) \/ ConfirmRestart(h) \/ AnnounceRestart(h) \/ ReportRestart(h)
      PROVE  UNCHANGED running
  BY <1>6 DEF Take, ConfirmRestart, AnnounceRestart, ReportRestart
<1>7. ASSUME NEW h \in Host, NEW k, WorkerStep(h, k)
      PROVE  UNCHANGED running
  BY <1>7 DEF WorkerStep, AnnounceConfiguration, Configure, ReportConfiguration
<1>8. CASE CommitLate \/ UNCHANGED vars
  BY <1>2, <1>8 DEF CommitLate, hostVars, vars
<1>9. ASSUME NEW s, NEW believe, NEW targets, SubmitJob(s, believe, targets)
      PROVE  UNCHANGED running
  BY <1>9 DEF SubmitJob, hostVars
<1>10. ASSUME NEW k, UserCancelJob(k)
       PROVE  UNCHANGED running
  BY <1>10 DEF UserCancelJob, hostVars
<1>11. ASSUME NEW h \in Host, Deploy(h) \/ Crash(h)
       PROVE  \/ id \in running[g][svc]
              \/ /\ consumer[g].at = "deploying" /\ consumer[g].id = id
                 /\ id \in DOMAIN jobs /\ jobs[id].service = svc
  BY <1>2, <1>3, <1>4, <1>5, <1>11
<1> QED
  BY <1>2, <1>6, <1>7, <1>8, <1>9, <1>10, <1>11 DEF SystemNext, ConsumerStep

\* A consumer that is to restart a host was told so, or has just taken the event.
LEMMA ConsumerMoves ==
    ASSUME SystemInv, [SystemNext]_vars, NEW g \in Host,
           consumer'[g].at \notin {"idle", "confirm"}
    PROVE  \/ consumer[g].at \notin {"idle", "confirm"} /\ consumer'[g].id = consumer[g].id
           \/ ToldTo(consumer'[g].id, g)
<1>1. consumer \in [Host -> [at : ConsumerAt, id : JobId \cup {NoJobId}]]
  BY DEF SystemInv, ConsumerTyped
<1>2. CASE UNCHANGED consumer
  BY <1>2
<1>3. ASSUME NEW h \in Host, ConfirmRestart(h) \/ ReportRestart(h) \/ Crash(h)
      PROVE  consumer'[g] = consumer[g]
  <2>1. consumer' = [consumer EXCEPT ![h] = Idle]
    BY <1>3 DEF ConfirmRestart, ReportRestart, Crash, GoIdle
  <2>2. g # h
    BY <1>1, <2>1 DEF Idle
  <2> QED
    BY <1>1, <2>1, <2>2
<1>4. ASSUME NEW h \in Host, AnnounceRestart(h) \/ Deploy(h)
      PROVE  \/ consumer'[g] = consumer[g]
             \/ consumer[g].at \notin {"idle", "confirm"} /\ consumer'[g].id = consumer[g].id
  <2>1. PICK at : consumer' = [consumer EXCEPT ![h].at = at]
    BY <1>4 DEF AnnounceRestart, Deploy, GoTo
  <2>2. consumer[h].at \in {"announce", "deploying"}
    BY <1>4 DEF AnnounceRestart, Deploy
  <2> QED
    BY <1>1, <2>1, <2>2
<1>5. ASSUME NEW h \in Host, Take(h)
      PROVE  consumer'[g] = consumer[g] \/ ToldTo(consumer'[g].id, g)
  <2>1. PICK i, e : i = cursor[h] + 1 /\ e = Next1(h)
    OBVIOUS
  <2>2. i \in DOMAIN log /\ e = log[i]
    BY <1>5, <2>1, Taken
  <2>3. \/ consumer' = consumer
        \/ consumer' = [consumer EXCEPT ![h] = [at |-> "confirm", id |-> e.id]]
        \/ /\ e.kind = "RestartConfirmed" /\ e.host = h
           /\ consumer' = [consumer EXCEPT ![h] = [at |-> "announce", id |-> e.id]]
    BY <1>5, <2>1 DEF Take, HandleJobCreated, HandleConfirmable, HandleRestartConfirmed
  <2>4. CASE consumer' = [consumer EXCEPT ![h] = [at |-> "confirm", id |-> e.id]]
    <3>1. g # h
      BY <1>1, <2>4
    <3> QED
      BY <1>1, <2>4, <3>1
  <2>5. CASE /\ e.kind = "RestartConfirmed" /\ e.host = h
             /\ consumer' = [consumer EXCEPT ![h] = [at |-> "announce", id |-> e.id]]
    <3>1. g = h => consumer'[g].id = e.id
      BY <1>1, <2>5
    <3>2. ToldTo(e.id, h)
      BY <2>2, <2>5 DEF ToldTo, Told
    <3>3. g # h => consumer'[g] = consumer[g]
      BY <1>1, <2>5
    <3> QED
      BY <3>1, <3>2, <3>3
  <2> QED
    BY <2>3, <2>4, <2>5
<1>6. ASSUME NEW h \in Host, NEW k, WorkerStep(h, k)
      PROVE  UNCHANGED consumer
  BY <1>6 DEF WorkerStep, AnnounceConfiguration, Configure, ReportConfiguration
<1>7. CASE CommitLate \/ UNCHANGED vars
  BY <1>2, <1>7 DEF CommitLate, hostVars, vars
<1>8. ASSUME NEW svc, NEW believe, NEW targets, SubmitJob(svc, believe, targets)
      PROVE  UNCHANGED consumer
  BY <1>8 DEF SubmitJob, hostVars
<1>9. ASSUME NEW k, UserCancelJob(k)
      PROVE  UNCHANGED consumer
  BY <1>9 DEF UserCancelJob, hostVars
<1>10. ASSUME consumer'[g] = consumer[g]
       PROVE  consumer[g].at \notin {"idle", "confirm"} /\ consumer'[g].id = consumer[g].id
  BY <1>10
<1> QED
  BY <1>2, <1>3, <1>4, <1>5, <1>6, <1>7, <1>8, <1>9, <1>10 DEF SystemNext, ConsumerStep

\* A job nothing is said about in this step.
LEMMA SpreadStays ==
    ASSUME NEW id, SpreadInOrder(id), ToldKept(id),
           jobs'[id].hostOrder = jobs[id].hostOrder,
           jobs'[id].currentOrder = jobs[id].currentOrder,
           jobs'[id].deployment = jobs[id].deployment
    PROVE  SpreadInOrder(id)'
BY DEF SpreadInOrder, ToldKept, DistinctHosts

\* Only a confirmation tells a host to restart, and of one job.
LEMMA LoggedTold ==
    ASSUME LogTyped, NEW kind, NEW id, NEW h, Logged(kind, id, h)
    PROVE  /\ \A k : k # id \/ kind # "RestartConfirmed" => ToldKept(k)
           /\ kind = "RestartConfirmed" =>
                 /\ Told(id)' = Told(id) \cup {Len(log) + 1}
                 /\ log'[Len(log) + 1].host = h
                 /\ \A i \in Told(id) : log'[i] = log[i]
<1>1. PICK e \in Event : e.kind = kind /\ e.id = id /\ e.host = h /\ log' = Append(log, e)
  BY DEF Logged
<1>2. /\ DOMAIN log' = DOMAIN log \cup {Len(log) + 1}
      /\ \A i \in DOMAIN log : log'[i] = log[i]
      /\ log'[Len(log) + 1] = e
      /\ Len(log) + 1 \notin DOMAIN log
  BY <1>1, Appended
<1> QED
  BY <1>1, <1>2 DEF ToldKept, Told

LEMMA SameLogTold == log' = log => \A k : ToldKept(k)
BY DEF ToldKept, Told

\* What a report of a restart does to the restarted hosts.
LEMMA RestartedReports ==
    ASSUME IInv, NEW id \in DOMAIN jobs, NEW h \in Host,
           NEW report \in RestartReport, CommitRestarted(id, h, report)
    PROVE  /\ jobs'[id].deployment = [jobs[id].deployment EXCEPT ![h] = report]
           /\ h \in DOMAIN jobs[id].deployment
           /\ jobs[id].currentOrder + 1 \in DOMAIN jobs[id].hostOrder
           /\ jobs[id].currentOrder \in Nat
           /\ jobs[id].hostOrder[jobs[id].currentOrder + 1] = h
           /\ jobs'[id].currentOrder = IF report = "SUCCESS" THEN jobs[id].currentOrder + 1
                                       ELSE jobs[id].currentOrder
<1> DEFINE job == jobs[id]
<1>1. job \in Job /\ job.status = "DEPLOYING" /\ OnProgress(job) = h /\ GoodJob(job)
  BY DEF IInv, GoodJob, CommitRestarted, HostRestartServiceUpdate, AcceptsRestartUpdate
<1>2. jobs'[id] = RestartUpdated(job, h, report)
  BY DEF CommitRestarted, HostRestartServiceUpdate
<1>3. job.currentOrder \in 0..(Len(job.hostOrder) - 1)
  BY <1>1, OrderBound
<1>4. /\ job.currentOrder \in Nat /\ job.currentOrder + 1 \in DOMAIN job.hostOrder
      /\ job.hostOrder[job.currentOrder + 1] = h
  BY <1>1, <1>3 DEF Job, OnProgress
<1>5. h \in DOMAIN job.deployment
  BY <1>1, <1>4 DEF GoodJob, JobInv, SeqHosts
<1>6. CASE report = "FAILED"
  BY <1>1, <1>2, <1>4, <1>5, <1>6 DEF RestartUpdated, Job
<1>7. CASE report = "RESTARTING"
  BY <1>1, <1>2, <1>4, <1>5, <1>7 DEF RestartUpdated, Job
<1>8. CASE report = "SUCCESS"
  BY <1>1, <1>2, <1>4, <1>5, <1>8 DEF RestartUpdated, Job
<1> QED
  BY <1>6, <1>7, <1>8 DEF RestartReport

LEMMA ConfirmedSpread ==
    ASSUME SystemInv, TurnInv, [Next]_jobs, NEW id \in DOMAIN jobs, CommitRestart(id),
           SpreadInOrder(id)
    PROVE  SpreadInOrder(id)'
<1> DEFINE job == jobs[id]
           new == jobs'[id]
<1>1. /\ job.status \in {"CONFIGURED", "DEPLOYING"}
      /\ new.deployment = job.deployment
      /\ new.currentOrder = IF job.status = "CONFIGURED" THEN 0 ELSE job.currentOrder
      /\ new.currentOrder \in 0..(Len(new.hostOrder) - 1)
      /\ Logged("RestartConfirmed", id, OnProgress(new))
  BY RestartCommitted DEF SystemInv
<1>2. /\ Told(id)' = Told(id) \cup {Len(log) + 1}
      /\ log'[Len(log) + 1].host = OnProgress(new)
      /\ \A i \in Told(id) : log'[i] = log[i]
  BY <1>1, LoggedTold DEF SystemInv
<1>3. new.hostOrder = job.hostOrder /\ job.hostOrder \in Seq(Host)
  <2>1. job \in Job
    BY DEF SystemInv, IInv
  <2> QED
    BY <2>1, JobsKept DEF SystemInv, Job
<1>4. /\ new.currentOrder + 1 \in DOMAIN new.hostOrder
      /\ log'[Len(log) + 1].host = new.hostOrder[new.currentOrder + 1]
  BY <1>1, <1>2, <1>3 DEF OnProgress
<1>5. CASE job.status = "CONFIGURED"
  <2>1. Told(id) = {}
    BY <1>5 DEF TurnInv, ToldInOrder
  <2>2. new.currentOrder = 0 /\ \A k \in DOMAIN new.hostOrder : k >= 1
    BY <1>1, <1>3, <1>5
  <2>3. \A i \in Told(id)' : log'[i].host = new.hostOrder[1]
    BY <1>2, <1>4, <2>1, <2>2
  <2>4. 1 \in DOMAIN new.hostOrder /\ 1 <= new.currentOrder + 1
    BY <1>4, <2>2
  <2>5. \A k \in DOMAIN new.hostOrder : ~(k <= new.currentOrder)
    BY <2>2, <1>3
  <2> HIDE DEF new
  <2>6. \A i \in Told(id)' : \E k \in DOMAIN new.hostOrder :
           log'[i].host = new.hostOrder[k] /\ k <= new.currentOrder + 1
    BY <2>3, <2>4
  <2> QED
    BY <2>5, <2>6 DEF SpreadInOrder, new
<1>6. CASE job.status # "CONFIGURED"
  <2>1. new.currentOrder = job.currentOrder /\ new.currentOrder \in Nat
    BY <1>1, <1>6
  <2>2. \A i \in Told(id)' : \E k \in DOMAIN new.hostOrder :
           log'[i].host = new.hostOrder[k] /\ k <= new.currentOrder + 1
    <3>1. \A i \in Told(id) : \E k \in DOMAIN new.hostOrder :
             log'[i].host = new.hostOrder[k] /\ k <= new.currentOrder + 1
      BY <1>2, <1>3, <2>1 DEF SpreadInOrder
    <3> HIDE DEF new
    <3> QED
      BY <1>2, <1>4, <2>1, <3>1
  <2>3. DistinctHosts(new) => \A k \in DOMAIN new.hostOrder :
           k <= new.currentOrder => new.deployment[new.hostOrder[k]] = "SUCCESS"
    <3>1. DistinctHosts(new) <=> DistinctHosts(job)
      BY <1>3 DEF DistinctHosts
    <3> QED
      BY <1>1, <1>3, <2>1, <3>1 DEF SpreadInOrder
  <2> QED
    BY <2>2, <2>3 DEF SpreadInOrder
<1> QED
  BY <1>5, <1>6

LEMMA RestartedSpread ==
    ASSUME SystemInv, [Next]_jobs, NEW id \in DOMAIN jobs, NEW h \in Host,
           NEW report \in RestartReport, CommitRestarted(id, h, report), SpreadInOrder(id)
    PROVE  SpreadInOrder(id)'
<1> DEFINE job == jobs[id]
           new == jobs'[id]
<1>1. /\ new.deployment = [job.deployment EXCEPT ![h] = report]
      /\ h \in DOMAIN job.deployment
      /\ job.currentOrder + 1 \in DOMAIN job.hostOrder
      /\ job.currentOrder \in Nat
      /\ job.hostOrder[job.currentOrder + 1] = h
      /\ new.currentOrder = IF report = "SUCCESS" THEN job.currentOrder + 1
                            ELSE job.currentOrder
  BY RestartedReports DEF SystemInv
<1>2. ToldKept(id)
  <2>1. log' = log \/ Logged("ServiceRestarted", id, h)
    BY RestartedCommitted DEF SystemInv, RestartReport
  <2> QED
    BY <2>1, LoggedTold, SameLogTold DEF SystemInv
<1>3. /\ new.hostOrder = job.hostOrder /\ job.hostOrder \in Seq(Host)
      /\ \A k \in DOMAIN job.hostOrder : job.hostOrder[k] \in DOMAIN job.deployment
      /\ \A k \in DOMAIN job.hostOrder : k \in Nat
  <2>1. job \in Job /\ JobInv(job)
    BY DEF SystemInv, IInv
  <2> QED
    BY <2>1, JobsKept DEF SystemInv, Job, JobInv, SeqHosts
<1>4. \A i \in Told(id)' : \E k \in DOMAIN new.hostOrder :
         log'[i].host = new.hostOrder[k] /\ k <= new.currentOrder + 1
  <2>1. \A k \in Nat : k <= job.currentOrder + 1 => k <= new.currentOrder + 1
    BY <1>1
  <2> QED
    BY <1>2, <1>3, <2>1 DEF SpreadInOrder, ToldKept
<1>5. ASSUME DistinctHosts(job), NEW k \in DOMAIN job.hostOrder, k <= new.currentOrder
      PROVE  new.deployment[job.hostOrder[k]] = "SUCCESS"
  <2>1. k \in Nat /\ job.hostOrder[k] \in DOMAIN job.deployment
    BY <1>3
  <2>2. CASE k = job.currentOrder + 1
    <3>1. report = "SUCCESS"
      BY <1>1, <1>5, <2>2
    <3> QED
      BY <1>1, <2>2, <3>1
  <2>3. CASE k # job.currentOrder + 1
    <3>1. k <= job.currentOrder
      BY <1>1, <1>5, <2>1, <2>3
    <3>2. job.hostOrder[k] # h
      BY <1>1, <1>5, <2>3 DEF DistinctHosts
    <3>3. job.deployment[job.hostOrder[k]] = "SUCCESS"
      BY <1>5, <3>1 DEF SpreadInOrder
    <3> QED
      BY <1>1, <2>1, <3>2, <3>3
  <2> QED
    BY <2>2, <2>3
<1>6. DistinctHosts(new) <=> DistinctHosts(job)
  BY <1>3 DEF DistinctHosts
<1> QED
  BY <1>3, <1>4, <1>5, <1>6 DEF SpreadInOrder

\* A command moves its job on, and no other.
LEMMA CommitSpread ==
    ASSUME SystemInv, TurnInv, OrderTold, NEW cmd \in Command, cmd.id \in DOMAIN jobs,
           Commit(cmd)
    PROVE  OrderTold'
<1>1. [Next]_jobs
  BY CommitStep DEF SystemInv
<1>2. CASE UNCHANGED <<jobs, log>>
  BY <1>2, SameLogTold, SpreadStays DEF OrderTold
<1>3. PICK id : id = cmd.id
  OBVIOUS
<1>4. ASSUME DOMAIN jobs' = DOMAIN jobs,
             \A k \in DOMAIN jobs \ {id} : jobs'[k] = jobs[k] /\ ToldKept(k),
             SpreadInOrder(id)'
      PROVE  OrderTold'
  BY <1>4, SpreadStays DEF OrderTold
<1>5. CASE cmd.kind = "configuration" /\ CommitConfiguration(cmd.id, cmd.host, cmd.report)
  <2>1. PICK h, report : h = cmd.host /\ report = cmd.report
    OBVIOUS
  <2>2. id \in DOMAIN jobs /\ h \in Host /\ report \in ConfigurationReport
        /\ CommitConfiguration(id, h, report)
    BY <1>3, <1>5, <2>1, CommandKinds
  <2>3. /\ DOMAIN jobs' = DOMAIN jobs
        /\ \A k \in DOMAIN jobs \ {id} : jobs'[k] = jobs[k]
        /\ jobs'[id].currentOrder = jobs[id].currentOrder
        /\ jobs'[id].deployment = jobs[id].deployment
        /\ log' = log \/ Logged("AllHostConfigured", id, h)
    BY <2>2, ConfigurationCommitted DEF SystemInv
  <2>4. \A k : ToldKept(k)
    BY <2>3, LoggedTold, SameLogTold DEF SystemInv
  <2>5. SpreadInOrder(id)'
    BY <1>1, <2>2, <2>3, <2>4, JobsKept, SpreadStays DEF OrderTold, SystemInv
  <2> QED
    BY <1>4, <2>3, <2>4, <2>5
<1>6. CASE cmd.kind = "restart" /\ CommitRestart(cmd.id)
  <2>1. id \in DOMAIN jobs /\ CommitRestart(id)
    BY <1>3, <1>6
  <2>2. /\ DOMAIN jobs' = DOMAIN jobs
        /\ \A k \in DOMAIN jobs \ {id} : jobs'[k] = jobs[k]
        /\ Logged("RestartConfirmed", id, OnProgress(jobs'[id]))
    BY <2>1, RestartCommitted DEF SystemInv
  <2>3. \A k : k # id => ToldKept(k)
    BY <2>2, LoggedTold DEF SystemInv
  <2>4. SpreadInOrder(id)'
    BY <1>1, <2>1, ConfirmedSpread DEF OrderTold
  <2> QED
    BY <1>4, <2>2, <2>3, <2>4
<1>7. CASE cmd.kind = "restarted" /\ CommitRestarted(cmd.id, cmd.host, cmd.report)
  <2>1. PICK h, report : h = cmd.host /\ report = cmd.report
    OBVIOUS
  <2>2. id \in DOMAIN jobs /\ h \in Host /\ report \in RestartReport
        /\ CommitRestarted(id, h, report)
    BY <1>3, <1>7, <2>1, CommandKinds
  <2>3. /\ DOMAIN jobs' = DOMAIN jobs
        /\ \A k \in DOMAIN jobs \ {id} : jobs'[k] = jobs[k]
        /\ log' = log \/ Logged("ServiceRestarted", id, h)
    BY <2>2, RestartedCommitted DEF SystemInv, RestartReport
  <2>4. \A k : ToldKept(k)
    BY <2>3, LoggedTold, SameLogTold DEF SystemInv
  <2>5. SpreadInOrder(id)'
    BY <1>1, <2>2, RestartedSpread DEF OrderTold
  <2> QED
    BY <1>4, <2>3, <2>4, <2>5
<1> QED
  BY <1>2, <1>5, <1>6, <1>7 DEF Commit

LEMMA OrderToldStep ==
    ASSUME ClusterInv, OrderTold, [SystemNext]_vars
    PROVE  OrderTold'
<1>1. SystemInv /\ TurnInv /\ [Next]_jobs
  BY SystemStep DEF ClusterInv, ReportingInv
<1>2. CASE UNCHANGED <<jobs, log>>
  BY <1>2, SameLogTold, SpreadStays DEF OrderTold
<1>3. ASSUME NEW cmd \in Command, cmd.id \in DOMAIN jobs, Publish(cmd)
      PROVE  OrderTold'
  BY <1>1, <1>2, <1>3, CommitSpread DEF Publish
<1>4. ASSUME NEW svc \in Service, NEW believe \in Believe, NEW targets \in TargetLists,
             SubmitJob(svc, believe, targets)
      PROVE  OrderTold'
  <2>1. /\ \A id \in DOMAIN jobs : jobs'[id] = jobs[id]
        /\ \E n \in JobId :
              /\ n \notin DOMAIN jobs /\ DOMAIN jobs' = DOMAIN jobs \cup {n}
              /\ jobs'[n].currentOrder = NilOrder
              /\ \E e \in Event :
                    e.kind = "JobCreated" /\ e.id = n /\ log' = Append(log, e)
    BY <1>1, <1>4, Submitted
  <2>2. PICK n \in JobId :
           /\ n \notin DOMAIN jobs /\ DOMAIN jobs' = DOMAIN jobs \cup {n}
           /\ jobs'[n].currentOrder = NilOrder
           /\ \E e \in Event : e.kind = "JobCreated" /\ e.id = n /\ log' = Append(log, e)
    BY <2>1
  <2>3. PICK e \in Event : e.kind = "JobCreated" /\ e.id = n /\ log' = Append(log, e)
    BY <2>2
  <2>4. Logged("JobCreated", n, e.host)
    BY <2>3 DEF Logged
  <2>5. \A k : ToldKept(k)
    BY <1>1, <2>4, LoggedTold DEF SystemInv
  <2>6. \A id \in DOMAIN jobs : SpreadInOrder(id)'
    BY <2>1, <2>5, SpreadStays DEF OrderTold
  <2>7. SpreadInOrder(n)'
    <3>1. Told(n)' = {}
      <4>1. Told(n) = {}
        BY <1>1, <2>2 DEF Told, SystemInv, LogTyped
      <4> QED
        BY <2>5, <4>1 DEF ToldKept
    <3>2. jobs'[n].hostOrder \in Seq(Host)
      <4>1. IInv'
        BY <1>1, NextInv DEF SystemInv
      <4>2. n \in DOMAIN jobs'
        BY <2>2
      <4>3. jobs' \in Seq(Job)
        BY <4>1 DEF IInv
      <4>4. jobs'[n] \in Job
        BY <4>2, <4>3
      <4> QED
        BY <4>4 DEF Job
    <3>3. \A k \in DOMAIN jobs'[n].hostOrder : ~(k <= jobs'[n].currentOrder)
      BY <2>2, <3>2 DEF NilOrder
    <3> QED
      BY <3>1, <3>3 DEF SpreadInOrder
  <2> QED
    BY <2>2, <2>6, <2>7 DEF OrderTold
<1>5. ASSUME NEW k \in DOMAIN jobs, UserCancelJob(k)
      PROVE  OrderTold'
  <2>1. PICK target : jobs' = [jobs EXCEPT ![target] = Cancelled(@)]
    BY <1>5 DEF UserCancelJob, CancelJob
  <2>2. \A id \in DOMAIN jobs : jobs[id] \in Job
    BY <1>1 DEF SystemInv, IInv
  <2>3. DOMAIN jobs' = DOMAIN jobs /\ \A id \in DOMAIN jobs :
           /\ jobs'[id].hostOrder = jobs[id].hostOrder
           /\ jobs'[id].currentOrder = jobs[id].currentOrder
           /\ jobs'[id].deployment = jobs[id].deployment
    BY <2>1, <2>2 DEF Cancelled, Job
  <2>4. \A id : ToldKept(id)
    BY <1>5, SameLogTold DEF UserCancelJob
  <2> QED
    BY <2>3, <2>4, SpreadStays DEF OrderTold
<1>6. CASE CommitLate
  BY <1>1, <1>6, CommitSpread DEF CommitLate, SystemInv, LateTyped
<1>7. ASSUME NEW h \in Host, ConfirmRestart(h) \/ AnnounceRestart(h) \/ ReportRestart(h)
      PROVE  OrderTold'
  BY <1>1, <1>3, <1>7, ConsumerCommand
<1>8. ASSUME NEW h \in Host, NEW k \in DOMAIN jobs, WorkerStep(h, k)
      PROVE  OrderTold'
  <2>1. CASE Configure(h, k)
    BY <1>2, <2>1 DEF Configure
  <2>2. CASE AnnounceConfiguration(h, k) \/ ReportConfiguration(h, k)
    BY <1>1, <1>3, <2>2, WorkerCommand
  <2> QED
    BY <1>8, <2>1, <2>2 DEF WorkerStep
<1>9. ASSUME NEW h \in Host, Take(h) \/ Deploy(h) \/ Crash(h)
      PROVE  UNCHANGED <<jobs, log>>
  BY <1>9 DEF Take, Deploy, Crash
<1>10. CASE UNCHANGED vars
  BY <1>2, <1>10 DEF vars
<1> QED
  BY <1>2, <1>4, <1>5, <1>6, <1>7, <1>8, <1>9, <1>10 DEF SystemNext, ConsumerStep

LEMMA SpreadStep ==
    ASSUME ClusterInv, SpreadInv, [SystemNext]_vars
    PROVE  SpreadInv'
<1>1. SystemInv /\ [Next]_jobs /\ RunningTold /\ ConsumerTold /\ OrderTold
  BY SystemStep DEF ClusterInv, ReportingInv, SpreadInv, RunningTold, ConsumerTold, OrderTold
<1>2. ASSUME NEW h \in Host, NEW svc \in Service, NEW id \in running'[h][svc] \ {Down}
      PROVE  id \in DOMAIN jobs' /\ jobs'[id].service = svc /\ ToldTo(id, h)'
  <2>1. id \in DOMAIN jobs /\ jobs[id].service = svc /\ ToldTo(id, h)
    BY <1>1, <1>2, RunningStep DEF RunningTold, ConsumerTold
  <2> QED
    BY <1>1, <2>1, JobsKept, ToldForGood DEF SystemInv
<1>3. ASSUME NEW h \in Host, NEW id, id = consumer'[h].id,
             consumer'[h].at \notin {"idle", "confirm"}
      PROVE  ToldTo(id, h)'
  <2>1. ToldTo(id, h)
    BY <1>1, <1>3, ConsumerMoves DEF ConsumerTold
  <2> QED
    BY <1>1, <2>1, ToldForGood
<1>4. OrderTold'
  BY <1>1, OrderToldStep
<1>5. ConsumerTold'
  <2>1. ASSUME NEW h \in Host, consumer'[h].at \notin {"idle", "confirm"}
        PROVE  \E i \in DOMAIN log' : /\ log'[i].kind = "RestartConfirmed"
                                      /\ log'[i].id = consumer'[h].id
                                      /\ log'[i].host = h
    <3>1. PICK id : id = consumer'[h].id
      OBVIOUS
    <3>2. ToldTo(id, h)'
      BY <1>3, <2>1, <3>1
    <3> QED
      BY <3>1, <3>2 DEF ToldTo, Told
  <2> QED
    BY <2>1 DEF ConsumerTold, ToldTo, Told
<1>6. RunningTold'
  BY <1>2 DEF RunningTold
<1> QED
  BY <1>4, <1>5, <1>6 DEF SpreadInv, RunningTold, ConsumerTold, OrderTold

\* Builds run where hosts were told to restart for them, in order, in every
\* behaviour of the cluster.
THEOREM SpreadInvariance == SystemSpec => [](ClusterInv /\ SpreadInv)
<1>1. SystemInit => SpreadInv
  BY DEF SystemInit, Init, SpreadInv, Idle
<1>2. ClusterInv /\ SpreadInv /\ [SystemNext]_vars => (ClusterInv /\ SpreadInv)'
  BY ClusterStep, SpreadStep
<1> QED
  BY <1>1, <1>2, ClusterInit, PTL DEF SystemSpec

\* A build runs on a host, or is what systemd runs there next, only after every
\* host before it reported SUCCESS, whatever became of its job: a failed or
\* cancelled rolling restart stops at the host it had come to
\* (job_deploy_restart.go, app.go).
THEOREM BuildsSpreadInOrder == SystemSpec => []BuildSpreadsInOrder
<1>1. ClusterInv /\ SpreadInv => BuildSpreadsInOrder
  <2> SUFFICES ASSUME ClusterInv, SpreadInv, NEW id \in DOMAIN jobs, NEW h \in Host,
                      DistinctHosts(jobs[id]), id \in running[h][jobs[id].service]
               PROVE  \E i \in DOMAIN jobs[id].hostOrder :
                         /\ jobs[id].hostOrder[i] = h
                         /\ \A k \in 1..(i - 1) :
                               jobs[id].deployment[jobs[id].hostOrder[k]] = "SUCCESS"
    BY DEF BuildSpreadsInOrder
  <2> DEFINE job == jobs[id]
  <2>1. IInv /\ id \in JobId /\ job \in Job
    BY JobIds DEF ClusterInv, ReportingInv, SystemInv, IInv
  <2>2. job.service \in Service /\ id # Down /\ job.hostOrder \in Seq(Host)
        /\ job.currentOrder \in Int
    BY <2>1, JobService DEF JobId, Down, Job, NilOrder
  <2>3. ToldTo(id, h) /\ SpreadInOrder(id)
    BY <2>2 DEF SpreadInv
  <2>4. PICK j \in Told(id) : log[j].host = h
    BY <2>3 DEF ToldTo
  <2>5. PICK i \in DOMAIN job.hostOrder : log[j].host = job.hostOrder[i] /\ i <= job.currentOrder + 1
    BY <2>3, <2>4 DEF SpreadInOrder
  <2>6. ASSUME NEW k \in 1..(i - 1)
        PROVE  job.deployment[job.hostOrder[k]] = "SUCCESS"
    <3>1. k \in DOMAIN job.hostOrder /\ k <= job.currentOrder
      BY <2>2, <2>5, <2>6
    <3> QED
      BY <2>3, <3>1 DEF SpreadInOrder
  <2> QED
    BY <2>4, <2>5, <2>6
<1> QED
  BY <1>1, SpreadInvariance, PTL
-----------------------------------------------------------------------------
(* The events of a job follow its script.                                  *)

EventsStill(kind, id) ==
    Events(kind, id)' = Events(kind, id) /\ \A i \in Events(kind, id) : log'[i] = log[i]

LEMMA LoggedEvents ==
    ASSUME LogTyped, NEW kind, NEW id, NEW h, Logged(kind, id, h)
    PROVE  /\ \A kd, k : kd # kind \/ k # id => EventsStill(kd, k)
           /\ Events(kind, id)' = Events(kind, id) \cup {Len(log) + 1}
           /\ DOMAIN log' = DOMAIN log \cup {Len(log) + 1}
           /\ \A i \in DOMAIN log : log'[i] = log[i] /\ i \in 1..Len(log)
           /\ Len(log) \in Nat /\ Len(log) + 1 \notin DOMAIN log
           /\ log'[Len(log) + 1].kind = kind /\ log'[Len(log) + 1].id = id
           /\ log'[Len(log) + 1].host = h
<1>1. PICK e \in Event : e.kind = kind /\ e.id = id /\ e.host = h /\ log' = Append(log, e)
  BY DEF Logged
<1>2. /\ Len(log) \in Nat /\ DOMAIN log = 1..Len(log)
      /\ DOMAIN log' = DOMAIN log \cup {Len(log) + 1}
      /\ \A i \in DOMAIN log : log'[i] = log[i]
      /\ log'[Len(log) + 1] = e
      /\ Len(log) + 1 \notin DOMAIN log
  BY <1>1, Appended
<1>3. \A kd, k : Events(kd, k)' = {i \in DOMAIN log \cup {Len(log) + 1} :
                                      log'[i].kind = kd /\ log'[i].id = k}
  BY <1>2 DEF Events
<1>4. \A kd, k : kd # kind \/ k # id => EventsStill(kd, k)
  BY <1>1, <1>2, <1>3 DEF EventsStill, Events
<1>5. Events(kind, id)' = Events(kind, id) \cup {Len(log) + 1}
  BY <1>1, <1>2, <1>3 DEF Events
<1> QED
  BY <1>1, <1>2, <1>4, <1>5

LEMMA SameLogEvents == log' = log => \A kind, id : EventsStill(kind, id)
BY DEF EventsStill, Events

LEMMA ConfiguredEvents ==
    ASSUME NEW id
    PROVE  WasConfigured(id) <=> Events("AllHostConfigured", id) # {}
BY DEF WasConfigured, Events

\* A job nothing is said about in this step, or that is cancelled or fails.
LEMMA ScriptStays ==
    ASSUME NEW id, ScriptOf(id), \A kind : EventsStill(kind, id),
           jobs'[id].hostOrder = jobs[id].hostOrder,
           jobs'[id].currentOrder = jobs[id].currentOrder,
           jobs'[id].status \in {jobs[id].status, "CANCELLED", "FAILED"}
    PROVE  ScriptOf(id)'
<1>1. /\ EventsStill("JobCreated", id) /\ EventsStill("AllHostConfigured", id)
      /\ EventsStill("ServiceRestarted", id)
  OBVIOUS
<1>2. WasConfigured(id) => WasConfigured(id)'
  BY <1>1 DEF EventsStill, WasConfigured, Events
<1> QED
  BY <1>1, <1>2 DEF ScriptOf, EventsStill, DistinctHosts

LEMMA ConfigurationScript ==
    ASSUME ReportingInv, [Next]_jobs, NEW id \in DOMAIN jobs, NEW h \in Host,
           NEW report \in ConfigurationReport, CommitConfiguration(id, h, report),
           report = "SUCCESS" => ~NoOutcome(h, id), ScriptOf(id)
    PROVE  ScriptOf(id)' /\ (log' # log => Logged("AllHostConfigured", id, h))
<1> DEFINE job == jobs[id]
           new == jobs'[id]
<1>1. /\ h \in HostsOf(job) /\ new.currentOrder = job.currentOrder
      /\ new.hostOrder = job.hostOrder
      /\ \/ new.status = job.status /\ log' = log
         \/ /\ report = "SUCCESS" /\ new.status = "CONFIGURED"
            /\ Logged("AllHostConfigured", id, h)
  <2>1. IInv /\ LogTyped
    BY DEF ReportingInv, SystemInv
  <2>2. h \in HostsOf(job) /\ new.currentOrder = job.currentOrder
    BY <2>1, ConfigurationCommitted
  <2>3. new.hostOrder = job.hostOrder
    BY <2>1, JobsKept
  <2>4. \/ /\ jobs'[id].status = jobs[id].status
           /\ log' = log
        \/ /\ report = "SUCCESS"
           /\ jobs'[id].status = "CONFIGURED"
           /\ \A g \in HostsOf(jobs[id]) : jobs'[id].configuration[g] = "SUCCESS"
           /\ Logged("AllHostConfigured", id, h)
    BY <2>1, ConfigurationCommitted, ZenonT(30)
  <2> QED
    BY <2>2, <2>3, <2>4
<1>2. CASE new.status = job.status /\ log' = log
  BY <1>1, <1>2, SameLogEvents, ScriptStays
<1>3. CASE /\ report = "SUCCESS" /\ new.status = "CONFIGURED"
           /\ Logged("AllHostConfigured", id, h)
  <2>1. ~WasConfigured(id)
    BY <1>1, <1>3 DEF ReportingInv, CountedInv
  <2>2. Events("AllHostConfigured", id) = {} /\ Events("ServiceRestarted", id) = {}
    BY <2>1, ConfiguredEvents DEF ScriptOf
  <2>3. /\ EventsStill("JobCreated", id) /\ EventsStill("ServiceRestarted", id)
        /\ Events("AllHostConfigured", id)' = {Len(log) + 1}
    BY <1>3, <2>2, LoggedEvents DEF ReportingInv, SystemInv
  <2> QED
    BY <1>3, <2>2, <2>3 DEF ScriptOf, EventsStill
<1> QED
  BY <1>1, <1>2, <1>3

LEMMA ConfirmedScript ==
    ASSUME SystemInv, [Next]_jobs, NEW id \in DOMAIN jobs, CommitRestart(id), ScriptOf(id)
    PROVE  ScriptOf(id)'
<1> DEFINE job == jobs[id]
           new == jobs'[id]
<1>1. /\ job.status \in {"CONFIGURED", "DEPLOYING"} /\ new.status = "DEPLOYING"
      /\ new.currentOrder = IF job.status = "CONFIGURED" THEN 0 ELSE job.currentOrder
      /\ Logged("RestartConfirmed", id, OnProgress(new))
  BY RestartCommitted DEF SystemInv
<1>2. /\ EventsStill("JobCreated", id) /\ EventsStill("AllHostConfigured", id)
      /\ EventsStill("ServiceRestarted", id)
  BY <1>1, LoggedEvents DEF SystemInv
<1>3. new.hostOrder = job.hostOrder /\ \A n \in DOMAIN job.hostOrder : n \in Nat /\ n >= 1
  <2>1. job \in Job
    BY DEF SystemInv, IInv
  <2> QED
    BY <2>1, JobsKept DEF SystemInv, Job
<1>4. WasConfigured(id) => WasConfigured(id)'
  BY <1>2 DEF EventsStill, WasConfigured, Events
<1>5. CASE job.status = "CONFIGURED"
  <2>1. Events("ServiceRestarted", id) = {} /\ new.currentOrder = 0
    BY <1>1, <1>5 DEF ScriptOf
  <2>2. \A n \in DOMAIN new.hostOrder : ~(n <= new.currentOrder)
    BY <1>3, <2>1
  <2> QED
    BY <1>1, <1>2, <2>1, <2>2 DEF ScriptOf, EventsStill
<1>6. CASE job.status = "DEPLOYING"
  <2>1. new.currentOrder = job.currentOrder /\ (DistinctHosts(new) <=> DistinctHosts(job))
    BY <1>1, <1>3, <1>6 DEF DistinctHosts
  <2> QED
    BY <1>1, <1>2, <1>3, <1>4, <1>6, <2>1 DEF ScriptOf, EventsStill
<1> QED
  BY <1>1, <1>5, <1>6

LEMMA RestartedScript ==
    ASSUME ReportingInv, [Next]_jobs, NEW id \in DOMAIN jobs, NEW h \in Host,
           NEW report \in RestartReport, CommitRestarted(id, h, report), ScriptOf(id)
    PROVE  ScriptOf(id)'
<1> DEFINE job == jobs[id]
           new == jobs'[id]
           old == Events("ServiceRestarted", id)
<1>1. /\ job.currentOrder + 1 \in DOMAIN job.hostOrder /\ job.currentOrder \in Nat
      /\ job.hostOrder[job.currentOrder + 1] = h
      /\ new.currentOrder = IF report = "SUCCESS" THEN job.currentOrder + 1
                            ELSE job.currentOrder
  BY RestartedReports DEF ReportingInv, SystemInv
<1>2. /\ job.status = "DEPLOYING"
      /\ report = "FAILED" => new.status = "FAILED" /\ log' = log
      /\ report = "RESTARTING" => new.status = "DEPLOYING" /\ log' = log
      /\ report = "SUCCESS" =>
            new.status \in {"DEPLOYING", "DEPLOYED"} /\ Logged("ServiceRestarted", id, h)
  BY RestartedCommitted DEF ReportingInv, SystemInv, RestartReport
<1>3. /\ new.hostOrder = job.hostOrder
      /\ \A n \in DOMAIN job.hostOrder : n \in Nat
      /\ DistinctHosts(new) <=> DistinctHosts(job)
  <2>1. job \in Job
    BY DEF ReportingInv, SystemInv, IInv
  <2> QED
    BY <2>1, JobsKept DEF ReportingInv, SystemInv, Job, DistinctHosts
<1>4. CASE report # "SUCCESS"
  BY <1>1, <1>2, <1>3, <1>4, SameLogEvents, ScriptStays DEF RestartReport
<1>5. CASE report = "SUCCESS"
  <2> DEFINE here == Len(log) + 1
  <2>1. /\ EventsStill("JobCreated", id) /\ EventsStill("AllHostConfigured", id)
        /\ Events("ServiceRestarted", id)' = old \cup {here}
        /\ log'[here].host = h
        /\ \A i \in old : log'[i] = log[i]
    BY <1>2, <1>5, LoggedEvents DEF ReportingInv, SystemInv, Events
  <2>2. WasConfigured(id)'
    <3>1. WasConfigured(id)
      BY <1>2 DEF ReportingInv, CountedInv
    <3> QED
      BY <2>1, <3>1 DEF EventsStill, WasConfigured, Events
  <2>3. new.status # "CONFIGURED" /\ new.currentOrder = job.currentOrder + 1
    BY <1>1, <1>2, <1>5
  <2> HIDE DEF here, new, old
  <2>4. \A i \in old \cup {here} : \E n \in DOMAIN new.hostOrder :
           log'[i].host = new.hostOrder[n] /\ n <= new.currentOrder
    <3>1. \A i \in old : \E n \in DOMAIN job.hostOrder :
             log[i].host = job.hostOrder[n] /\ n <= job.currentOrder
      BY DEF ScriptOf, old
    <3>2. \A n \in Nat : n <= job.currentOrder => n <= new.currentOrder
      BY <1>1, <2>3
    <3>3. \A i \in old : \E n \in DOMAIN new.hostOrder :
             log'[i].host = new.hostOrder[n] /\ n <= new.currentOrder
      BY <1>3, <2>1, <3>1, <3>2
    <3>4. /\ job.currentOrder + 1 \in DOMAIN new.hostOrder
          /\ log'[here].host = new.hostOrder[job.currentOrder + 1]
          /\ job.currentOrder + 1 <= new.currentOrder
      BY <1>1, <1>3, <2>1, <2>3
    <3> QED
      BY <3>3, <3>4
  <2>5. ASSUME DistinctHosts(job), NEW i \in old
        PROVE  log[i].host # h
    <3>1. PICK n \in DOMAIN job.hostOrder :
             log[i].host = job.hostOrder[n] /\ n <= job.currentOrder
      BY <2>5 DEF ScriptOf, old
    <3>2. n # job.currentOrder + 1
      BY <1>1, <1>3, <3>1
    <3> QED
      BY <1>1, <2>5, <3>1, <3>2 DEF DistinctHosts
  <2>6. DistinctHosts(new) =>
           \A i, k \in old \cup {here} : log'[i].host = log'[k].host => i = k
    <3>1. DistinctHosts(job) => \A i, k \in old : log[i].host = log[k].host => i = k
      BY DEF ScriptOf, old
    <3> QED
      BY <1>3, <2>1, <2>5, <3>1
  <2>7. \A n \in DOMAIN new.hostOrder : n <= new.currentOrder =>
           \E i \in old \cup {here} : log'[i].host = new.hostOrder[n]
    <3>1. \A n \in DOMAIN job.hostOrder : n <= job.currentOrder =>
             \E i \in old : log[i].host = job.hostOrder[n]
      BY <1>2 DEF ScriptOf, old
    <3>2. \A n \in DOMAIN job.hostOrder : n <= new.currentOrder =>
             n <= job.currentOrder \/ n = job.currentOrder + 1
      BY <1>1, <1>3, <2>3
    <3> QED
      BY <1>1, <1>3, <2>1, <3>1, <3>2
  <2>8. Events("JobCreated", id)' # {}
        /\ \A i, k \in Events("AllHostConfigured", id)' : i = k
    BY <2>1 DEF ScriptOf, EventsStill
  <2> QED
    BY <2>1, <2>2, <2>3, <2>4, <2>6, <2>7, <2>8 DEF ScriptOf, new
<1> QED
  BY <1>4, <1>5

\* The parts of ScriptInv.
JobsScript == \A id \in DOMAIN jobs : ScriptOf(id)
LateTold == \A cmd \in late : cmd.kind = "restarted" => ToldTo(cmd.id, cmd.host)
LogLed ==
    \A i \in DOMAIN log : log[i].kind # "JobCreated" => \E k \in 1..(i - 1) : LedTo(k, i)

\* What led to an event, led to it for good.
LEMMA LedForGood ==
    ASSUME SystemInv, [SystemNext]_vars, NEW i \in DOMAIN log, log[i].kind # "JobCreated",
           LogLed
    PROVE  \E k \in 1..(i - 1) : LedTo(k, i)'
<1>1. PICK k \in 1..(i - 1) : LedTo(k, i)
  BY DEF LogLed
<1>2. k \in DOMAIN log /\ log[i].id \in DOMAIN jobs
  BY DEF SystemInv, LogTyped
<1>3. log'[i] = log[i] /\ log'[k] = log[k]
  BY <1>2, LogMoves
<1>4. jobs'[log[i].id].hostOrder = jobs[log[i].id].hostOrder
  BY <1>2, SystemStep, JobsKept DEF SystemInv
<1>5. LedTo(k, i)'
  BY <1>1, <1>3, <1>4 DEF LedTo
<1> QED
  BY <1>5

\* A step that logs an event for a reason.
LEMMA EventLed ==
    ASSUME SystemInv, [SystemNext]_vars, LogLed, NEW kind, NEW id, NEW h,
           Logged(kind, id, h), NEW here, here = Len(log) + 1,
           kind # "JobCreated" => \E k \in DOMAIN log : LedTo(k, here)'
    PROVE  LogLed'
<1>1. /\ DOMAIN log' = DOMAIN log \cup {Len(log) + 1}
      /\ \A i \in DOMAIN log : log'[i] = log[i] /\ i \in 1..Len(log)
      /\ Len(log) \in Nat /\ log'[here].kind = kind
  BY LoggedEvents DEF SystemInv
<1>2. ASSUME NEW i \in DOMAIN log, log'[i].kind # "JobCreated"
      PROVE  \E k \in 1..(i - 1) : LedTo(k, i)'
  BY <1>1, <1>2, LedForGood
<1>3. ASSUME kind # "JobCreated"
      PROVE  \E k \in 1..(here - 1) : LedTo(k, here)'
  <2>1. PICK k \in DOMAIN log : LedTo(k, here)'
    BY <1>3
  <2>2. k \in 1..(here - 1)
    BY <1>1
  <2> QED
    BY <2>1, <2>2
<1> QED
  BY <1>1, <1>2, <1>3 DEF LogLed

LEMMA SameLogLed ==
    ASSUME SystemInv, [SystemNext]_vars, LogLed, log' = log
    PROVE  LogLed'
BY LedForGood DEF LogLed

\* What a confirmation logs, was led to.
LEMMA ConfirmedLed ==
    ASSUME ReportingInv, [Next]_jobs, NEW id \in DOMAIN jobs, CommitRestart(id), ScriptOf(id),
           NEW here, here = Len(log) + 1
    PROVE  \E k \in DOMAIN log : LedTo(k, here)'
<1> DEFINE job == jobs[id]
           new == jobs'[id]
<1>1. /\ job.status \in {"CONFIGURED", "DEPLOYING"}
      /\ new.currentOrder = IF job.status = "CONFIGURED" THEN 0 ELSE job.currentOrder
      /\ new.currentOrder \in 0..(Len(new.hostOrder) - 1)
      /\ Logged("RestartConfirmed", id, OnProgress(new))
  BY RestartCommitted DEF ReportingInv, SystemInv
<1>2. /\ \A i \in DOMAIN log : log'[i] = log[i]
      /\ log'[here].kind = "RestartConfirmed" /\ log'[here].id = id
      /\ log'[here].host = OnProgress(new)
  BY <1>1, LoggedEvents DEF ReportingInv, SystemInv
<1>3. new.hostOrder = job.hostOrder /\ job.hostOrder \in Seq(Host)
  <2>1. job \in Job
    BY DEF ReportingInv, SystemInv, IInv
  <2> QED
    BY <2>1, JobsKept DEF ReportingInv, SystemInv, Job
<1>4. /\ new.currentOrder \in Nat
      /\ new.currentOrder + 1 \in DOMAIN new.hostOrder
      /\ log'[here].host = new.hostOrder[new.currentOrder + 1]
  BY <1>1, <1>2, <1>3 DEF OnProgress
<1>5. CASE new.currentOrder = 0
  <2>1. WasConfigured(id)
    BY <1>1 DEF ReportingInv, CountedInv
  <2>2. PICK k \in DOMAIN log : log[k].kind = "AllHostConfigured" /\ log[k].id = id
    BY <2>1 DEF WasConfigured
  <2>3. log'[here].host = new.hostOrder[1]
    BY <1>4, <1>5
  <2> HIDE DEF new
  <2>4. LedTo(k, here)'
    BY <1>2, <2>2, <2>3 DEF LedTo, new
  <2> QED
    BY <2>4
<1>6. CASE new.currentOrder # 0
  <2>1. job.status = "DEPLOYING" /\ new.currentOrder = job.currentOrder
    BY <1>1, <1>6
  <2>2. new.currentOrder \in DOMAIN job.hostOrder
    BY <1>3, <1>4, <1>6
  <2>3. PICK k \in Events("ServiceRestarted", id) :
           log[k].host = job.hostOrder[new.currentOrder]
    <3>1. \A n \in DOMAIN job.hostOrder : n <= job.currentOrder =>
             \E i \in Events("ServiceRestarted", id) : log[i].host = job.hostOrder[n]
      BY <2>1 DEF ScriptOf
    <3>2. new.currentOrder <= job.currentOrder
      BY <1>4, <2>1
    <3> QED
      BY <2>2, <3>1, <3>2
  <2>4. k \in DOMAIN log /\ log[k].kind = "ServiceRestarted" /\ log[k].id = id
    BY DEF Events
  <2>5. /\ new.currentOrder + 1 > 1 /\ (new.currentOrder + 1) - 1 = new.currentOrder
    BY <1>4, <1>6
  <2>6. \E n \in DOMAIN new.hostOrder :
           n > 1 /\ log[k].host = new.hostOrder[n - 1] /\ log'[here].host = new.hostOrder[n]
    <3> DEFINE n == new.currentOrder + 1
    <3>1. n \in DOMAIN new.hostOrder /\ n > 1 /\ n - 1 = new.currentOrder
      BY <1>4, <2>5
    <3>2. log[k].host = new.hostOrder[n - 1] /\ log'[here].host = new.hostOrder[n]
      BY <1>3, <1>4, <2>3, <3>1
    <3> QED
      BY <3>1, <3>2
  <2> HIDE DEF new
  <2>7. LedTo(k, here)'
    BY <1>2, <2>4, <2>6 DEF LedTo, new
  <2> QED
    BY <2>4, <2>7
<1> QED
  BY <1>5, <1>6

\* What a report of a restart logs, was led to.
LEMMA RestartedLed ==
    ASSUME SystemInv, NEW id \in DOMAIN jobs, NEW h \in Host, ToldTo(id, h),
           Logged("ServiceRestarted", id, h), NEW here, here = Len(log) + 1
    PROVE  \E k \in DOMAIN log : LedTo(k, here)'
<1>1. PICK k \in DOMAIN log :
         log[k].kind = "RestartConfirmed" /\ log[k].id = id /\ log[k].host = h
  BY DEF ToldTo, Told
<1>2. log'[k] = log[k] /\ log'[here].kind = "ServiceRestarted"
      /\ log'[here].id = id /\ log'[here].host = h
  BY LoggedEvents DEF SystemInv
<1>3. LedTo(k, here)'
  BY <1>1, <1>2 DEF LedTo
<1> QED
  BY <1>3

\* And what a report of a configuration logs.
LEMMA ConfiguredLed ==
    ASSUME SystemInv, NEW id \in DOMAIN jobs, NEW h, ScriptOf(id),
           Logged("AllHostConfigured", id, h), NEW here, here = Len(log) + 1
    PROVE  \E k \in DOMAIN log : LedTo(k, here)'
<1>1. PICK k \in DOMAIN log : log[k].kind = "JobCreated" /\ log[k].id = id
  BY DEF ScriptOf, Events
<1>2. log'[k] = log[k] /\ log'[here].kind = "AllHostConfigured"
      /\ log'[here].id = id
  BY LoggedEvents DEF SystemInv
<1>3. LedTo(k, here)'
  BY <1>1, <1>2 DEF LedTo
<1> QED
  BY <1>3

\* A command is accepted for a reason, and its job's events go on as they should.
LEMMA CommitScript ==
    ASSUME ReportingInv, [SystemNext]_vars, JobsScript, LogLed,
           NEW cmd \in Command, cmd.id \in DOMAIN jobs, Commit(cmd),
           cmd.kind = "configuration" /\ cmd.report = "SUCCESS" =>
              ~NoOutcome(cmd.host, cmd.id),
           cmd.kind = "restarted" => ToldTo(cmd.id, cmd.host)
    PROVE  JobsScript' /\ LogLed'
<1>1. SystemInv /\ [Next]_jobs
  BY SystemStep DEF ReportingInv
<1>2. PICK id, here : id = cmd.id /\ here = Len(log) + 1
  OBVIOUS
<1>3. id \in DOMAIN jobs /\ ScriptOf(id)
  BY <1>2 DEF JobsScript
<1>4. ASSUME DOMAIN jobs' = DOMAIN jobs,
             \A k \in DOMAIN jobs \ {id} : jobs'[k] = jobs[k],
             \A k : k # id => \A kind : EventsStill(kind, k),
             ScriptOf(id)'
      PROVE  JobsScript'
  BY <1>4, ScriptStays DEF JobsScript
<1>5. ASSUME log' = log
      PROVE  LogLed' /\ \A k, kind : EventsStill(kind, k)
  BY <1>1, <1>5, SameLogLed, SameLogEvents
<1>6. ASSUME NEW kind, NEW h, Logged(kind, id, h), \E k \in DOMAIN log : LedTo(k, here)'
      PROVE  LogLed' /\ \A k : k # id => \A kd : EventsStill(kd, k)
  BY <1>1, <1>2, <1>6, EventLed, LoggedEvents DEF SystemInv
<1>7. CASE UNCHANGED <<jobs, log>>
  BY <1>5, <1>7, ScriptStays DEF JobsScript
<1>8. CASE cmd.kind = "configuration" /\ CommitConfiguration(cmd.id, cmd.host, cmd.report)
  <2>1. PICK h, report : h = cmd.host /\ report = cmd.report
    OBVIOUS
  <2>2. h \in Host /\ report \in ConfigurationReport /\ CommitConfiguration(id, h, report)
        /\ (report = "SUCCESS" => ~NoOutcome(h, id))
    BY <1>2, <1>8, <2>1, CommandKinds
  <2>3. DOMAIN jobs' = DOMAIN jobs /\ \A k \in DOMAIN jobs \ {id} : jobs'[k] = jobs[k]
    BY <1>1, <1>3, <2>2, ConfigurationCommitted DEF SystemInv
  <2>4. ScriptOf(id)' /\ (log' # log => Logged("AllHostConfigured", id, h))
    BY <1>1, <1>3, <2>2, ConfigurationScript
  <2>5. LogLed' /\ \A k : k # id => \A kind : EventsStill(kind, k)
    <3>1. CASE log' # log
      BY <1>1, <1>2, <1>3, <1>6, <2>4, <3>1, ConfiguredLed
    <3> QED
      BY <1>5, <3>1
  <2> QED
    BY <1>4, <2>3, <2>4, <2>5
<1>9. CASE cmd.kind = "restart" /\ CommitRestart(cmd.id)
  <2>1. CommitRestart(id)
    BY <1>2, <1>9
  <2>2. /\ DOMAIN jobs' = DOMAIN jobs
        /\ \A k \in DOMAIN jobs \ {id} : jobs'[k] = jobs[k]
        /\ Logged("RestartConfirmed", id, OnProgress(jobs'[id]))
    BY <1>1, <1>3, <2>1, RestartCommitted DEF SystemInv
  <2>3. ScriptOf(id)'
    BY <1>1, <1>3, <2>1, ConfirmedScript
  <2>4. LogLed' /\ \A k : k # id => \A kind : EventsStill(kind, k)
    BY <1>1, <1>2, <1>3, <1>6, <2>1, <2>2, ConfirmedLed
  <2> QED
    BY <1>4, <2>2, <2>3, <2>4
<1>10. CASE cmd.kind = "restarted" /\ CommitRestarted(cmd.id, cmd.host, cmd.report)
  <2>1. PICK h, report : h = cmd.host /\ report = cmd.report
    OBVIOUS
  <2>2. h \in Host /\ report \in RestartReport /\ CommitRestarted(id, h, report)
        /\ ToldTo(id, h)
    BY <1>2, <1>10, <2>1, CommandKinds
  <2>3. /\ DOMAIN jobs' = DOMAIN jobs
        /\ \A k \in DOMAIN jobs \ {id} : jobs'[k] = jobs[k]
        /\ log' = log \/ Logged("ServiceRestarted", id, h)
    BY <1>1, <1>3, <2>2, RestartedCommitted DEF SystemInv, RestartReport
  <2>4. ScriptOf(id)'
    BY <1>1, <1>3, <2>2, RestartedScript
  <2>5. LogLed' /\ \A k : k # id => \A kind : EventsStill(kind, k)
    <3>1. CASE Logged("ServiceRestarted", id, h)
      BY <1>1, <1>2, <1>3, <1>6, <2>2, <3>1, RestartedLed
    <3> QED
      BY <1>5, <2>3, <3>1
  <2> QED
    BY <1>4, <2>3, <2>4, <2>5
<1> QED
  BY <1>7, <1>8, <1>9, <1>10 DEF Commit

\* Publishing a command commits it, or leaves it among the late ones.
LEMMA PublishScript ==
    ASSUME ReportingInv, [SystemNext]_vars, JobsScript, LogLed, LateTold,
           NEW cmd \in Command, cmd.id \in DOMAIN jobs, Publish(cmd),
           cmd.kind = "configuration" /\ cmd.report = "SUCCESS" =>
              ~NoOutcome(cmd.host, cmd.id),
           cmd.kind = "restarted" => ToldTo(cmd.id, cmd.host)
    PROVE  JobsScript' /\ LogLed' /\ LateTold'
<1>1. SystemInv
  BY DEF ReportingInv
<1>2. \A c \in late : c.kind = "restarted" => ToldTo(c.id, c.host)'
  BY <1>1, ToldForGood DEF LateTold
<1>3. CASE Commit(cmd) /\ late' = late
  BY <1>2, <1>3, CommitScript DEF LateTold
<1>4. CASE late' = late \cup {[cmd EXCEPT !.n = timeouts]} /\ UNCHANGED <<jobs, log>>
  <2>1. PICK c : c = [cmd EXCEPT !.n = timeouts]
    OBVIOUS
  <2>2. c.kind = cmd.kind /\ c.id = cmd.id /\ (cmd.kind = "restarted" => c.host = cmd.host)
    BY <2>1, SameContent
  <2>3. c.kind = "restarted" => ToldTo(c.id, c.host)'
    BY <1>1, <2>2, ToldForGood
  <2>4. LateTold'
    BY <1>2, <1>4, <2>1, <2>3 DEF LateTold
  <2>5. JobsScript'
    BY <1>4, SameLogEvents, ScriptStays DEF JobsScript
  <2>6. LogLed'
    BY <1>1, <1>4, SameLogLed
  <2> QED
    BY <2>4, <2>5, <2>6
<1> QED
  BY <1>3, <1>4 DEF Publish

LEMMA ScriptStep ==
    ASSUME ClusterInv, SpreadInv, ScriptInv, [SystemNext]_vars
    PROVE  ScriptInv'
<1>1. /\ ReportingInv /\ SystemInv /\ [Next]_jobs /\ ConsumerTold
      /\ JobsScript /\ LateTold /\ LogLed
  BY SystemStep
     DEF ClusterInv, ReportingInv, SpreadInv, ConsumerTold, ScriptInv, JobsScript, LateTold,
         LogLed
<1>2. ASSUME late' \subseteq late
      PROVE  LateTold'
  BY <1>1, <1>2, ToldForGood DEF LateTold
<1>3. ASSUME UNCHANGED <<jobs, log, late>>
      PROVE  JobsScript' /\ LateTold' /\ LogLed'
  <2>1. JobsScript'
    BY <1>1, <1>3, SameLogEvents, ScriptStays DEF JobsScript
  <2> QED
    BY <1>1, <1>2, <1>3, <2>1, SameLogLed
<1>4. ASSUME NEW svc \in Service, NEW believe \in Believe, NEW targets \in TargetLists,
             SubmitJob(svc, believe, targets)
      PROVE  JobsScript' /\ LateTold' /\ LogLed'
  <2>1. \A id \in DOMAIN jobs : jobs'[id] = jobs[id]
    BY <1>1, <1>4, Submitted
  <2>2. PICK n \in JobId :
           /\ n \notin DOMAIN jobs /\ DOMAIN jobs' = DOMAIN jobs \cup {n}
           /\ jobs'[n].status = "QUEUED" /\ jobs'[n].currentOrder = NilOrder
           /\ \E e \in Event : e.kind = "JobCreated" /\ e.id = n /\ log' = Append(log, e)
    BY <1>1, <1>4, Submitted
  <2>3. PICK h : Logged("JobCreated", n, h)
    BY <2>2 DEF Logged
  <2>4. /\ \A kind, k : kind # "JobCreated" \/ k # n => EventsStill(kind, k)
        /\ Events("JobCreated", n)' = Events("JobCreated", n) \cup {Len(log) + 1}
    BY <1>1, <2>3, LoggedEvents DEF SystemInv
  <2>5. \A id \in DOMAIN jobs : ScriptOf(id)'
    BY <1>1, <2>1, <2>2, <2>4, ScriptStays DEF JobsScript
  <2>6. ScriptOf(n)'
    <3>1. \A kind : Events(kind, n) = {}
      BY <1>1, <2>2 DEF Events, SystemInv, LogTyped
    <3>2. /\ EventsStill("AllHostConfigured", n) /\ EventsStill("ServiceRestarted", n)
      BY <2>4
    <3>3. /\ Events("JobCreated", n)' # {} /\ Events("AllHostConfigured", n)' = {}
          /\ Events("ServiceRestarted", n)' = {}
      BY <2>4, <3>1, <3>2 DEF EventsStill
    <3> QED
      BY <2>2, <3>3 DEF ScriptOf
  <2>7. LogLed'
    <3>1. PICK here : here = Len(log) + 1
      OBVIOUS
    <3> QED
      BY <1>1, <2>3, <3>1, EventLed
  <2>8. late' = late
    BY <1>4 DEF SubmitJob
  <2> QED
    BY <1>2, <2>2, <2>5, <2>6, <2>7, <2>8 DEF JobsScript
<1>5. ASSUME NEW k \in DOMAIN jobs, UserCancelJob(k)
      PROVE  JobsScript' /\ LateTold' /\ LogLed'
  <2>1. PICK target : jobs' = [jobs EXCEPT ![target] = Cancelled(@)]
    BY <1>5 DEF UserCancelJob, CancelJob
  <2>2. \A id \in DOMAIN jobs : jobs[id] \in Job
    BY <1>1 DEF SystemInv, IInv
  <2>3. DOMAIN jobs' = DOMAIN jobs /\ \A id \in DOMAIN jobs :
           /\ jobs'[id].hostOrder = jobs[id].hostOrder
           /\ jobs'[id].currentOrder = jobs[id].currentOrder
           /\ jobs'[id].status \in {jobs[id].status, "CANCELLED"}
    BY <2>1, <2>2 DEF Cancelled, Job
  <2>4. log' = log /\ late' = late
    BY <1>5 DEF UserCancelJob
  <2> QED
    BY <1>1, <1>2, <2>3, <2>4, SameLogEvents, SameLogLed, ScriptStays DEF JobsScript
<1>6. ASSUME CommitLate
      PROVE  JobsScript' /\ LateTold' /\ LogLed'
  <2>1. PICK cmd \in late : Commit(cmd) /\ late' \subseteq late
    BY <1>6 DEF CommitLate
  <2>2. cmd \in Command /\ cmd.id \in DOMAIN jobs
    BY <1>1 DEF SystemInv, LateTyped
  <2>3. /\ cmd.kind = "configuration" /\ cmd.report = "SUCCESS" =>
              ~NoOutcome(cmd.host, cmd.id)
        /\ cmd.kind = "restarted" => ToldTo(cmd.id, cmd.host)
    BY <1>1 DEF NoOutcome, OutcomesFor, Outcome, LateTold
  <2> QED
    BY <1>1, <1>2, <2>1, <2>2, <2>3, CommitScript
<1>7. ASSUME NEW h \in Host, ConfirmRestart(h) \/ AnnounceRestart(h) \/ ReportRestart(h)
      PROVE  JobsScript' /\ LateTold' /\ LogLed'
  <2>1. PICK cmd \in Command :
           /\ cmd.id = consumer[h].id /\ cmd.id \in DOMAIN jobs
           /\ cmd.kind # "configuration" /\ Publish(cmd)
           /\ cmd.kind = "restarted" =>
                 cmd.host = h /\ consumer[h].at \in {"announce", "SUCCESS", "FAILED"}
    BY <1>1, <1>7, ConsumerCommand
  <2>2. cmd.kind = "restarted" => ToldTo(cmd.id, cmd.host)
    BY <1>1, <2>1 DEF ConsumerTold
  <2> QED
    BY <1>1, <2>1, <2>2, PublishScript
<1>8. ASSUME NEW h \in Host, NEW id \in DOMAIN jobs, WorkerStep(h, id)
      PROVE  JobsScript' /\ LateTold' /\ LogLed'
  <2>1. CASE Configure(h, id)
    BY <1>3, <2>1 DEF Configure
  <2>2. CASE AnnounceConfiguration(h, id) \/ ReportConfiguration(h, id)
    <3>1. PICK cmd \in Command :
             /\ cmd.id = id /\ cmd.kind = "configuration" /\ cmd.host = h
             /\ \/ AnnounceConfiguration(h, id) /\ cmd.report = "CONFIGURING"
                \/ ReportConfiguration(h, id) /\ cmd.report = worker[h][id]
             /\ Publish(cmd)
      BY <1>1, <2>2, WorkerCommand
    <3>2. cmd.report = "SUCCESS" => ~NoOutcome(h, id)
      <4>1. ReportConfiguration(h, id) => h \in WorkersFor(h, id)
        BY DEF ReportConfiguration, WorkersFor, Outcome
      <4> QED
        BY <3>1, <4>1 DEF NoOutcome
    <3> QED
      BY <1>1, <3>1, <3>2, PublishScript
  <2> QED
    BY <1>8, <2>1, <2>2 DEF WorkerStep
<1>9. ASSUME NEW h \in Host, Take(h) \/ Deploy(h) \/ Crash(h)
      PROVE  UNCHANGED <<jobs, log, late>>
  BY <1>9 DEF Take, Deploy, Crash
<1>10. JobsScript' /\ LateTold' /\ LogLed'
  BY <1>1, <1>3, <1>4, <1>5, <1>6, <1>7, <1>8, <1>9
     DEF SystemNext, ConsumerStep, vars
<1> QED
  BY <1>10 DEF ScriptInv, JobsScript, LateTold, LogLed

\* What the log says of each job agrees with its order, in every behaviour of the
\* cluster.
THEOREM ScriptInvariance == SystemSpec => [](ClusterInv /\ SpreadInv /\ ScriptInv)
<1>1. SystemInit => ScriptInv
  BY DEF SystemInit, Init, ScriptInv
<1>2. ClusterInv /\ SpreadInv /\ ScriptInv /\ [SystemNext]_vars
         => (ClusterInv /\ SpreadInv /\ ScriptInv)'
  BY ClusterStep, SpreadStep, ScriptStep
<1>3. SystemInit => SpreadInv
  BY DEF SystemInit, Init, SpreadInv, Idle
<1> QED
  BY <1>1, <1>2, <1>3, ClusterInit, PTL DEF SystemSpec

\* The events of a job follow one script, whatever is late, lost, cancelled or
\* crashes: each comes after the one that leads to it, and none comes twice
\* (app.go, jobs_controller.go).
THEOREM JobsFollowScript == SystemSpec => []EventsFollowScript
<1>1. ClusterInv /\ ScriptInv => EventsFollowScript
  <2> SUFFICES ASSUME ClusterInv, ScriptInv
               PROVE  EventsFollowScript
    OBVIOUS
  <2>1. ASSUME NEW i \in DOMAIN log, NEW k \in DOMAIN log, SameEvent(i, k)
        PROVE  i = k
    <3>1. PICK id \in DOMAIN jobs : id = log[i].id
      BY DEF ClusterInv, ReportingInv, SystemInv, LogTyped
    <3>2. log[i].kind = log[k].kind /\ log[k].id = id
      BY <2>1, <3>1 DEF SameEvent
    <3>3. log[i].kind \in EventKind
      <4>1. log[i] \in Event
        BY DEF ClusterInv, ReportingInv, SystemInv, LogTyped
      <4> QED
        BY <4>1 DEF Event
    <3>4. CASE log[i].kind = "JobCreated"
      BY <3>1, <3>2, <3>4 DEF ClusterInv, ReportingInv, OutcomeInv
    <3>5. CASE log[i].kind = "AllHostConfigured"
      BY <3>1, <3>2, <3>5 DEF ScriptInv, ScriptOf, Events
    <3>6. CASE log[i].kind = "RestartConfirmed"
      <4>1. log[i].host = log[k].host /\ DistinctHosts(jobs[log[i].id])
        BY <2>1, <3>6 DEF SameEvent
      <4> QED
        BY <3>1, <3>2, <3>6, <4>1 DEF ClusterInv, ConfirmedOncePerHost
    <3>7. CASE log[i].kind = "ServiceRestarted"
      <4>1. log[i].host = log[k].host /\ DistinctHosts(jobs[id])
        BY <2>1, <3>1, <3>7 DEF SameEvent
      <4>2. i \in Events("ServiceRestarted", id) /\ k \in Events("ServiceRestarted", id)
        BY <3>1, <3>2, <3>7 DEF Events
      <4>3. ScriptOf(id)
        BY DEF ScriptInv
      <4> QED
        BY <4>1, <4>2, <4>3 DEF ScriptOf
    <3> QED
      BY <3>3, <3>4, <3>5, <3>6, <3>7 DEF EventKind
  <2> QED
    BY <2>1 DEF EventsFollowScript, ScriptInv
<1> QED
  BY <1>1, ScriptInvariance, PTL
=============================================================================
