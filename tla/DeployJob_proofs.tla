-------------------------- MODULE DeployJob_proofs --------------------------
(***************************************************************************)
(* Proofs about the replicated deployment-job application, for any set of  *)
(* hosts, services, target lists and any number of jobs.                   *)
(***************************************************************************)
EXTENDS DeployJob, FiniteSetTheorems, WellFoundedInduction, TLAPS

-----------------------------------------------------------------------------
(* Hosts of a restart order.                                               *)

\* The number of entries of the status maps: at least one, at most the length
\* of the restart order, and exactly that when the hosts differ.
LEMMA OrderCardinality ==
    ASSUME NEW order \in Seq(Host)
    PROVE  /\ IsFiniteSet(SeqHosts(order))
           /\ Cardinality(SeqHosts(order)) \in Nat
           /\ Cardinality(SeqHosts(order)) <= Len(order)
           /\ order # <<>> => Cardinality(SeqHosts(order)) >= 1
           /\ (\A i, k \in DOMAIN order : order[i] = order[k] => i = k)
                => Cardinality(SeqHosts(order)) = Len(order)
<1> DEFINE n == Len(order)
           hs == SeqHosts(order)
<1>1. n \in Nat /\ DOMAIN order = 1..n
  OBVIOUS
<1>2. order \in Surjection(1..n, hs)
  BY <1>1 DEF Surjection, SeqHosts
<1>3. IsFiniteSet(1..n) /\ Cardinality(1..n) = n
  BY <1>1, FS_Interval
<1>4. /\ IsFiniteSet(hs)
      /\ Cardinality(hs) <= n
      /\ Cardinality(hs) = n <=> order \in Injection(1..n, hs)
  BY <1>2, <1>3, FS_Surjection
<1>5. Cardinality(hs) \in Nat
  BY <1>4, FS_CardinalityType
<1>6. ASSUME order # <<>>
      PROVE  Cardinality(hs) >= 1
  <2>1. order[1] \in hs
    BY <1>1, <1>6 DEF SeqHosts
  <2>2. Cardinality(hs) # 0
    BY <2>1, <1>4, FS_EmptySet
  <2> QED
    BY <2>2, <1>5
<1>7. ASSUME \A i, k \in DOMAIN order : order[i] = order[k] => i = k
      PROVE  Cardinality(hs) = n
  BY <1>1, <1>2, <1>4, <1>7 DEF Injection, Surjection, IsInjective
<1> QED
  BY <1>4, <1>5, <1>6, <1>7

\* Every host of an order is a host.
LEMMA OrderHosts ==
    ASSUME NEW order \in Seq(Host)
    PROVE  SeqHosts(order) \in SUBSET Host
BY DEF SeqHosts

\* A status map stays one when an entry is replaced.
LEMMA HostMapExcept ==
    ASSUME NEW S, NEW f \in HostMap(S), NEW h \in DOMAIN f, NEW s \in S
    PROVE  /\ [f EXCEPT ![h] = s] \in HostMap(S)
           /\ DOMAIN [f EXCEPT ![h] = s] = DOMAIN f
<1>1. PICK hs \in SUBSET Host : f \in [hs -> S]
  BY DEF HostMap
<1>2. [f EXCEPT ![h] = s] \in [hs -> S]
  BY <1>1
<1> QED
  BY <1>1, <1>2 DEF HostMap

-----------------------------------------------------------------------------
(* Jobs: each command turns a good job into a good job.                    *)

GoodJob(job) == job \in Job /\ JobInv(job)

\* A submitted job is good when its target list was accepted.
LEMMA NewJobGood ==
    ASSUME NEW svc \in Service, NEW believe \in BOOLEAN,
           NEW targets \in TargetLists, AcceptsTargets(targets)
    PROVE  GoodJob(NewJob(svc, believe, targets))
<1> DEFINE order == OrderOf(targets)
           job == NewJob(svc, believe, targets)
<1>1. targets \in Seq(Target) /\ targets # <<>>
  BY TargetListsAssumption DEF AcceptsTargets, TargetListsAssumption
<1>2. order \in Seq(Host) /\ order # <<>>
  <2>1. \A i \in DOMAIN targets : targets[i].host \in Host
    <3>1. \A i \in DOMAIN targets : targets[i] \in Target
      BY <1>1
    <3> QED
      BY <3>1 DEF Target
  <2>2. DOMAIN targets = 1..Len(targets) /\ Len(targets) \in Nat \ {0}
    BY <1>1
  <2>3. order \in [1..Len(targets) -> Host]
    BY <2>1, <2>2 DEF OrderOf
  <2>4. order[1] \in Host /\ 1 \in DOMAIN order
    BY <2>2, <2>3
  <2> QED
    BY <2>2, <2>3, <2>4
<1>3. SeqHosts(order) \in SUBSET Host
  BY <1>2, OrderHosts
<1>4. /\ job.deployment \in [SeqHosts(order) -> {"PENDING"}]
      /\ job.configuration \in [SeqHosts(order) -> {"PENDING"}]
      /\ job.hostOrder = order /\ job.status = "QUEUED"
      /\ job.currentOrder = NilOrder /\ job.service = svc /\ job.believe = believe
  BY DEF NewJob
<1>5. /\ job.deployment \in HostMap(RestartReport \cup {"PENDING"})
      /\ job.configuration \in HostMap(ConfigurationReport \cup {"PENDING"})
  BY <1>3, <1>4 DEF HostMap
<1>6. job \in Job
  BY <1>2, <1>5 DEF Job, NewJob, JobStatus
<1>7. JobInv(job)
  BY <1>2, <1>4 DEF JobInv
<1> QED
  BY <1>6, <1>7 DEF GoodJob

\* A cancelled job keeps its maps and its order.
LEMMA CancelledGood ==
    ASSUME NEW job, GoodJob(job)
    PROVE  GoodJob(Cancelled(job))
<1>1. Cancelled(job) \in Job
  BY DEF GoodJob, Job, Cancelled, JobStatus
<1>2. /\ Cancelled(job).status = "CANCELLED"
      /\ Cancelled(job).hostOrder = job.hostOrder
      /\ Cancelled(job).deployment = job.deployment
      /\ Cancelled(job).configuration = job.configuration
  BY DEF GoodJob, Job, Cancelled
<1>3. JobInv(Cancelled(job))
  BY <1>2 DEF GoodJob, JobInv
<1> QED
  BY <1>1, <1>3 DEF GoodJob

\* A configuration update changes one entry and may make the job CONFIGURED:
\* the restart order and the statuses of the restart are left alone.
LEMMA ConfigurationUpdatedGood ==
    ASSUME NEW job, GoodJob(job), NEW h \in Host, NEW report \in ConfigurationReport,
           AcceptsConfiguration(job, h)
    PROVE  GoodJob(ConfigurationUpdated(job, h, report))
<1> DEFINE conf == [job.configuration EXCEPT ![h] = report]
           new == ConfigurationUpdated(job, h, report)
<1>1. /\ conf \in HostMap(ConfigurationReport \cup {"PENDING"})
      /\ DOMAIN conf = DOMAIN job.configuration
  BY HostMapExcept DEF GoodJob, Job, AcceptsConfiguration, HostsOf
<1>2. /\ new.hostOrder = job.hostOrder
      /\ new.deployment = job.deployment
      /\ new.currentOrder = job.currentOrder
      /\ new.configuration = conf
      /\ new.status \in {job.status, "CONFIGURED"}
  BY DEF GoodJob, Job, ConfigurationUpdated
<1>3. new \in Job
  BY <1>1 DEF GoodJob, Job, ConfigurationUpdated, JobStatus
<1>4. JobInv(new)
  BY <1>1, <1>2 DEF GoodJob, JobInv, OnProgress, DistinctHosts
<1> QED
  BY <1>3, <1>4 DEF GoodJob

\* A confirmation puts the order in range when it starts the restart.
LEMMA RestartedGood ==
    ASSUME NEW job, GoodJob(job), AcceptsRestart(job)
    PROVE  GoodJob(Restarted(job))
<1>1. CASE job.status = "CONFIGURED"
  <2> DEFINE new == Restarted(job)
  <2>1. /\ new.hostOrder = job.hostOrder
        /\ new.deployment = job.deployment
        /\ new.configuration = job.configuration
        /\ new.currentOrder = 0
        /\ new.status = "DEPLOYING"
    BY <1>1 DEF GoodJob, Job, Restarted
  <2>2. new \in Job
    BY <1>1 DEF GoodJob, Job, Restarted, JobStatus
  <2>3. job.hostOrder \in Seq(Host) /\ job.hostOrder # <<>>
    BY DEF GoodJob, Job, JobInv
  <2>4. /\ Cardinality(SeqHosts(job.hostOrder)) \in Nat
        /\ Cardinality(SeqHosts(job.hostOrder)) >= 1
    BY <2>3, OrderCardinality
  <2>5. JobInv(new)
    BY <2>1, <2>3, <2>4 DEF GoodJob, JobInv, DistinctHosts
  <2> QED
    BY <2>2, <2>5 DEF GoodJob
<1>2. CASE job.status # "CONFIGURED"
  BY <1>2 DEF Restarted
<1> QED
  BY <1>1, <1>2

\* A report of the host whose turn it is: stored; a failure ends the job at
\* the host's place, a success moves the order on, at most to the end.
LEMMA RestartUpdatedGood ==
    ASSUME NEW job, GoodJob(job), NEW h \in Host, NEW report \in RestartReport,
           AcceptsRestartUpdate(job, h)
    PROVE  GoodJob(RestartUpdated(job, h, report))
<1> DEFINE order == job.hostOrder
           n == Cardinality(DOMAIN job.deployment)
           k == job.currentOrder
           dep == [job.deployment EXCEPT ![h] = report]
           new == RestartUpdated(job, h, report)
<1>1. /\ order \in Seq(Host) /\ order # <<>>
      /\ DOMAIN job.deployment = SeqHosts(order)
      /\ job.deployment \in HostMap(RestartReport \cup {"PENDING"})
      /\ job.status = "DEPLOYING"
      /\ k \in 0..(n - 1)
      /\ order[k + 1] = h
  BY DEF GoodJob, Job, JobInv, AcceptsRestartUpdate, OnProgress
<1>2. n \in Nat /\ n <= Len(order) /\ (DistinctHosts(job) => n = Len(order))
  BY <1>1, OrderCardinality DEF DistinctHosts
<1>3. k \in Nat /\ k + 1 \in DOMAIN order /\ k + 1 \in 1..Len(order)
  BY <1>1, <1>2
<1>4. h \in DOMAIN job.deployment
  BY <1>1, <1>3 DEF SeqHosts
<1>5. /\ dep \in HostMap(RestartReport \cup {"PENDING"})
      /\ DOMAIN dep = DOMAIN job.deployment
      /\ dep[h] = report
      /\ \A g \in DOMAIN job.deployment : g # h => dep[g] = job.deployment[g]
  BY <1>1, <1>4, HostMapExcept
<1>6. DistinctHosts(job) =>
        \A i \in DOMAIN order : i <= k => dep[order[i]] = "SUCCESS"
  <2> SUFFICES ASSUME DistinctHosts(job), NEW i \in DOMAIN order, i <= k
               PROVE  dep[order[i]] = "SUCCESS"
    OBVIOUS
  <2>1. order[i] # h
    BY <1>1, <1>3 DEF DistinctHosts
  <2>2. order[i] \in DOMAIN job.deployment
    BY <1>1 DEF SeqHosts
  <2>3. job.deployment[order[i]] = "SUCCESS"
    BY <1>1 DEF GoodJob, JobInv
  <2> QED
    BY <2>1, <2>2, <2>3, <1>5
<1>7. CASE report = "FAILED"
  <2>1. new = [job EXCEPT !.deployment = dep, !.status = "FAILED"]
    BY <1>7 DEF RestartUpdated, GoodJob, Job
  <2>2. /\ new.hostOrder = order /\ new.deployment = dep
        /\ new.configuration = job.configuration
        /\ new.currentOrder = k /\ new.status = "FAILED"
    BY <2>1 DEF GoodJob, Job
  <2>3. new \in Job
    BY <2>1, <1>5 DEF GoodJob, Job, JobStatus
  <2>4. JobInv(new)
    BY <2>2, <1>1, <1>5, <1>7 DEF GoodJob, JobInv, OnProgress
  <2> QED
    BY <2>3, <2>4 DEF GoodJob
<1>8. CASE report = "RESTARTING"
  <2>1. new = [job EXCEPT !.deployment = dep]
    BY <1>8 DEF RestartUpdated, GoodJob, Job
  <2>2. /\ new.hostOrder = order /\ new.deployment = dep
        /\ new.configuration = job.configuration
        /\ new.currentOrder = k /\ new.status = "DEPLOYING"
    BY <2>1, <1>1 DEF GoodJob, Job
  <2>3. new \in Job
    BY <2>1, <1>5 DEF GoodJob, Job
  <2>4. JobInv(new)
    BY <2>2, <1>1, <1>5, <1>6 DEF GoodJob, JobInv, DistinctHosts
  <2> QED
    BY <2>3, <2>4 DEF GoodJob
<1>9. CASE report = "SUCCESS"
  <2>1. DistinctHosts(job) =>
          \A i \in DOMAIN order : i <= k + 1 => dep[order[i]] = "SUCCESS"
    <3> SUFFICES ASSUME DistinctHosts(job), NEW i \in DOMAIN order, i <= k + 1
                 PROVE  dep[order[i]] = "SUCCESS"
      OBVIOUS
    <3>1. CASE i = k + 1
      BY <3>1, <1>1, <1>5, <1>9
    <3>2. CASE i <= k
      BY <3>2, <1>6
    <3> QED
      BY <3>1, <3>2, <1>1, <1>3
  <2>2. CASE k + 1 >= n
    <3>1. new = [job EXCEPT !.deployment = dep, !.currentOrder = k + 1,
                            !.status = "DEPLOYED"]
      BY <2>2, <1>9 DEF RestartUpdated, GoodJob, Job
    <3>2. /\ new.hostOrder = order /\ new.deployment = dep
          /\ new.configuration = job.configuration
          /\ new.currentOrder = k + 1 /\ new.status = "DEPLOYED"
      BY <3>1 DEF GoodJob, Job
    <3>3. new \in Job
      <4>1. job \in Job /\ k + 1 \in Nat \cup {NilOrder}
        BY <1>3 DEF GoodJob
      <4> HIDE DEF k, dep, n
      <4> QED
        BY <4>1, <3>1, <1>5 DEF Job, JobStatus
    <3>4. DistinctHosts(job) => k + 1 = Len(order)
      BY <2>2, <1>1, <1>2, <1>3
    <3>5. JobInv(new)
      BY <3>2, <3>4, <2>1, <1>1, <1>5 DEF GoodJob, JobInv, DistinctHosts
    <3> QED
      BY <3>3, <3>5 DEF GoodJob
  <2>3. CASE ~(k + 1 >= n)
    <3>1. new = [job EXCEPT !.deployment = dep, !.currentOrder = k + 1]
      BY <2>3, <1>9 DEF RestartUpdated, GoodJob, Job
    <3>2. /\ new.hostOrder = order /\ new.deployment = dep
          /\ new.configuration = job.configuration
          /\ new.currentOrder = k + 1 /\ new.status = "DEPLOYING"
      BY <3>1, <1>1 DEF GoodJob, Job
    <3>3. new \in Job
      <4>1. job \in Job /\ k + 1 \in Nat \cup {NilOrder}
        BY <1>3 DEF GoodJob
      <4> HIDE DEF k, dep, n
      <4> QED
        BY <4>1, <3>1, <1>5 DEF Job
    <3>4. JobInv(new)
      BY <3>2, <2>1, <2>3, <1>1, <1>2, <1>3, <1>5 DEF GoodJob, JobInv, DistinctHosts
    <3> QED
      BY <3>3, <3>4 DEF GoodJob
  <2> QED
    BY <2>2, <2>3
<1> QED
  BY <1>7, <1>8, <1>9 DEF RestartReport

-----------------------------------------------------------------------------
(* The inductive invariant.                                                *)

\* Every replaced job is good: enough for a command that changes one job.
LEMMA ReplaceJob ==
    ASSUME IInv, NEW id \in DOMAIN jobs, NEW job, GoodJob(job),
           jobs' = [jobs EXCEPT ![id] = job]
    PROVE  IInv'
<1>1. jobs \in Seq(Job) /\ job \in Job
  BY DEF IInv, GoodJob
<1>2. /\ jobs' \in Seq(Job)
      /\ Len(jobs') = Len(jobs)
      /\ DOMAIN jobs' = DOMAIN jobs
      /\ jobs'[id] = job
      /\ \A k \in DOMAIN jobs : k # id => jobs'[k] = jobs[k]
  BY <1>1
<1>3. \A k \in DOMAIN jobs' : JobInv(jobs'[k])
  BY <1>2 DEF IInv, GoodJob
<1> QED
  BY <1>2, <1>3 DEF IInv

\* A nonempty set of numbers of 1..n has a largest one.
LEMMA LargestId ==
    ASSUME NEW n \in Nat, NEW S \in SUBSET (1..n), S # {}
    PROVE  \E m \in S : \A k \in S : k <= m
<1> DEFINE R == OpToRel(<, Nat)
           T == {n - k : k \in S}
<1>1. T \subseteq Nat /\ T # {}
  OBVIOUS
<1>2. \E x \in T : \A y \in T : ~ (<<y, x>> \in R)
  <2> HIDE DEF R, T
  <2>1. IsWellFoundedOn(R, Nat)
    BY NatLessThanWellFounded DEF R
  <2> QED
    BY <1>1, <2>1, WFMin
<1>3. PICK x \in T : \A y \in T : ~ (<<y, x>> \in R)
  BY <1>2
<1>4. \A y \in T : ~ (y < x)
  BY <1>1, <1>3 DEF OpToRel
<1>5. PICK m \in S : x = n - m
  OBVIOUS
<1>6. \A k \in S : k <= m
  <2> SUFFICES ASSUME NEW k \in S PROVE k <= m
    OBVIOUS
  <2>1. ~ (n - k < n - m)
    BY <1>4, <1>5
  <2> QED
    BY <2>1
<1> QED
  BY <1>6

\* A cancel is applied to a job of the store: the list of a service's jobs,
\* whose first element cancelJob takes unchecked, is not empty, and the
\* latest job is in it.
LEMMA CancelTargetExists ==
    ASSUME IInv, NEW id \in DOMAIN jobs
    PROVE  CancelTarget(jobs[id].service, id) \in JobsOf(jobs[id].service)
<1> DEFINE svc == jobs[id].service
           S == JobsOf(svc)
<1>1. DOMAIN jobs = 1..Len(jobs) /\ Len(jobs) \in Nat
  BY DEF IInv
<1>2. S \in SUBSET (1..Len(jobs)) /\ id \in S
  BY <1>1 DEF JobsOf
<1>3. \E m \in S : \A k \in S : k <= m
  BY <1>1, <1>2, LargestId
<1>4. Latest(svc) \in S
  BY <1>3 DEF Latest
<1> QED
  BY <1>4 DEF CancelTarget, CancelRequestJobId, NoJobId

\* Initially there is no job.
LEMMA InitInv == Init => IInv
BY MaxJobsAssumption DEF Init, IInv, MaxJobsAssumption

\* Every command keeps every job good.
LEMMA NextInv ==
    ASSUME IInv, [Next]_jobs
    PROVE  IInv'
<1>0. /\ jobs \in Seq(Job)
      /\ \A id \in DOMAIN jobs : GoodJob(jobs[id])
  BY DEF IInv, GoodJob
<1>1. ASSUME NEW svc \in Service, NEW believe \in BOOLEAN, NEW targets \in TargetLists,
             UserSubmitJob(svc, believe, targets)
      PROVE  IInv'
  <2> DEFINE job == NewJob(svc, believe, targets)
  <2>1. GoodJob(job) /\ jobs' = Append(jobs, job) /\ Len(jobs) < MaxJobs
    BY <1>1, NewJobGood DEF UserSubmitJob
  <2> HIDE DEF job
  <2>2. job \in Job /\ JobInv(job)
    BY <2>1 DEF GoodJob
  <2>3. /\ jobs' \in Seq(Job)
        /\ Len(jobs') = Len(jobs) + 1
        /\ DOMAIN jobs' = DOMAIN jobs \cup {Len(jobs) + 1}
        /\ jobs'[Len(jobs) + 1] = job
        /\ \A k \in DOMAIN jobs : jobs'[k] = jobs[k]
    BY <1>0, <2>1, <2>2
  <2>4. \A k \in DOMAIN jobs' : JobInv(jobs'[k])
    BY <2>2, <2>3 DEF IInv
  <2>5. Len(jobs') <= MaxJobs
    BY <1>0, <2>1, <2>3, MaxJobsAssumption DEF MaxJobsAssumption
  <2> QED
    BY <2>3, <2>4, <2>5 DEF IInv
<1>2. ASSUME NEW id \in DOMAIN jobs, CancelJob(id)
      PROVE  IInv'
  <2> DEFINE target == CancelTarget(jobs[id].service, id)
  <2>1. target \in DOMAIN jobs
    BY CancelTargetExists DEF JobsOf
  <2>2. GoodJob(Cancelled(jobs[target]))
    BY <1>0, <2>1, CancelledGood
  <2>3. jobs' = [jobs EXCEPT ![target] = Cancelled(jobs[target])]
    BY <1>2 DEF CancelJob
  <2> QED
    BY <2>1, <2>2, <2>3, ReplaceJob
<1>3. ASSUME NEW id \in DOMAIN jobs, NEW h \in Host, NEW report \in ConfigurationReport,
             HostConfigurationUpdate(id, h, report)
      PROVE  IInv'
  <2>1. GoodJob(ConfigurationUpdated(jobs[id], h, report))
    BY <1>0, <1>3, ConfigurationUpdatedGood DEF HostConfigurationUpdate
  <2> QED
    BY <1>3, <2>1, ReplaceJob DEF HostConfigurationUpdate
<1>4. ASSUME NEW id \in DOMAIN jobs, Restart(id)
      PROVE  IInv'
  <2>1. GoodJob(Restarted(jobs[id]))
    BY <1>0, <1>4, RestartedGood DEF Restart
  <2> QED
    BY <1>4, <2>1, ReplaceJob DEF Restart
<1>5. ASSUME NEW id \in DOMAIN jobs, NEW h \in Host, NEW report \in RestartReport,
             HostRestartServiceUpdate(id, h, report)
      PROVE  IInv'
  <2>1. GoodJob(RestartUpdated(jobs[id], h, report))
    BY <1>0, <1>5, RestartUpdatedGood DEF HostRestartServiceUpdate
  <2> QED
    BY <1>5, <2>1, ReplaceJob DEF HostRestartServiceUpdate
<1>6. CASE UNCHANGED jobs
  BY <1>6 DEF IInv
<1> QED
  BY <1>1, <1>2, <1>3, <1>4, <1>5, <1>6 DEF Next

\* The inductive invariant holds throughout.
THEOREM Invariance == Spec => []IInv
<1>1. Init => IInv
  BY InitInv
<1>2. IInv /\ [Next]_jobs => IInv'
  BY NextInv
<1> QED
  BY <1>1, <1>2, PTL DEF Spec

-----------------------------------------------------------------------------
(* The invariants of the runs.                                             *)

\* The order of a job that is DEPLOYING or FAILED is that of a host: the count
\* the code compares it with is never larger than the list it indexes.
LEMMA OrderBound ==
    ASSUME NEW job, GoodJob(job), job.status \in {"DEPLOYING", "FAILED"}
    PROVE  job.currentOrder \in 0..(Len(job.hostOrder) - 1)
<1>1. /\ job.hostOrder \in Seq(Host)
      /\ DOMAIN job.deployment = SeqHosts(job.hostOrder)
      /\ job.currentOrder \in 0..(Cardinality(DOMAIN job.deployment) - 1)
  BY DEF GoodJob, Job, JobInv
<1> QED
  BY <1>1, OrderCardinality

\* What the inductive invariant says of every stored job.
LEMMA StoredGood ==
    ASSUME IInv
    PROVE  \A id \in DOMAIN jobs : GoodJob(jobs[id])
BY DEF IInv, GoodJob

\* The store always holds well-formed jobs (TypeOK), whatever the commands.
THEOREM TypeCorrect == Spec => []TypeOK
<1>1. IInv => TypeOK
  BY DEF IInv, JobInv, TypeOK
<1> QED
  BY <1>1, Invariance, PTL

\* No replica ever dereferences a nil order or indexes past the host order
\* (OrderInRange), for target lists with or without repeated hosts.
THEOREM OrderAlwaysInRange == Spec => []OrderInRange
<1>1. IInv => OrderInRange
  <2> SUFFICES ASSUME IInv, NEW id \in DOMAIN jobs, jobs[id].status = "DEPLOYING"
               PROVE  /\ jobs[id].currentOrder # NilOrder
                      /\ jobs[id].currentOrder < Len(jobs[id].hostOrder)
    BY DEF OrderInRange
  <2>1. GoodJob(jobs[id])
    BY StoredGood
  <2>2. jobs[id].currentOrder \in 0..(Len(jobs[id].hostOrder) - 1)
    BY <2>1, OrderBound
  <2>3. Len(jobs[id].hostOrder) \in Nat
    BY <2>1 DEF GoodJob, Job
  <2> QED
    BY <2>2, <2>3 DEF NilOrder
<1> QED
  BY <1>1, Invariance, PTL

\* The restart never passes a host that has not reported SUCCESS
\* (PrefixRestarted).
THEOREM PrefixAlwaysRestarted == Spec => []PrefixRestarted
<1>1. IInv => PrefixRestarted
  BY DEF IInv, JobInv, PrefixRestarted
<1> QED
  BY <1>1, Invariance, PTL

\* A DEPLOYED job with distinct hosts has restarted all of them
\* (DeployedAllRestarted).
THEOREM DeployedJobsAllRestarted == Spec => []DeployedAllRestarted
<1>1. IInv => DeployedAllRestarted
  <2> SUFFICES ASSUME IInv, NEW id \in DOMAIN jobs,
                      DistinctHosts(jobs[id]), jobs[id].status = "DEPLOYED",
                      NEW h \in DOMAIN jobs[id].deployment
               PROVE  jobs[id].deployment[h] = "SUCCESS"
    BY DEF DeployedAllRestarted
  <2> DEFINE order == jobs[id].hostOrder
  <2>1. /\ order \in Seq(Host)
        /\ DOMAIN jobs[id].deployment = SeqHosts(order)
        /\ jobs[id].currentOrder = Len(order)
        /\ \A i \in DOMAIN order :
              i <= jobs[id].currentOrder => jobs[id].deployment[order[i]] = "SUCCESS"
    BY StoredGood DEF GoodJob, Job, JobInv
  <2>2. PICK i \in DOMAIN order : h = order[i]
    BY <2>1 DEF SeqHosts
  <2>3. i <= Len(order)
    BY <2>1, <2>2
  <2> QED
    BY <2>1, <2>2, <2>3
<1> QED
  BY <1>1, Invariance, PTL

\* A FAILED job names the host that failed (FailedNamesHost).
THEOREM FailedAlwaysNamesHost == Spec => []FailedNamesHost
<1>1. IInv => FailedNamesHost
  <2> SUFFICES ASSUME IInv, NEW id \in DOMAIN jobs, jobs[id].status = "FAILED"
               PROVE  /\ jobs[id].currentOrder \in 0..(Len(jobs[id].hostOrder) - 1)
                      /\ jobs[id].deployment[OnProgress(jobs[id])] = "FAILED"
    BY DEF FailedNamesHost
  <2>1. GoodJob(jobs[id])
    BY StoredGood
  <2> QED
    BY <2>1, OrderBound DEF GoodJob, JobInv
<1> QED
  BY <1>1, Invariance, PTL

-----------------------------------------------------------------------------
(* The refinement: every job is a rolling restart (RollingDeploy).         *)

\* A job changes, for the rollout it stands for, in one of four ways.
RolloutStep(old, new) ==
    /\ new.hostOrder = old.hostOrder
    /\ \/ Turn(new) = Turn(old)
       \/ Turn(old) = 0 /\ Turn(new) = 1
       \/ Turn(old) \in 1..Len(old.hostOrder) /\ Turn(new) = Turn(old) + 1
       \/ Turn(new) = 0

\* The turn of a job depends on the host order, the status and, while the job
\* is DEPLOYING, the current order only.
LEMMA TurnOf ==
    ASSUME NEW job, NEW new, new.hostOrder = job.hostOrder
    PROVE  /\ DistinctHosts(new) <=> DistinctHosts(job)
           /\ ~DistinctHosts(new) => Turn(new) = 0
           /\ new.status \notin {"DEPLOYING", "DEPLOYED"} => Turn(new) = 0
           /\ new.status = job.status /\ new.currentOrder = job.currentOrder =>
                 Turn(new) = Turn(job)
           /\ DistinctHosts(new) /\ new.status = "DEPLOYING" =>
                 Turn(new) = new.currentOrder + 1
           /\ DistinctHosts(new) /\ new.status = "DEPLOYED" =>
                 Turn(new) = Len(job.hostOrder) + 1
<1>1. DistinctHosts(new) <=> DistinctHosts(job)
  BY DEF DistinctHosts
<1> HIDE DEF DistinctHosts
<1> QED
  BY <1>1 DEF Turn

\* A cancel withdraws the rollout.
LEMMA CancelledRollout ==
    ASSUME NEW job, GoodJob(job)
    PROVE  RolloutStep(job, Cancelled(job))
<1>1. Cancelled(job).hostOrder = job.hostOrder /\ Cancelled(job).status = "CANCELLED"
  BY DEF GoodJob, Job, Cancelled
<1> QED
  BY <1>1, TurnOf DEF RolloutStep

\* A configuration update withdraws it or leaves it alone.
LEMMA ConfigurationUpdatedRollout ==
    ASSUME NEW job, GoodJob(job), NEW h, NEW report
    PROVE  RolloutStep(job, ConfigurationUpdated(job, h, report))
<1> DEFINE new == ConfigurationUpdated(job, h, report)
<1>1. /\ new.hostOrder = job.hostOrder
      /\ new.currentOrder = job.currentOrder
      /\ new.status \in {job.status, "CONFIGURED"}
  BY DEF GoodJob, Job, ConfigurationUpdated
<1> HIDE DEF new
<1> QED
  BY <1>1, TurnOf DEF RolloutStep, new

\* A confirmation begins it or leaves it alone.
LEMMA RestartedRollout ==
    ASSUME NEW job, GoodJob(job), AcceptsRestart(job)
    PROVE  RolloutStep(job, Restarted(job))
<1>1. CASE job.status = "CONFIGURED"
  <2> DEFINE new == Restarted(job)
  <2>1. /\ new.hostOrder = job.hostOrder
        /\ new.currentOrder = 0
        /\ new.status = "DEPLOYING"
    BY <1>1 DEF GoodJob, Job, Restarted
  <2> HIDE DEF new
  <2>2. Turn(job) = 0 /\ Turn(new) \in {0, 1}
    BY <1>1, <2>1, TurnOf
  <2> QED
    BY <2>1, <2>2 DEF RolloutStep, new
<1>2. CASE job.status # "CONFIGURED"
  BY <1>2 DEF Restarted, RolloutStep
<1> QED
  BY <1>1, <1>2

\* A report of the host whose turn it is withdraws the rollout, leaves it
\* alone or passes the turn on: that a job is DEPLOYED only after its last host
\* needs that the entries the code counts are as many as the hosts of the plan.
LEMMA RestartUpdatedRollout ==
    ASSUME NEW job, GoodJob(job), NEW h \in Host, NEW report \in RestartReport,
           AcceptsRestartUpdate(job, h)
    PROVE  RolloutStep(job, RestartUpdated(job, h, report))
<1> DEFINE n == Cardinality(DOMAIN job.deployment)
           k == job.currentOrder
           new == RestartUpdated(job, h, report)
<1>1. /\ job \in Job /\ job.hostOrder \in Seq(Host)
      /\ job.status = "DEPLOYING"
      /\ DOMAIN job.deployment = SeqHosts(job.hostOrder)
      /\ k \in 0..(n - 1)
  BY DEF GoodJob, Job, JobInv, AcceptsRestartUpdate
<1>2. n \in Nat /\ n <= Len(job.hostOrder) /\ (DistinctHosts(job) => n = Len(job.hostOrder))
  BY <1>1, OrderCardinality DEF DistinctHosts
<1>3. new.hostOrder = job.hostOrder
  BY <1>1 DEF RestartUpdated, Job, RestartReport
<1>4. CASE report = "FAILED"
  <2>1. new.status = "FAILED"
    BY <1>1, <1>4 DEF RestartUpdated, Job
  <2> QED
    BY <1>3, <2>1, TurnOf DEF RolloutStep
<1>5. CASE report = "RESTARTING"
  <2>1. new.status = job.status /\ new.currentOrder = job.currentOrder
    BY <1>1, <1>5 DEF RestartUpdated, Job
  <2> QED
    BY <1>3, <2>1, TurnOf DEF RolloutStep
<1>6. CASE report = "SUCCESS"
  <2>1. \/ new.status = "DEPLOYED" /\ k + 1 >= n
        \/ new.status = "DEPLOYING" /\ new.currentOrder = k + 1 /\ k + 1 < n
    <3>1. CASE k + 1 >= n
      BY <1>1, <1>6, <3>1 DEF RestartUpdated, Job
    <3>2. CASE ~(k + 1 >= n)
      <4>1. new.status = "DEPLOYING" /\ new.currentOrder = k + 1
        BY <1>1, <1>6, <3>2 DEF RestartUpdated, Job
      <4>2. k + 1 < n
        BY <1>1, <1>2, <3>2
      <4> QED
        BY <4>1, <4>2
    <3> QED
      BY <3>1, <3>2
  <2> HIDE DEF new
  <2>2. DistinctHosts(new) <=> DistinctHosts(job)
    BY <1>3, TurnOf
  <2>3. CASE DistinctHosts(job)
    <3>1. Turn(job) = k + 1 /\ Turn(job) \in 1..Len(job.hostOrder)
      BY <1>1, <1>2, <2>3, TurnOf
    <3>2. Turn(new) = Turn(job) + 1
      BY <1>1, <1>2, <1>3, <2>1, <2>2, <2>3, <3>1, TurnOf
    <3> QED
      BY <1>3, <3>1, <3>2 DEF RolloutStep, new
  <2>4. CASE ~DistinctHosts(job)
    <3>1. Turn(new) = 0
      BY <1>3, <2>2, <2>4, TurnOf
    <3> QED
      BY <1>3, <3>1 DEF RolloutStep, new
  <2> QED
    BY <2>3, <2>4
<1> QED
  BY <1>4, <1>5, <1>6 DEF RestartReport

\* A step of a job's rollout is one of RollingDeploy, or changes nothing.
LEMMA StepRefines ==
    ASSUME IInv, NEW id \in DOMAIN jobs, NEW job, GoodJob(job),
           jobs' = [jobs EXCEPT ![id] = job],
           RolloutStep(jobs[id], job)
    PROVE  RD!Next \/ Abstraction' = Abstraction
<1> DEFINE old == Abstraction[id]
           turn == Turn(job)
<1>1. /\ DOMAIN Abstraction = DOMAIN jobs
      /\ old = [plan |-> jobs[id].hostOrder, turn |-> Turn(jobs[id])]
  BY DEF Abstraction, Rollout
<1>2. Abstraction' = [Abstraction EXCEPT ![id].turn = turn]
  <2>1. Abstraction' = [k \in DOMAIN jobs |-> IF k = id THEN Rollout(job) ELSE Rollout(jobs[k])]
    BY DEF IInv, Abstraction
  <2>2. Rollout(job) = [old EXCEPT !.turn = turn]
    BY <1>1 DEF Rollout, RolloutStep
  <2> QED
    BY <1>1, <2>1, <2>2 DEF Abstraction
<1> HIDE DEF turn
<1>3. CASE turn = old.turn
  BY <1>1, <1>2, <1>3 DEF Abstraction, Rollout
<1>4. CASE old.turn = 0 /\ turn = 1
  BY <1>1, <1>2, <1>4 DEF RD!Next, RD!Begin
<1>5. CASE old.turn \in 1..Len(old.plan) /\ turn = old.turn + 1
  BY <1>1, <1>2, <1>5 DEF RD!Next, RD!Pass
<1>6. CASE turn = 0
  BY <1>1, <1>2, <1>6 DEF RD!Next, RD!Withdraw
<1> QED
  BY <1>1, <1>3, <1>4, <1>5, <1>6 DEF RolloutStep, turn

\* The application implements RollingDeploy (ImplementsRollingDeploy): hosts
\* get the turn one by one, in order, and a job is DEPLOYED only after the
\* last one.
THEOREM Refinement == Spec => ImplementsRollingDeploy
<1>1. Init => RD!Init
  BY DEF Init, RD!Init, Abstraction
<1>2. ASSUME IInv, [Next]_jobs
      PROVE  RD!Next \/ Abstraction' = Abstraction
  <2>0. \A id \in DOMAIN jobs : GoodJob(jobs[id])
    BY <1>2, StoredGood
  <2>1. ASSUME NEW svc \in Service, NEW believe \in BOOLEAN,
               NEW targets \in TargetLists, UserSubmitJob(svc, believe, targets)
        PROVE  RD!Next
    <3> DEFINE job == NewJob(svc, believe, targets)
               plan == OrderOf(targets)
    <3>1. jobs' = Append(jobs, job) /\ jobs \in Seq(Job) /\ job \in Job
      BY <1>2, <2>1, NewJobGood DEF UserSubmitJob, IInv, GoodJob
    <3>2. Rollout(job) = [plan |-> plan, turn |-> 0]
      BY DEF Rollout, NewJob, Turn
    <3> HIDE DEF job
    <3>3. Abstraction' = Append(Abstraction, Rollout(job))
      <4>1. Len(jobs) \in Nat /\ DOMAIN jobs = 1..Len(jobs)
        BY <3>1
      <4>2. Abstraction \in Seq({Rollout(jobs[k]) : k \in DOMAIN jobs})
             /\ Len(Abstraction) = Len(jobs)
        BY <4>1 DEF Abstraction
      <4> QED
        BY <3>1, <4>1, <4>2 DEF Abstraction
    <3>4. RD!Submit(plan)
      BY <3>2, <3>3 DEF RD!Submit
    <3> QED
      BY <3>4 DEF RD!Next
  <2>2. ASSUME NEW id \in DOMAIN jobs, CancelJob(id)
        PROVE  RD!Next \/ Abstraction' = Abstraction
    <3> DEFINE target == CancelTarget(jobs[id].service, id)
    <3>1. target \in DOMAIN jobs
      BY <1>2, CancelTargetExists DEF JobsOf
    <3>2. jobs' = [jobs EXCEPT ![target] = Cancelled(jobs[target])]
      BY <2>2 DEF CancelJob
    <3> QED
      BY <1>2, <2>0, <3>1, <3>2, CancelledGood, CancelledRollout, StepRefines
  <2>3. ASSUME NEW id \in DOMAIN jobs, NEW h \in Host,
               NEW report \in ConfigurationReport, HostConfigurationUpdate(id, h, report)
        PROVE  RD!Next \/ Abstraction' = Abstraction
    BY <1>2, <2>0, <2>3, ConfigurationUpdatedGood, ConfigurationUpdatedRollout, StepRefines
       DEF HostConfigurationUpdate
  <2>4. ASSUME NEW id \in DOMAIN jobs, Restart(id)
        PROVE  RD!Next \/ Abstraction' = Abstraction
    BY <1>2, <2>0, <2>4, RestartedGood, RestartedRollout, StepRefines DEF Restart
  <2>5. ASSUME NEW id \in DOMAIN jobs, NEW h \in Host, NEW report \in RestartReport,
               HostRestartServiceUpdate(id, h, report)
        PROVE  RD!Next \/ Abstraction' = Abstraction
    BY <1>2, <2>0, <2>5, RestartUpdatedGood, RestartUpdatedRollout, StepRefines
       DEF HostRestartServiceUpdate
  <2>6. CASE UNCHANGED jobs
    BY <2>6 DEF Abstraction
  <2> QED
    BY <1>2, <2>1, <2>2, <2>3, <2>4, <2>5, <2>6 DEF Next
<1>3. IInv /\ [Next]_jobs => [RD!Next]_Abstraction
  BY <1>2
<1> QED
  BY <1>1, <1>3, Invariance, PTL DEF Spec, ImplementsRollingDeploy, RD!Spec
=============================================================================
