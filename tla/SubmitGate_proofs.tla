------------------------- MODULE SubmitGate_proofs -------------------------
(***************************************************************************)
(* Proofs about the submission gate, for any requests, hosts, clocks and   *)
(* services, any number of jobs and any Gap: what the ten-second check     *)
(* guarantees when requests overlap, overtake one another and are          *)
(* committed late.                                                         *)
(*                                                                         *)
(* The jobs a request saw stay where they are, because the application     *)
(* only appends; the stamp it gets is not earlier than the moment it       *)
(* looked, because its host's clock goes forward.                          *)
(***************************************************************************)
EXTENDS SubmitGate, DeployJob_proofs

SubmitInv == IInv /\ GateInv

\* What is there stays.
Grown ==
    \A id \in DOMAIN jobs :
        /\ id \in DOMAIN jobs'
        /\ jobs'[id] = jobs[id]
        /\ origin'[id] = origin[id]

LEMMA StampNumber == Stamp \subseteq Nat
BY GateAssumption DEF Stamp, Time, GateAssumption

LEMMA JobNumbers ==
    ASSUME SubmitInv
    PROVE  /\ DOMAIN jobs = 1..Len(jobs) /\ Len(jobs) \in 0..MaxJobs
           /\ DOMAIN origin = DOMAIN jobs
           /\ \A id \in DOMAIN jobs : origin[id] \in Proposal
BY MaxJobsAssumption DEF SubmitInv, IInv, GateInv, GateTypeOK, MaxJobsAssumption

LEMMA ProposalFields ==
    ASSUME NEW p \in Proposal
    PROVE  /\ p.request \in Request /\ p.service \in Service /\ p.targets \in TargetLists
           /\ p.published \in Nat /\ p.made \in Nat /\ p.seen \in Nat
<1>1. p.published \in Stamp /\ p.made \in 0..MaxClock /\ p.seen \in 0..MaxJobs
  BY DEF Proposal, Time
<1>2. MaxClock \in Nat /\ MaxJobs \in Nat
  BY GateAssumption, MaxJobsAssumption DEF GateAssumption, MaxJobsAssumption
<1>3. p.request \in Request /\ p.service \in Service /\ p.targets \in TargetLists
  BY DEF Proposal
<1>4. p.published \in Nat
  BY <1>1, StampNumber
<1>5. p.made \in Nat /\ p.seen \in Nat
  BY <1>1, <1>2
<1> QED
  BY <1>3, <1>4, <1>5

\* The handler's own clock.
LEMMA ClockNumber ==
    ASSUME GateTypeOK, NEW h \in Host
    PROVE  Now(h) \in Stamp /\ Now(h) \in Nat /\ Offset[h] \in Nat /\ clock \in Nat
BY GateAssumption DEF GateTypeOK, Now, Stamp, Time, GateAssumption

LEMMA CheckedFields ==
    ASSUME NEW q \in Handler, q.step = "checked"
    PROVE  /\ q.host \in Host /\ q.service \in Service /\ q.targets \in TargetLists
           /\ q.seen \in Nat /\ q.seen \in 0..MaxJobs
<1>1. q \in [step : {"checked"}, host : Host, service : Service,
             targets : TargetLists, seen : 0..MaxJobs]
  BY DEF Handler, Answer
<1>2. MaxJobs \in Nat
  BY MaxJobsAssumption DEF MaxJobsAssumption
<1> QED
  BY <1>1, <1>2

\* Who is clear of the jobs it saw stays clear, and is so at any later stamp.
LEMMA ClearedGrows ==
    ASSUME SubmitInv, Grown, NEW svc, NEW seen \in Nat, seen <= Len(jobs),
           NEW stamp \in Nat, NEW later \in Nat, later >= stamp,
           Cleared(svc, seen, stamp)
    PROVE  \A id \in 1..seen :
               /\ jobs'[id].service = svc
               /\ \A j \in (id + 1)..seen : jobs'[j].service # svc
               => later >= origin'[id].published + Gap
<1> SUFFICES ASSUME NEW id \in 1..seen, jobs'[id].service = svc,
                    \A j \in (id + 1)..seen : jobs'[j].service # svc
             PROVE  later >= origin'[id].published + Gap
  OBVIOUS
<1>1. 1..seen \subseteq DOMAIN jobs
  BY JobNumbers
<1>2. /\ jobs[id].service = svc
      /\ \A j \in (id + 1)..seen : jobs[j].service # svc
      /\ origin'[id] = origin[id]
  BY <1>1 DEF Grown
<1>3. stamp >= origin[id].published + Gap
  BY <1>2 DEF Cleared
<1>4. origin[id].published \in Nat /\ Gap \in Nat
  BY <1>1, JobNumbers, ProposalFields, GateAssumption DEF GateAssumption
<1> QED
  BY <1>2, <1>3, <1>4

\* A proposal that passed the check has passed it for good.
LEMMA PassedGrows ==
    ASSUME SubmitInv, Grown, NEW p \in Proposal, Passed(p), Len(jobs') \in Nat,
           Len(jobs) <= Len(jobs')
    PROVE  Passed(p)'
<1>1. p.seen \in Nat /\ p.published \in Nat /\ Len(jobs) \in Nat
  BY ProposalFields, JobNumbers
<1>2. p.seen <= Len(jobs) /\ Cleared(p.service, p.seen, p.published)
  BY DEF Passed
<1>3. \A id \in 1..p.seen :
               /\ jobs'[id].service = p.service
               /\ \A j \in (id + 1)..p.seen : jobs'[j].service # p.service
               => p.published >= origin'[id].published + Gap
  BY <1>1, <1>2, p.published >= p.published, ClearedGrows
<1> QED
  BY <1>1, <1>2, <1>3 DEF Passed, Cleared

-----------------------------------------------------------------------------
(* The steps.                                                              *)

LEMMA GateInitInv == GateInit => SubmitInv
<1> SUFFICES ASSUME GateInit PROVE SubmitInv
  OBVIOUS
<1>1. IInv /\ jobs = <<>>
  BY InitInv DEF GateInit, Init
<1>2. GateTypeOK
  BY <1>1, GateAssumption DEF GateInit, GateTypeOK, Handler, Time, GateAssumption
<1> QED
  BY <1>1, <1>2 DEF SubmitInv, GateInv, GateInit, At

\* What is to show of a step: jobs are added only for proposals in flight, and who
\* has just been checked or has just proposed has passed.
LEMMA StepKeeps ==
    ASSUME SubmitInv, [Next]_jobs, Grown, GateTypeOK', clock' >= clock,
           Len(jobs) <= Len(jobs'),
           \A id \in DOMAIN jobs' : id \notin DOMAIN jobs =>
               /\ origin'[id] \in inFlight /\ Len(jobs) < id
               /\ jobs'[id].service = origin'[id].service,
           \A p \in inFlight' : p \in inFlight \/ Passed(p),
           \A r \in Request : request'[r].step = "checked" =>
               \/ request'[r] = request[r]
               \/ /\ request'[r].seen <= Len(jobs)
                  /\ Cleared(request'[r].service, request'[r].seen, Now(request'[r].host))
    PROVE  SubmitInv'
<1>1. IInv' /\ Len(jobs) \in Nat /\ Len(jobs') \in Nat
  BY NextInv, JobNumbers DEF SubmitInv, IInv
<1>2. inFlight \subseteq Proposal /\ inFlight' \subseteq Proposal
  BY DEF SubmitInv, GateInv, GateTypeOK
<1>3. \A p \in inFlight : Passed(p)
  BY DEF SubmitInv, GateInv
<1>4. \A p \in inFlight' : Passed(p)'
  BY <1>1, <1>2, <1>3, PassedGrows
<1>5. ASSUME NEW id \in DOMAIN jobs'
      PROVE  /\ jobs'[id].service = origin'[id].service /\ origin'[id].seen < id
             /\ Passed(origin[id])'
  <2>1. CASE id \in DOMAIN jobs
    <3>1. /\ origin'[id] = origin[id] /\ jobs'[id] = jobs[id] /\ Passed(origin[id])
          /\ origin[id].seen < id /\ jobs[id].service = origin[id].service
      BY <2>1 DEF Grown, SubmitInv, GateInv
    <3>2. PICK p \in Proposal : p = origin[id]
      BY <2>1, JobNumbers
    <3>3. Passed(p)'
      BY <1>1, <3>1, <3>2, PassedGrows
    <3> QED
      BY <3>1, <3>2, <3>3 DEF Passed
  <2>2. CASE id \notin DOMAIN jobs
    <3>1. PICK p \in inFlight : p = origin'[id]
      BY <2>2
    <3>2. Len(jobs) < id /\ jobs'[id].service = origin'[id].service /\ id \in Nat
      BY <2>2, <1>1 DEF IInv
    <3>3. Passed(p)' /\ p.seen <= Len(jobs) /\ p.seen \in Nat
      BY <1>1, <1>2, <1>3, PassedGrows, ProposalFields DEF Passed
    <3> QED
      BY <1>1, <3>1, <3>2, <3>3 DEF Passed
  <2> QED
    BY <2>1, <2>2
<1>6. ASSUME NEW r \in Request, request'[r].step = "checked"
      PROVE  /\ request'[r].seen <= Len(jobs')
             /\ Cleared(request[r].service, request[r].seen, Now(request[r].host))'
  <2> DEFINE h == request'[r].host
             svc == request'[r].service
             seen == request'[r].seen
             later == clock' + Offset[h]
  <2>1. h \in Host /\ seen \in Nat
    <3>1. request'[r] \in Handler
      BY DEF GateTypeOK
    <3> QED
      BY <1>6, <3>1, CheckedFields
  <2>2. seen <= Len(jobs) /\ Cleared(svc, seen, Now(h))
    BY <1>6 DEF SubmitInv, GateInv, At
  <2>3. Now(h) \in Nat /\ Offset[h] \in Nat
    BY <2>1, ClockNumber DEF SubmitInv, GateInv
  <2>4. clock \in Nat /\ clock' \in Nat
    BY DEF SubmitInv, GateInv, GateTypeOK, Time
  <2>5. later \in Nat /\ later >= Now(h)
    BY <2>3, <2>4 DEF Now
  <2>6. \A id \in 1..seen :
               /\ jobs'[id].service = svc
               /\ \A j \in (id + 1)..seen : jobs'[j].service # svc
               => later >= origin'[id].published + Gap
    <3> HIDE DEF h, svc, seen, later
    <3>1. PICK stamp \in Nat : stamp = Now(h)
      BY <2>3
    <3> QED
      BY <2>1, <2>2, <2>3, <2>5, <3>1, ClearedGrows
  <2>7. seen <= Len(jobs')
    BY <1>1, <2>1, <2>2
  <2> QED
    BY <2>6, <2>7 DEF Cleared, Now
<1> QED
  BY <1>1, <1>4, <1>5, <1>6 DEF SubmitInv, GateInv, At

\* A handler goes on without anything to keep.
LEMMA GoToTyped ==
    ASSUME GateTypeOK, NEW r \in Request,
           NEW step \in {"idle", "proposed"} \cup Answer, GoTo(r, step)
    PROVE  /\ request' \in [Request -> Handler]
           /\ \A other \in Request : request'[other].step = "checked"
                  => request'[other] = request[other]
<1>1. [step |-> step] \in Handler
  BY DEF Handler
<1>2. step # "checked"
  BY DEF Answer
<1> QED
  BY <1>1, <1>2 DEF GateTypeOK, GoTo

\* Who passes the check is clear of all the jobs there are.
LEMMA CheckPasses ==
    ASSUME SubmitInv, NEW h \in Host, NEW svc \in Service, ~TooFast(h, svc)
    PROVE  Cleared(svc, Len(jobs), Now(h))
<1> SUFFICES ASSUME NEW id \in 1..Len(jobs), jobs[id].service = svc,
                    \A j \in (id + 1)..Len(jobs) : jobs[j].service # svc
             PROVE  Now(h) >= origin[id].published + Gap
  BY DEF Cleared
<1>1. DOMAIN jobs = 1..Len(jobs) /\ Len(jobs) \in Nat
  BY JobNumbers
<1>2. id \in JobsOf(svc) /\ \A k \in JobsOf(svc) : k <= id
  BY <1>1 DEF JobsOf
<1>3. Latest(svc) = id
  <2>1. Latest(svc) \in JobsOf(svc) /\ \A k \in JobsOf(svc) : k <= Latest(svc)
    BY <1>2 DEF Latest
  <2>2. Latest(svc) \in Nat /\ Latest(svc) <= id /\ id <= Latest(svc)
    BY <1>1, <1>2, <2>1 DEF JobsOf
  <2> QED
    BY <2>2
<1>4. ~ (Now(h) - origin[id].published < Gap)
  BY <1>2, <1>3 DEF TooFast
<1>5. origin[id].published \in Nat /\ Now(h) \in Nat /\ Gap \in Nat
  BY <1>1, JobNumbers, ProposalFields, ClockNumber, GateAssumption
     DEF GateAssumption, SubmitInv, GateInv
<1> QED
  BY <1>4, <1>5
LEMMA JobsStay ==
    ASSUME SubmitInv, UNCHANGED <<jobs, origin>>
    PROVE  [Next]_jobs /\ Grown /\ Len(jobs) <= Len(jobs') /\ DOMAIN jobs' = DOMAIN jobs
BY JobNumbers DEF Grown

LEMMA TickStep ==
    ASSUME SubmitInv, Tick
    PROVE  SubmitInv'
<1>1. GateTypeOK' /\ clock' >= clock
  BY GateAssumption DEF SubmitInv, GateInv, GateTypeOK, Tick, Time, GateAssumption
<1> QED
  BY <1>1, JobsStay, StepKeeps DEF Tick

LEMMA SubmitStep ==
    ASSUME SubmitInv, NEW r \in Request, NEW h \in Host, NEW svc \in Service,
           NEW targets \in TargetLists, Submit(r, h, svc, targets)
    PROVE  SubmitInv'
<1> DEFINE q == [step |-> "valid", host |-> h, service |-> svc, targets |-> targets]
<1>1. q \in Handler /\ q.step # "checked"
  BY DEF Handler
<1>2. GateTypeOK
  BY DEF SubmitInv, GateInv
<1>3. /\ request' \in [Request -> Handler]
      /\ \A other \in Request : request'[other].step = "checked"
             => request'[other] = request[other]
  <2>1. CASE request' = [request EXCEPT ![r] = q]
    <3> HIDE DEF q
    <3> QED
      BY <1>1, <1>2, <2>1 DEF GateTypeOK
  <2>2. CASE GoTo(r, "invalid")
    BY <1>2, <2>2, GoToTyped DEF Answer
  <2> QED
    BY <2>1, <2>2 DEF Submit
<1>4. GateTypeOK' /\ clock' >= clock
  BY <1>2, <1>3 DEF GateTypeOK, Submit, Time
<1> QED
  BY <1>3, <1>4, JobsStay, StepKeeps DEF Submit

LEMMA HandlerEnds ==
    ASSUME SubmitInv, NEW r \in Request, CancelOverHttp(r) \/ TimeOut(r)
    PROVE  SubmitInv'
<1>1. GateTypeOK
  BY DEF SubmitInv, GateInv
<1>2. GoTo(r, "error") /\ UNCHANGED <<jobs, clock, inFlight, origin>>
  BY DEF CancelOverHttp, TimeOut
<1>3. /\ request' \in [Request -> Handler]
      /\ \A other \in Request : request'[other].step = "checked"
             => request'[other] = request[other]
  BY <1>1, <1>2, GoToTyped DEF Answer
<1>4. GateTypeOK' /\ clock' >= clock
  BY <1>1, <1>2, <1>3 DEF GateTypeOK, Time
<1> QED
  BY <1>2, <1>3, <1>4, JobsStay, StepKeeps

LEMMA CheckStep ==
    ASSUME SubmitInv, NEW r \in Request, Check(r)
    PROVE  SubmitInv'
<1> DEFINE q == request[r]
<1>1. GateTypeOK /\ UNCHANGED <<jobs, clock, inFlight, origin>> /\ q.step = "valid"
  BY DEF SubmitInv, GateInv, Check, At
<1>2. q.host \in Host /\ q.service \in Service /\ q.targets \in TargetLists
  <2>1. q \in Handler
    BY <1>1 DEF GateTypeOK
  <2>2. q \in [step : {"valid"}, host : Host, service : Service, targets : TargetLists]
    <3> HIDE DEF q
    <3> QED
      BY <1>1, <2>1 DEF Handler, Answer
  <2> QED
    BY <2>2
<1>3. CASE GoTo(r, "too fast")
  <2>1. /\ request' \in [Request -> Handler]
        /\ \A other \in Request : request'[other].step = "checked"
               => request'[other] = request[other]
    BY <1>1, <1>3, GoToTyped DEF Answer
  <2>2. GateTypeOK' /\ clock' >= clock
    BY <1>1, <2>1 DEF GateTypeOK, Time
  <2> QED
    BY <1>1, <2>1, <2>2, JobsStay, StepKeeps
<1>4. CASE ~TooFast(q.host, q.service) /\ ~GoTo(r, "too fast")
  <2> DEFINE next == [step |-> "checked", host |-> q.host, service |-> q.service,
                      targets |-> q.targets, seen |-> Len(jobs)]
  <2>1. request' = [request EXCEPT ![r] = next]
    BY <1>4 DEF Check
  <2>2. next \in Handler
    BY <1>2, JobNumbers DEF Handler
  <2>3. Cleared(q.service, Len(jobs), Now(q.host))
    BY <1>2, <1>4, CheckPasses
  <2>4. /\ request' \in [Request -> Handler] /\ request'[r] = next
        /\ \A other \in Request \ {r} : request'[other] = request[other]
    <3> HIDE DEF next, q
    <3> QED
      BY <1>1, <2>1, <2>2 DEF GateTypeOK
  <2>5. GateTypeOK' /\ clock' >= clock
    BY <1>1, <2>4 DEF GateTypeOK, Time
  <2>6. \A other \in Request :
            \/ request'[other] = request[other]
            \/ /\ request'[other].seen <= Len(jobs)
               /\ Cleared(request'[other].service, request'[other].seen,
                          Now(request'[other].host))
    <3>1. next.seen = Len(jobs) /\ next.service = q.service /\ next.host = q.host
      OBVIOUS
    <3>2. Len(jobs) <= Len(jobs)
      BY JobNumbers
    <3> HIDE DEF next, q
    <3> QED
      BY <2>3, <2>4, <3>1, <3>2
  <2> QED
    BY <1>1, <2>5, <2>6, JobsStay, StepKeeps
<1> QED
  BY <1>3, <1>4 DEF Check

LEMMA ProposeStep ==
    ASSUME SubmitInv, NEW r \in Request, Propose(r)
    PROVE  SubmitInv'
<1> DEFINE q == request[r]
           p == [request |-> r, service |-> q.service, targets |-> q.targets,
                 published |-> Now(q.host), made |-> clock, seen |-> q.seen]
<1>1. /\ GateTypeOK /\ GoTo(r, "proposed") /\ At(r, "checked")
      /\ inFlight' = inFlight \cup {p} /\ UNCHANGED <<jobs, clock, origin>>
  BY DEF SubmitInv, GateInv, Propose
<1>2. /\ q.host \in Host /\ q.service \in Service /\ q.targets \in TargetLists
      /\ q.seen \in 0..MaxJobs
  BY <1>1, CheckedFields DEF GateTypeOK, At
<1>3. Now(q.host) \in Stamp /\ clock \in Time
  BY <1>1, <1>2, ClockNumber DEF GateTypeOK
<1>4. p \in Proposal
  BY <1>2, <1>3 DEF Proposal
<1>5. q.seen <= Len(jobs) /\ Cleared(q.service, q.seen, Now(q.host))
  BY <1>1 DEF SubmitInv, GateInv
<1>6. p.published = p.made + Offset[q.host]
  BY DEF Now
<1>7. Passed(p)
  BY <1>2, <1>5, <1>6 DEF Passed
<1>8. /\ request' \in [Request -> Handler]
      /\ \A other \in Request : request'[other].step = "checked"
             => request'[other] = request[other]
  BY <1>1, GoToTyped
<1> HIDE DEF p, q
<1>9. GateTypeOK' /\ clock' >= clock
  BY <1>1, <1>4, <1>8 DEF GateTypeOK, Time
<1> QED
  BY <1>1, <1>7, <1>8, <1>9, JobsStay, StepKeeps

\* What raft tells the handler that still waits.
LEMMA DecideTyped ==
    ASSUME GateTypeOK, NEW p \in inFlight, NEW answer \in Answer, Decide(p, answer)
    PROVE  /\ request' \in [Request -> Handler]
           /\ inFlight' \subseteq inFlight
           /\ \A other \in Request : request'[other].step = "checked"
                  => request'[other] = request[other]
<1>1. p.request \in Request
  BY ProposalFields DEF GateTypeOK
<1> QED
  BY <1>1, GoToTyped DEF Decide, GateTypeOK

LEMMA RefusedStep ==
    ASSUME SubmitInv, NEW p \in inFlight, Reject(p) \/ Lose(p)
    PROVE  SubmitInv'
<1>1. GateTypeOK /\ UNCHANGED <<jobs, clock, origin>>
  BY DEF SubmitInv, GateInv, Reject, Lose
<1>2. /\ request' \in [Request -> Handler]
      /\ inFlight' \subseteq inFlight
      /\ \A other \in Request : request'[other].step = "checked"
             => request'[other] = request[other]
  <2>1. CASE Reject(p)
    BY <1>1, <2>1, DecideTyped DEF Reject, Answer
  <2>2. CASE Lose(p)
    BY <1>1, <2>2 DEF Lose, GateTypeOK
  <2> QED
    BY <2>1, <2>2
<1>3. GateTypeOK' /\ clock' >= clock
  BY <1>1, <1>2 DEF GateTypeOK, Time
<1> QED
  BY <1>1, <1>2, <1>3, JobsStay, StepKeeps

LEMMA CommitsJob ==
    ASSUME SubmitInv, NEW p \in inFlight, Commit(p)
    PROVE  SubmitInv'
<1>1. GateTypeOK /\ p \in Proposal /\ clock' = clock
  BY DEF SubmitInv, GateInv, GateTypeOK, Commit
<1>2. p.service \in Service /\ p.targets \in TargetLists
  BY <1>1, ProposalFields
<1>3. [Next]_jobs
  BY <1>2 DEF Commit, Next
<1> DEFINE job == NewJob(p.service, TRUE, p.targets)
<1>4. jobs' = Append(jobs, job) /\ job.service = p.service /\ origin' = Append(origin, p)
  BY DEF Commit, UserSubmitJob, NewJob
<1> HIDE DEF job
<1>5. /\ jobs \in Seq(Job) /\ origin \in Seq(Proposal) /\ DOMAIN origin = DOMAIN jobs
      /\ Len(jobs) \in Nat
  BY <1>1 DEF SubmitInv, IInv, GateTypeOK
<1>6. Len(origin) = Len(jobs)
  BY <1>5
<1>7. /\ DOMAIN jobs' = 1..(Len(jobs) + 1) /\ Len(jobs') = Len(jobs) + 1
      /\ \A id \in 1..Len(jobs) : jobs'[id] = jobs[id]
      /\ jobs'[Len(jobs) + 1] = job
  BY <1>4, <1>5
<1>8. /\ DOMAIN origin' = 1..(Len(jobs) + 1) /\ origin' \in Seq(Proposal)
      /\ \A id \in 1..Len(jobs) : origin'[id] = origin[id]
      /\ origin'[Len(jobs) + 1] = p
  BY <1>1, <1>4, <1>5, <1>6
<1>9. Grown /\ Len(jobs) <= Len(jobs')
  BY <1>5, <1>7, <1>8 DEF Grown
<1>10. \A id \in DOMAIN jobs' : id \notin DOMAIN jobs =>
           /\ origin'[id] \in inFlight /\ Len(jobs) < id
           /\ jobs'[id].service = origin'[id].service
  <2> SUFFICES ASSUME NEW id \in DOMAIN jobs', id \notin DOMAIN jobs
               PROVE  /\ origin'[id] \in inFlight /\ Len(jobs) < id
                      /\ jobs'[id].service = origin'[id].service
    OBVIOUS
  <2>1. id = Len(jobs) + 1
    BY <1>5, <1>7
  <2> QED
    BY <1>4, <1>5, <1>7, <1>8, <2>1
<1>11. /\ request' \in [Request -> Handler]
       /\ inFlight' \subseteq inFlight
       /\ \A other \in Request : request'[other].step = "checked"
              => request'[other] = request[other]
  BY <1>1, DecideTyped DEF Commit, Answer
<1>12. GateTypeOK' /\ clock' >= clock
  BY <1>1, <1>7, <1>8, <1>11 DEF GateTypeOK, Time
<1> QED
  BY <1>3, <1>9, <1>10, <1>11, <1>12, StepKeeps

LEMMA GateNextInv ==
    ASSUME SubmitInv, [GateNext]_allVars
    PROVE  SubmitInv'
<1>1. CASE UNCHANGED allVars
  <2>1. UNCHANGED <<jobs, clock, request, inFlight, origin>>
    BY <1>1 DEF allVars, gateVars
  <2>2. GateTypeOK' /\ clock' >= clock
    BY <2>1 DEF SubmitInv, GateInv, GateTypeOK, Time
  <2> QED
    BY <2>1, <2>2, JobsStay, StepKeeps
<1> QED
  BY <1>1, TickStep, SubmitStep, HandlerEnds, CheckStep, ProposeStep, RefusedStep, CommitsJob
     DEF GateNext, HandlerStep

-----------------------------------------------------------------------------
(* The theorems.                                                           *)

\* The gate's invariant holds throughout, and with it the application's.
THEOREM GateInvariance == GateSpec => []SubmitInv
<1>1. SubmitInv /\ [GateNext]_allVars => SubmitInv'
  BY GateNextInv
<1> QED
  BY <1>1, GateInitInv, PTL DEF GateSpec

\* The handlers, proposals and jobs are well formed: every job has the proposal
\* that made it.
THEOREM GateTypeCorrect == GateSpec => []GateTypeOK
<1>1. SubmitInv => GateTypeOK
  BY DEF SubmitInv, GateInv
<1> QED
  BY <1>1, GateInvariance, PTL

\* Of two jobs of a service of which the later asked after the earlier was
\* committed, the later is Gap younger than the latest job it saw, and that job
\* is not older than the earlier one, unless it was overtaken.
LEMMA SeenLatest ==
    ASSUME SubmitInv, NEW i \in DOMAIN jobs, NEW k \in DOMAIN jobs, After(i, k)
    PROVE  origin[k].published >= origin[i].published + Gap
<1> DEFINE svc == jobs[i].service
           seen == origin[k].seen
           S == {id \in 1..seen : jobs[id].service = svc}
<1>1. /\ DOMAIN jobs = 1..Len(jobs) /\ Len(jobs) \in Nat /\ seen \in Nat
      /\ origin[k].published \in Nat /\ origin[i].published \in Nat /\ Gap \in Nat
  BY JobNumbers, ProposalFields, GateAssumption DEF GateAssumption
<1>2. /\ seen <= Len(jobs) /\ origin[k].service = svc
      /\ Cleared(origin[k].service, seen, origin[k].published)
  BY DEF SubmitInv, GateInv, Passed, After
<1>3. i \in S /\ S \in SUBSET (1..seen)
  BY <1>1 DEF After
<1>4. PICK last \in S : \A id \in S : id <= last
  <2> HIDE DEF S
  <2> QED
    BY <1>1, <1>3, LargestId
<1>5. last \in DOMAIN jobs /\ last \in Nat /\ i <= last /\ last <= seen
  BY <1>1, <1>2, <1>3, <1>4
<1>6. origin[last].published \in Nat
  BY <1>5, JobNumbers, ProposalFields
<1>7. origin[last].published >= origin[i].published
  <2>1. CASE last = i
    BY <1>1, <2>1
  <2>2. CASE last \in (i + 1)..seen
    BY <1>4, <2>2 DEF After
  <2> QED
    BY <1>1, <1>5, <2>1, <2>2
<1>8. \A j \in (last + 1)..seen : jobs[j].service # svc
  BY <1>1, <1>4, <1>5
<1>9. origin[k].published >= origin[last].published + Gap
  BY <1>2, <1>4, <1>8 DEF Cleared
<1>10. \A a, b, c, g \in Nat : a >= b + g /\ b >= c => a >= c + g
  OBVIOUS
<1> QED
  BY <1>1, <1>6, <1>7, <1>9, <1>10

\* What the ten-second gate guarantees, for any number of overlapping requests.
THEOREM JobsAlwaysSpaced == GateSpec => []JobsSpaced
<1>1. SubmitInv => JobsSpaced
  BY SeenLatest DEF JobsSpaced
<1> QED
  BY <1>1, GateInvariance, PTL

\* And by a common clock, which no host need have.
THEOREM JobsAlwaysSpacedInTime == GateSpec => []JobsSpacedInTime
<1>1. ASSUME SubmitInv, NEW i \in DOMAIN jobs, NEW k \in DOMAIN jobs, After(i, k)
      PROVE  \E h \in Host : origin[k].made + Offset[h] >= origin[i].made + Gap
  <2>1. origin[k].published >= origin[i].published + Gap
    BY <1>1, SeenLatest
  <2>2. PICK h \in Host : origin[k].published = origin[k].made + Offset[h]
    BY <1>1 DEF SubmitInv, GateInv, Passed
  <2>3. PICK g \in Host : origin[i].published = origin[i].made + Offset[g]
    BY <1>1 DEF SubmitInv, GateInv, Passed
  <2>4. /\ origin[k].made \in Nat /\ origin[i].made \in Nat /\ Gap \in Nat
        /\ Offset[h] \in Nat /\ Offset[g] \in Nat
    BY <1>1, JobNumbers, ProposalFields, GateAssumption DEF GateAssumption
  <2> QED
    BY <2>1, <2>2, <2>3, <2>4
<1>2. SubmitInv => JobsSpacedInTime
  BY <1>1 DEF JobsSpacedInTime
<1> QED
  BY <1>2, GateInvariance, PTL

-----------------------------------------------------------------------------
(* A request makes one job at most.  A step that neither proposes nor      *)
(* commits leaves the proposals and jobs of every request as they are, or  *)
(* fewer, and an answer changes the step of a request that waits.          *)

LEMMA RequestKeeps ==
    ASSUME RequestInv, inFlight' \subseteq inFlight, origin' = origin,
           \A r \in Request :
               request[r].step \in {"proposed", "success", "error"} =>
                   \/ request'[r] = request[r]
                   \/ request'[r].step = "error"
    PROVE  RequestInv'
<1> SUFFICES ASSUME NEW r \in Request
             PROVE  /\ \A p, q \in Undecided(r)' : p = q
                    /\ \A i, k \in MadeFor(r)' : i = k
                    /\ Undecided(r)' = {} \/ MadeFor(r)' = {}
                    /\ Undecided(r)' # {} => request'[r].step \in {"proposed", "error"}
                    /\ MadeFor(r)' # {} => request'[r].step \in {"success", "error"}
  BY DEF RequestInv
<1>1. Undecided(r)' \subseteq Undecided(r) /\ MadeFor(r)' = MadeFor(r)
  BY DEF Undecided, MadeFor
<1> QED
  BY <1>1 DEF RequestInv

LEMMA RequestProposes ==
    ASSUME SubmitInv, RequestInv, NEW r \in Request, Propose(r)
    PROVE  RequestInv'
<1>1. PICK p : p.request = r /\ inFlight' = inFlight \cup {p}
  BY DEF Propose
<1>2. request[r].step = "checked" /\ origin' = origin
  BY DEF Propose, At
<1>3. request' = [request EXCEPT ![r] = [step |-> "proposed"]] /\ DOMAIN request = Request
  BY DEF Propose, GoTo, SubmitInv, GateInv, GateTypeOK
<1>4. Undecided(r) = {} /\ MadeFor(r) = {}
  BY <1>2 DEF RequestInv
<1>5. Undecided(r)' = {p} /\ MadeFor(r)' = {}
  BY <1>1, <1>2, <1>4 DEF Undecided, MadeFor
<1>6. request'[r].step = "proposed"
  BY <1>3
<1>7. ASSUME NEW o \in Request, o # r
      PROVE  Undecided(o)' = Undecided(o) /\ MadeFor(o)' = MadeFor(o) /\ request'[o] = request[o]
  BY <1>1, <1>2, <1>3, <1>7 DEF Undecided, MadeFor
<1> QED
  BY <1>5, <1>6, <1>7 DEF RequestInv

LEMMA RequestCommits ==
    ASSUME SubmitInv, RequestInv, NEW p \in inFlight, Commit(p)
    PROVE  RequestInv'
<1> DEFINE r == p.request
           id == Len(origin) + 1
<1>1. r \in Request /\ p \in Undecided(r) /\ DOMAIN request = Request /\ origin \in Seq(Proposal)
  BY ProposalFields DEF SubmitInv, GateInv, GateTypeOK, Undecided
<1>2. MadeFor(r) = {} /\ Undecided(r) = {p} /\ request[r].step \in {"proposed", "error"}
  BY <1>1 DEF RequestInv
<1>3. inFlight' = inFlight \ {p} /\ origin' = Append(origin, p)
  BY DEF Commit, Decide
<1>4. /\ DOMAIN origin' = DOMAIN origin \cup {id} /\ id \notin DOMAIN origin
      /\ \A k \in DOMAIN origin : origin'[k] = origin[k]
      /\ origin'[id] = p
  BY <1>1, <1>3
<1>5. /\ request'[r].step \in {"success", "error"}
      /\ \A o \in Request : o # r => request'[o] = request[o]
  BY <1>1, <1>2 DEF Commit, Decide, At, GoTo
<1> HIDE DEF id
<1>6. Undecided(r)' = {} /\ MadeFor(r)' = {id}
  BY <1>2, <1>3, <1>4 DEF Undecided, MadeFor
<1>7. ASSUME NEW o \in Request, o # r
      PROVE  Undecided(o)' = Undecided(o) /\ MadeFor(o)' = MadeFor(o)
  BY <1>3, <1>4, <1>7 DEF Undecided, MadeFor
<1> QED
  BY <1>5, <1>6, <1>7 DEF RequestInv

LEMMA RequestNext ==
    ASSUME SubmitInv, RequestInv, [GateNext]_allVars
    PROVE  RequestInv'
<1>0. DOMAIN request = Request /\ \A p \in inFlight : p.request \in Request
  BY ProposalFields DEF SubmitInv, GateInv, GateTypeOK
<1>1. CASE Tick \/ UNCHANGED allVars
  BY <1>1, RequestKeeps DEF Tick, allVars, gateVars
<1>2. ASSUME NEW r \in Request, NEW h \in Host, NEW svc \in Service,
             NEW targets \in TargetLists, Submit(r, h, svc, targets)
      PROVE  RequestInv'
  BY <1>0, <1>2, RequestKeeps DEF Submit, At, GoTo
<1>3. ASSUME NEW r \in Request, CancelOverHttp(r) \/ Check(r) \/ TimeOut(r)
      PROVE  RequestInv'
  <2>1. /\ \A o \in Request : o # r => request'[o] = request[o]
        /\ inFlight' = inFlight /\ origin' = origin
        /\ request[r].step \in {"idle", "valid"} \/ request'[r].step = "error"
    <3>1. CASE CancelOverHttp(r)
      BY <1>0, <3>1 DEF CancelOverHttp, At, GoTo
    <3>2. CASE Check(r)
      BY <1>0, <3>2 DEF Check, At, GoTo
    <3>3. CASE TimeOut(r)
      BY <1>0, <3>3 DEF TimeOut, At, GoTo
    <3> QED
      BY <1>3, <3>1, <3>2, <3>3
  <2> QED
    BY <2>1, RequestKeeps
<1>4. ASSUME NEW p \in inFlight, Reject(p) \/ Lose(p)
      PROVE  RequestInv'
  BY <1>0, <1>4, RequestKeeps DEF Reject, Lose, Decide, At, GoTo
<1> QED
  BY <1>1, <1>2, <1>3, <1>4, RequestProposes, RequestCommits DEF GateNext, HandlerStep

\* No request makes two jobs, and none that was refused makes one, whatever is
\* lost, answered late or committed after its handler gave up.
THEOREM RequestsMakeOneJob == GateSpec => []OneJobPerRequest
<1>1. GateInit => RequestInv
  BY DEF GateInit, RequestInv, Undecided, MadeFor
<1>2. SubmitInv /\ RequestInv /\ [GateNext]_allVars => RequestInv'
  BY RequestNext
<1>3. SubmitInv /\ RequestInv => OneJobPerRequest
  <2> SUFFICES ASSUME SubmitInv, RequestInv PROVE OneJobPerRequest
    OBVIOUS
  <2>1. \A i \in DOMAIN origin : origin[i].request \in Request
    BY JobNumbers, ProposalFields
  <2>2. \A i \in DOMAIN origin : i \in MadeFor(origin[i].request)
    BY DEF MadeFor
  <2>3. ASSUME NEW i \in DOMAIN origin, NEW k \in DOMAIN origin,
               origin[i].request = origin[k].request
        PROVE  i = k
    BY <2>1, <2>3 DEF RequestInv, MadeFor
  <2>4. \A i \in DOMAIN origin : request[origin[i].request].step \in {"success", "error"}
    BY <2>1, <2>2 DEF RequestInv
  <2> QED
    BY <2>3, <2>4 DEF OneJobPerRequest
<1> QED
  BY <1>1, <1>2, <1>3, GateInvariance, PTL DEF GateSpec
=============================================================================
