----------------------------- MODULE SubmitGate -----------------------------
(***************************************************************************)
(* Submitting a deployment over HTTP: the handlers SubmitJob and CancelJob *)
(* of internal/src/deploy-job/integration_http.go in front of the          *)
(* replicated application, DeployJob.                                      *)
(*                                                                         *)
(* The application does not look for duplicates ("needto validate          *)
(* duplication outside raft", app.go).  The handler reads the latest job   *)
(* of the service, refuses when that was published less than Gap (ten      *)
(* seconds) ago, stamps the new request with its own clock and proposes    *)
(* it; other requests, on this host or on others, go on between any two of *)
(* these steps.  A proposal may be lost, or be answered with a timeout and *)
(* be committed later.                                                     *)
(*                                                                         *)
(* Raft is external: reads see what is committed, a proposal is committed  *)
(* at most once.                                                           *)
(***************************************************************************)
EXTENDS DeployJob

CONSTANTS
    Request,        \* HTTP requests, retries of the user being requests too
    Known,          \* the services that have a definition
    Offset,         \* Offset[h]: how far the clock of host h is ahead
    Gap,            \* the ten seconds, in ticks
    MaxClock        \* bound: the ticks of the clock

ASSUME GateAssumption ==
    /\ Known \subseteq Service
    /\ Offset \in [Host -> Nat]
    /\ Gap \in Nat /\ MaxClock \in Nat

VARIABLES
    clock,          \* real time
    request,        \* request[r]: where its handler is, and what it holds
    inFlight,       \* the proposals raft has not decided
    origin          \* origin[id]: the proposal that made job id

gateVars == <<clock, request, inFlight, origin>>
allVars == <<jobs, gateVars>>

Answer == {"invalid", "too fast", "success", "error"}
Time == 0..MaxClock
Stamp == UNION {{t + Offset[h] : t \in Time} : h \in Host}

\* A handler that has read the request; that has looked at the latest job, when
\* there were `seen' jobs; that waits for raft, or has answered.
Handler ==
    [step : {"valid"}, host : Host, service : Service, targets : TargetLists]
    \cup [step : {"checked"}, host : Host, service : Service, targets : TargetLists,
          seen : 0..MaxJobs]
    \cup [step : {"idle", "proposed"} \cup Answer]

\* PublishedAt is by the host's clock, `made' is the time it was.
Proposal ==
    [request : Request, service : Service, targets : TargetLists,
     published : Stamp, made : Time, seen : 0..MaxJobs]

GateTypeOK ==
    /\ clock \in Time
    /\ request \in [Request -> Handler]
    /\ inFlight \subseteq Proposal
    /\ origin \in Seq(Proposal)
    /\ DOMAIN origin = DOMAIN jobs

At(r, step) == request[r].step = step
GoTo(r, step) == request' = [request EXCEPT ![r] = [step |-> step]]

GateInit ==
    /\ Init
    /\ clock = 0
    /\ request = [r \in Request |-> [step |-> "idle"]]
    /\ inFlight = {}
    /\ origin = <<>>

Tick ==
    /\ clock < MaxClock
    /\ clock' = clock + 1
    /\ UNCHANGED <<jobs, request, inFlight, origin>>

-----------------------------------------------------------------------------
(* SubmitJob.                                                              *)

Now(h) == clock + Offset[h]

\* A request reaches host h; it is read, and its service looked up.
Submit(r, h, svc, targets) ==
    /\ At(r, "idle")
    /\ \/ /\ svc \in Known
          /\ request' = [request EXCEPT
                ![r] = [step |-> "valid", host |-> h, service |-> svc, targets |-> targets]]
       \/ svc \notin Known /\ GoTo(r, "invalid")
    /\ UNCHANGED <<jobs, clock, inFlight, origin>>

\* CancelJob: no stored job has a ModifyKey (it is not part of its JSON), and the
\* handler dereferences it before it proposes anything.
CancelOverHttp(r) ==
    /\ At(r, "idle")
    /\ GoTo(r, "error")
    /\ UNCHANGED <<jobs, clock, inFlight, origin>>

\* Fault: the first job the store holds is compared with.
TooFastAfterFirst(h, svc) ==
    LET ids == JobsOf(svc)
        first == CHOOSE id \in ids : \A k \in ids : id <= k
    IN  ids # {} /\ Now(h) - origin[first].published < Gap

\* Fault: a job from a host whose clock is ahead does not count.
TooFastIfPast(h, svc) ==
    /\ JobsOf(svc) # {}
    /\ Now(h) - origin[Latest(svc)].published \in 0..(Gap - 1)

\* "if too soon, possible duplicate!": latest by id, which need not be the
\* latest published; by a stamp another host may have made.
TooFast(h, svc) ==
    JobsOf(svc) # {} /\ Now(h) - origin[Latest(svc)].published < Gap

Check(r) ==
    LET q == request[r]
    IN  /\ At(r, "valid")
        /\ \/ TooFast(q.host, q.service) /\ GoTo(r, "too fast")
           \/ /\ ~TooFast(q.host, q.service)
              /\ request' = [request EXCEPT
                    ![r] = [step |-> "checked", host |-> q.host, service |-> q.service,
                            targets |-> q.targets, seen |-> Len(jobs)]]
        /\ UNCHANGED <<jobs, clock, inFlight, origin>>

\* PublishedAt = time.Now(), and the command is published to raft.
Propose(r) ==
    LET q == request[r]
    IN  /\ At(r, "checked")
        /\ GoTo(r, "proposed")
        /\ inFlight' = inFlight \cup
              {[request |-> r, service |-> q.service, targets |-> q.targets,
                published |-> Now(q.host), made |-> clock, seen |-> q.seen]}
        /\ UNCHANGED <<jobs, clock, origin>>

\* Fault: "need retry!!!", some time later.
TimeOutRetrying(r) ==
    /\ At(r, "proposed")
    /\ \E q \in inFlight :
          /\ q.request = r
          /\ inFlight' = inFlight \cup {[q EXCEPT !.made = clock]}
    /\ GoTo(r, "error")
    /\ UNCHANGED <<jobs, clock, origin>>

\* The answer of raft does not come in time; the proposal may still be decided.
TimeOut(r) ==
    /\ At(r, "proposed")
    /\ GoTo(r, "error")
    /\ UNCHANGED <<jobs, clock, inFlight, origin>>

HandlerStep(r) == Check(r) \/ Propose(r) \/ TimeOut(r)

-----------------------------------------------------------------------------
(* Raft.                                                                   *)

\* Who still waits gets the answer.
Decide(p, answer) ==
    /\ inFlight' = inFlight \ {p}
    /\ IF At(p.request, "proposed") THEN GoTo(p.request, answer) ELSE UNCHANGED request

\* Fault: the job is stored without what the request carries.
CommitUnstamped(p) ==
    /\ Decide(p, "success")
    /\ UserSubmitJob(p.service, TRUE, p.targets)
    /\ UNCHANGED <<clock, origin>>

\* Whether the job is believed makes no difference here.
Commit(p) ==
    /\ Decide(p, "success")
    /\ UserSubmitJob(p.service, TRUE, p.targets)
    /\ origin' = Append(origin, p)
    /\ UNCHANGED clock

\* The application answers with an error.
Reject(p) ==
    /\ Decide(p, "error")
    /\ ~AcceptsTargets(p.targets)
    /\ UNCHANGED <<jobs, clock, origin>>

Lose(p) ==
    /\ inFlight' = inFlight \ {p}
    /\ UNCHANGED <<jobs, clock, request, origin>>

GateNext ==
    \/ Tick
    \/ \E r \in Request :
          \/ \E h \in Host, svc \in Service, targets \in TargetLists : Submit(r, h, svc, targets)
          \/ CancelOverHttp(r) \/ HandlerStep(r)
    \/ \E p \in inFlight : Commit(p) \/ Reject(p) \/ Lose(p)

GateSpec == GateInit /\ [][GateNext]_allVars

-----------------------------------------------------------------------------
(* Properties.                                                             *)

\* Job k asked when job i was committed, and the latest job then was not one that
\* i had overtaken: published before i and committed after it.
After(i, k) ==
    /\ i < k /\ jobs[i].service = jobs[k].service
    /\ origin[k].seen >= i
    /\ \A j \in (i + 1)..origin[k].seen :
          jobs[j].service = jobs[i].service => origin[j].published >= origin[i].published

\* What the ten-second gate of SubmitJob achieves, with requests running side by
\* side on hosts whose clocks differ, and proposals committed late and out of
\* order: jobs of a service are Gap apart, unless the later one asked before the
\* earlier one was committed, or the earlier one was overtaken.
JobsSpaced ==
    \A i, k \in DOMAIN jobs :
        After(i, k) => origin[k].published >= origin[i].published + Gap

\* By a common clock they may be closer, by as much as some host's clock is ahead.
JobsSpacedInTime ==
    \A i, k \in DOMAIN jobs :
        After(i, k) => \E h \in Host : origin[k].made + Offset[h] >= origin[i].made + Gap

\* A request makes at most one job, however its answer was lost or came late, and
\* none when it was refused: a proposal whose outcome is unknown is not repeated.
OneJobPerRequest ==
    /\ \A i, k \in DOMAIN origin : origin[i].request = origin[k].request => i = k
    /\ \A i \in DOMAIN origin :
          request[origin[i].request].step \in {"success", "error"}

-----------------------------------------------------------------------------
(* The inductive invariant of SubmitGate_proofs.tla: whoever passed the    *)
(* check is Gap later than the latest of the jobs it saw, and stays so.    *)

Cleared(svc, seen, stamp) ==
    \A id \in 1..seen :
        /\ jobs[id].service = svc
        /\ \A j \in (id + 1)..seen : jobs[j].service # svc
        => stamp >= origin[id].published + Gap

Passed(p) ==
    /\ p.seen <= Len(jobs)
    /\ Cleared(p.service, p.seen, p.published)
    /\ \E h \in Host : p.published = p.made + Offset[h]

GateInv ==
    /\ GateTypeOK
    /\ \A id \in DOMAIN jobs : jobs[id].service = origin[id].service /\ origin[id].seen < id
    /\ \A id \in DOMAIN jobs : Passed(origin[id])
    /\ \A p \in inFlight : Passed(p)
    /\ \A r \in Request : At(r, "checked") =>
          /\ request[r].seen <= Len(jobs)
          /\ Cleared(request[r].service, request[r].seen, Now(request[r].host))

\* A request is in one place: with its handler, in a proposal, or in a job.
Undecided(r) == {p \in inFlight : p.request = r}
MadeFor(r) == {id \in DOMAIN origin : origin[id].request = r}

RequestInv ==
    \A r \in Request :
        /\ \A p, q \in Undecided(r) : p = q
        /\ \A i, k \in MadeFor(r) : i = k
        /\ Undecided(r) = {} \/ MadeFor(r) = {}
        /\ Undecided(r) # {} => request[r].step \in {"proposed", "error"}
        /\ MadeFor(r) # {} => request[r].step \in {"success", "error"}
=============================================================================
