# deployd in TLA+

deployd is a daemon that runs on every host of a cluster and deploys services
there. A user submits a *deployment job*; every host installs the release
("configures" itself), and when all hosts are ready they restart the service one
after the other. The jobs live in a raft-replicated application, the work is done
by goroutines on the hosts, and the restart itself goes through two symlinks and a
systemd unit. This directory models that core and the HTTP and websocket handlers
around it, checks the models with TLC and proves their safety properties with TLAPS.
`PROJECT.json` maps every definition to its source lines.

## Inventory

| part (source) | state | operations | how it interacts |
|---|---|---|---|
| **job application** (`internal/src/raft-app/deploy-job/app.go`, `interface.go`, `entity/deployment_job.go`) | job records in the replicated store: status, restart order, current order, two maps host → status | `userSubmitJob`, `cancelDeployment`, `hostConfigurationUpdate`, `restart`, `hostRestartServiceUpdate` | applied by every replica in log order; every replica broadcasts the resulting events to its own process |
| **raft client** (`client.go`) | none | proposes the commands with a timeout | callers get the answer, an error, or nothing; nobody retries |
| **consumer and jobs controller** (`internal/src/deploy-job/integration_event.go`, `jobs_controller.go`, `job_deploy.go`) | `deploymentJobPool` (memory only), queued events, one goroutine per job | dispatch of events, `configureHost`, confirmation on behalf of the user, `restartService` | reads events, starts goroutines, calls the two parts below, reports through the client |
| **host configuration** (`job_deploy_configure.go`) | `build-release/<b>`, its `.tmp`, the tarball, `overwrite.env`, the unit file | `Execute` | file system, object store, systemd reload; several jobs share the directories |
| **host restart** (`job_deploy_restart.go`) | links `/opt/<svc>/current`, `/etc/<svc>/env`, the unit | `Deploy`, `rollback` | run by the consumer itself; systemd restarts dying units meanwhile |
| **HTTP handlers** (`integration_http.go`) | none of their own | `SubmitJob` (service lookup, ten-second gate), `CancelJob`, two stubs | read the store and propose through the client, side by side on every host |
| **systemd monitor** (`internal/src/systemd`) | unit states behind a lock, subscriptions | listener, `StreamUnit` (snapshot, stream, commands) | go-systemd's watcher, a topic, websocket clients. `cmd/deployd/main.go:98` does not enable it at present |
| **start-up and routing** (`cmd/deployd/main.go`) | two contexts, `wsWg` | wiring in sequence; shutdown of the server and its websockets | the shutdown is part of the monitor's model |
| artifactd application (`internal/src/artifactd`) | artifact index | register, query | never constructed; its conformance check is commented out (`app_raft.go:18`) |
| service library, entities, job logger, legacy and demo programs | – | – | no state of their own, see `PROJECT.json` |

External, modelled by how the code uses them: raft, the notifier and the content
store (`desain-gratis/common`), systemd and go-systemd, the object store.

### What is hard here, and what correctness means

* **Ordering of commands.** Reports, confirmations and cancellations reach the
  application late, repeated, or about a job in another state. Correct: the order
  indexes the list whenever it is dereferenced (a panic there stops *all* replicas),
  the restart only passes hosts that reported SUCCESS, a failed job still names the
  host that failed, and the whole is a rolling restart.
* **Stale copies and timeouts.** The consumer acts on the event's copy of a job; a
  report that timed out may commit after later ones. Correct: one host at a time is
  down for a job, only with an installed release, no host is told twice, nothing starts over,
  and a job called DEPLOYED runs.
* **Progress by hand-over.** Nothing polls: the job goes on only because the host
  that caused an event confirms the next restart. Correct: without faults believed
  jobs end. With a lost report or a crash they need not; the code has no recovery.
* **Crashes.** The pool and the queued events are in memory only.
* **Partial failure on the host.** Five kinds of calls of `Deploy` can fail between
  the two links, and systemd starts the unit from them at any time.
* **Shared directories.** Jobs of one build share the release directories, and
  "not empty" is what counts as installed. Jobs of one service share the unit file and the
  `.tmp` it is renamed from; write errors on the env file are not looked at.
* **Check, then act.** The ten-second gate reads the latest job and proposes later, on
  hosts whose clocks differ, with proposals that commit late and overtake each other.
  Correct: what the gate still keeps apart then, and no request makes two jobs.
* **Snapshot against stream.** A websocket client is sent the whole map under the read
  lock and then the changes. Correct: no change falls between the two, and a slow or
  vanished client holds up neither the listener nor the shutdown. One that stays and stops
  reading holds up both: no write has a deadline, nor has the wait for the clients.

## Modules

```
RollingDeploy  <--implements--  DeployJob  <--EXTENDS--  Deployd
(abstract)                      (application)            (cluster: takes DeployJob's actions)
                                    |
                                SubmitGate (HTTP handlers: EXTENDS DeployJob)

ServiceOnHost  <--implements--  HostDeploy (Deploy, call by call)
(abstract)                      HostConfigure (Execute, call by call)
                                SystemdMonitor (listener, websockets, shutdown)
```

**DeployJob** — the five commands of `OnUpdate`, one action each; `jobs` stands for
the job table of all replicas, since they apply the same log. The actions' guards
are the code's early returns: a command answered with an error is no step. Commands
may name any job and host at any time. Ids are the store's incremental ids; the empty
id the client in fact sends (it writes field `id`, the application reads `job_id`) is
`NoJobId`, for which the store returns the latest job: a cancellation of any job
cancels the service's latest one. Instances that are already deployed are never stored, so
the target list decides a job's hosts.

**RollingDeploy** — the promise, with the host reports forgotten: the turn starts at
the first host, passes to the next, ends after the last, and a rollout may be
withdrawn and begun again from the start. `Rollout` is the refinement mapping. A
list that names a host twice (with different replica ids it is accepted) has fewer map
entries than places, so that the job is DEPLOYED before its last place was restarted; such a
job promises nothing and maps to a rollout never begun. `DistinctHosts` excludes it
from the properties too.

**Deployd** — adds the hosts. `log` is the sequence of broadcast events a consumer
handles and `cursor[h]` how far host h is; `consumer[h]` is the consumer
goroutine between two raft calls, `worker[h][id]` the configuration goroutine (`"none"`
= not in the pool). `Publish` is a client call: it commits, or times out into `late`,
from where `CommitLate` may commit it any time later, or never. `Deploy` and
`Configure` are atomic here. `running[h][svc]` is the set of builds that may serve, one after a
success; a failed or interrupted restart adds its own build and "down" (`Disturbed`), and any of
them may come up then or later, as `ServiceOnHost` says of its `candidates`. `installed[h]` are
the jobs whose release is known to be complete: a SUCCESS adds its job only as long as the
service is not in `overlapped[h]`, the services two of whose jobs the host ever configured at
once. From then on SUCCESS may stand for a partial release (run `host_overlap`), whoever
reports it, since a later job takes what it finds for installed; nothing is known of the
service's releases on that host, and `Deploy` may then start one, or fail, as it likes.
Two jobs of a service need not ask for the same build; that they may is enough. `Crash` empties pool, goroutine and queue; events applied before are not broadcast again.
Cancelling is modelled where the client proposes the command.

**SubmitGate** — the HTTP handlers in front of `DeployJob`. `request[r]` is the handler of
request r between its steps (lookup, check, propose, answer), `inFlight` the proposals raft
has not decided, `origin[id]` the proposal that made job id, with `PublishedAt` by the
host's clock (`published`) and by a common one (`made`). Proposals are lost, answered too
late and committed in any order, but once at most; reads see what is committed. `CancelJob`
goes no further than its dereference of `ModifyKey`, which is not part of the job's JSON
(`integration_http.go:119`), and panics.

**HostDeploy** — `Deploy` and `rollback` call by call, on `build`/`env` (the links), `unit`
and `proc` (the pair the process was started from). Each call may fail; a failing stop may
have stopped the unit. The unit is `Type=simple`, `Restart=always`: a dying process
is started again (`AutoRestart`) from the links of that moment, and looks active or not to
`Verify`. The checks of the env release, `overwrite.env` and the binary
(`job_deploy_restart.go:88-105`), which touch nothing, are one: whether the pair is among the
installed ones (`Begin`).

**ServiceOnHost** — what a restart promises to the rest of deployd: after success the
requested build serves and only another restart takes it away; a failed or interrupted one
brings up nothing that was neither there nor asked for, and systemd may go on
choosing among those until it has settled.

**HostConfigure** — `Execute` call by call for several jobs at once. Directories and files
are missing, (empty,) partial or complete. Truncation, interleaved writing, cleaning another
job's `.tmp` (`whole`), a removal that stops half-way (`RemoveSome`), re-opening files another
job had extracted, rename over a non-empty directory (fails) are kept. The env file is
`"partial"` between its truncation and the last line, and `"short"` when a line could not be
written, which the code does not look at (`WriteEnvFails`); an env version the store does not
have is logged and skipped (`FetchEnv`). The unit goes through a `.tmp` that all jobs of the
service use: opened and truncated, written, renamed; `opened[j]` follows the file of a job
when another renames it, so that a unit can be published torn, and a second rename fails. `overlapped`
and `unitShared` are history variables: builds that two jobs ever configured at the same
time, and whether two jobs ever wrote the unit at the same time.

**SystemdMonitor** — the listener (`listener`, `batch`, `row`, and the map `status`), one
handler per websocket (`client[c]`, with the rows of the snapshot still `toSend` and the
subscription's `inbox`; `"ending"` is the write of the goodbye), `view[c]` what the client was told, and `process` from SIGINT to
exit. The read lock is held from `ReadLock` to `ReadUnlock`; a waiting writer keeps new readers
out, as Go's RWMutex does. The watcher reports what changed since its last report, in
batches; a unit that is gone comes as nil and is skipped, as in the code, so that the map
and every later snapshot keep its last state.

`DeployJob_proofs`, `Deployd_proofs`, `DeploydTurn_proofs`, `DeploydRuns_proofs`,
`SubmitGate_proofs`, `HostDeploy_proofs`, `HostConfigure_proofs` and `SystemdMonitor_proofs`
hold the theorems; the `MC` modules hold the small instances.

The definitions commented "Fault:" are each an operator with one plausible mistake; no
other definition uses them. Substituting one for its original must break the property
it is paired with in `PROJECT.json`.

## Runs

| run | bounds | shows |
|---|---|---|
| `jobs` | 3 hosts, 1 job of lists with 1, 2, 3 hosts, one repeating a host, two that are refused | `OrderInRange`, `PrefixRestarted`, `DeployedAllRestarted`, `FailedNamesHost`, refinement of `RollingDeploy`. Jobs do not influence each other in the application except through `CancelJob`, so one job shows every command order; the proofs cover any number |
| `cluster_faults` | 2 hosts, both orders, 1 job, 2 timed-out proposals, 1 crash, 2 cancellations, all outcomes | `OneHostAtATime`, `InstalledBeforeRestart`, `EventsFollowScript`, `DeployedRuns`, `BuildSpreadsInOrder`, `NoJobForgotten`, `NeverStartsOver`. Two timeouts let late proposals overtake each other |
| `cluster_live` | 2 hosts, 2 jobs of one service that overlap or not, 1 cancellation, no timeouts or crashes; configuring succeeds or fails, every `Deploy` succeeds (a failing one ends its job at once, see `cluster_faults`; without it the search for cycles stays within minutes) | `BelievedJobsEnd`, `TargetHasJobInPool`, `InstalledBeforeRestart`; what `DeployedRuns` says of several jobs is left to its theorem |
| `gate` | 3 symmetric requests, 2 known services and an unknown one, 2 hosts with clocks 1 tick apart, `Gap` 2, 4 ticks, a good and a refused target list | `JobsSpaced`, `JobsSpacedInTime`, `OneJobPerRequest`. Three requests let one overtake another that a third then compares with; the gap is shorter than the run, so that late requests pass |
| `host_deploy` | 4 builds (2 healthy, 1 dying, 1 not installed), 2 envs, 3 failing calls or deaths, 2 crashes | `SuccessStarted`, `LinksPaired`, `FailureRollsBack`, `RunningBuildLinked`, `RolledBackServiceReturns`, refinement of `ServiceOnHost`; the faults let the recovery of the first fail, twice |
| `host_configure` | 3 symmetric jobs, 2 builds, 2 envs (one absent from the store), 2 units, 1 crash | `SuccessInstalled`, `SuccessHasEnv`, `UnitWhole`, `ReleaseKept`; the third job lets a later one find what two others left |
| `monitor` | 1 unit with 2 states or gone, 1 change, 2 clients of which one need not read, 1 interrupt | `NothingMissed`, `SnapshotOfOneMoment`, `SettledIsShown`, `ClientsCatchUp`, `ToldGoodbye`, `ShutdownEnds`; a map of several rows is left to the theorems; with two clients one reads the map while the other subscribes or leaves and the listener waits to write |

Runs that TLC finds violated, each a disagreement of the code with its own words
(`findings` quotes them):

| run | what happens |
|---|---|
| `cancelled` | the last configuration report after a cancellation puts the job back to CONFIGURED |
| `cluster_crash` | after a process restart the pool is empty, and the restart request is dropped |
| `host_rollback` | systemd restarts the unit between the two rollback links: the old build runs with the new env |
| `host_overlap` | two jobs of one build share `.tmp`: one renames it while the other is emptying it, and reports SUCCESS |
| `host_reload` | a job whose build is installed rewrites the unit and skips the daemon-reload |

The restrictions in the passing properties (distinct hosts, `overlapped`,
`unitShared`, `faults`, `crashes`, `Unrivalled`, `"short"` env files, clients that do not read) are exactly these and the failures named in the property's comment.

**Deadlock.** It is checked in `jobs` and `host_deploy`, where something can always
happen. In the runs of `Deployd`, `HostConfigure`, `SubmitGate` and `SystemdMonitor` the
system may really stop (all jobs finished, all requests answered, the process ended);
there `BelievedJobsEnd`, `ClientsCatchUp` and `ShutdownEnds` cover waiting on each other.

**Fairness.** `Deployd`: weak fairness of each host's consumer and of each configuration
goroutine. Go schedules runnable goroutines, and a raft call returns; with a quorum up and
no timeout it returns an answer. Nothing is assumed of the user, late commits or crashes.
`Deploy` has no deadline (`DeployConfig.Timeout` is unused), so that it returns assumes
that systemd answers: a unit that never stops would block its host's consumer, and
`BelievedJobsEnd` says nothing of that. `HostDeploy`: weak fairness of the deploying goroutine
and of systemd's restart, which `Restart=always` promises. `SystemdMonitor`: weak fairness of
the watcher, the listener, each handler and the two steps of the shutdown, as long as the
process runs. Writing to a client has no deadline, and the context it is given is cancelled only
when the client leaves (`systemd_http.go:48`); so a handler that is in a write (`Writing`: a row
of the map, a change, the goodbye) is fair only if its client is one of the `Reader`s or has left.
What the others can hold up is what the properties except: the listener, in the
middle of a snapshot, and the exit, which waits for them without a deadline
(`main.go:487`). Nobody need connect, leave or interrupt. `SubmitGate` has safety properties only.

**Bounds in guards.** `MaxJobs` submissions, `MaxTimeouts`, `MaxCrashes`, `MaxCancels`,
`MaxFaults`, `MaxClock` ticks, `MaxChanges` of units; each counts how often something happens
and limits nothing else.

## Proofs

Every safety property of a passing run is also proved, for every value of the constants.
The assumptions are the named `ASSUME`s: target lists are
sequences of targets, bounds are naturals, a service that is known is a service. Sets need not
be finite unless an assumption says so.

**DeployJob_proofs**: type correctness, the four safety invariants of run `jobs`, and the
refinement of `RollingDeploy`. None of the invariants is inductive: that the order is in range
while DEPLOYING follows from what the code compares it with, the *number of map entries*, which
is at most the length of the list and equal to it for distinct hosts. `IInv` says so:
each job's maps are keyed by the hosts of its order, the order of a DEPLOYING or FAILED job
is below the number of entries, the hosts before the order are SUCCESS, and a DEPLOYED job
with distinct hosts stands at the end. The proof has a lemma per operator (`NewJob`,
`ConfigurationUpdated`, ...) saying it preserves `JobInv`, and a step per command. A
late configuration report may move a job back to CONFIGURED; the invariant claims nothing
of the order then, which `restart` resets.

**Deployd_proofs** carries this to the cluster. `SystemInv` is `IInv` with the
well-formedness of hosts, log and late proposals: every command that may still commit
names an existing job. Each action has a lemma that it keeps
`SystemInv` and is a step of `DeployJob` or leaves the jobs alone. That holds by
construction, `Deployd` changes `jobs` only through `DeployJob`'s actions, and is a lemma
(`ClusterJobs`) for one purpose: every theorem of `DeployJob` holds of the cluster
(`ClusterDeployedAllRestarted` is one), and the cluster implements `RollingDeploy`
(`ClusterRollsOut`), with any number of timeouts and crashes.
Its second half proves `NeverStartsOver`. `hostConfigurationUpdate` does not look at
the status, so that nothing in the application prevents it. The reason is that a host has one
outcome to report: `OutcomeInv` says that for each host and job at most one of an untaken
JobCreated event, a configuration goroutine and a late outcome report exists, and `CountedInv`
that a host counted as SUCCESS has none. `ReadyInv` adds that who reports success has
installed the release, unless jobs of the service overlapped on the host.

**DeploydTurn_proofs** proves `OneHostAtATime`, `InstalledBeforeRestart`,
`ConfirmedOncePerHost` and, if no process crashes, `TargetHasJobInPool`. The application would
accept any confirmation; what makes the rollout orderly is that the right to go on is a token.
`TurnInv` says that for each job at most one untaken event, consumer between two calls, or late
confirmation or outcome carries it, that it restarts only the host of the current order, and
that the hosts told so far are those up to that order. A timeout or a crash may lose the
token, and nothing makes another.
Its last part is the converse, `NoJobForgotten`: without crashes there is always at least one.
`WaitsInv` says that a QUEUED job has a host whose outcome is still to come, and that
a believed CONFIGURED or DEPLOYING job has a token that leads on (the event of the last restart,
which asks for nothing, does not count). Proposals that time out are counted among the
tokens, because they may still commit; the code does not repeat one that never does.
There is one exception, which TLC found when the invariant was first checked: an announcement
(CONFIGURING) that commits after the outcome it announced overwrites it, the job never becomes
CONFIGURED, and nobody has anything left to do (`Overtaken`).

**DeploydRuns_proofs** is about what the hosts run. `RunsInv` says that
whoever says a host was restarted says so of a running build, which gives `DeployedRuns`.
`BuildSpreadsInOrder` is the promise of a rolling restart seen from the hosts: wherever a build
runs or may come up, the hosts before it in the order have reported SUCCESS, even after the job
failed, was cancelled, or went back to CONFIGURED through a late report. The status says nothing
then, so `SpreadInv` argues with the log: a build runs only where a host was told to
restart, the hosts told are those up to the current order, and those before it are SUCCESS.
`EventsFollowScript` says the same of the events: created, configured, first host told, first
host restarted, second host told, and so on, each led to by an earlier one and none twice.
`ScriptInv` connects log and order: the hosts restarted are those before the current order.
A failure cuts the script short, a cancellation may (one that comes before the last
outcome does not, see the finding of run `cancelled`), and nothing starts it over: a rollout
cannot go in circles. Nor, by `NoJobForgotten`, is a believed one left lying, with the
exceptions named there.

**SubmitGate_proofs** proves `JobsSpaced`, `JobsSpacedInTime` and `OneJobPerRequest` for any
requests, clocks and gap. `GateInv` says that whoever passed the check is `Gap` later than the
latest of the jobs it saw (`Cleared`), and that this stays so: the application only appends, and
a host's clock does not go back between the check and the stamp. `After` is the exact
condition under which that reaches an earlier job: it was seen, and was not overtaken.
`RequestInv` keeps each request in one place, handler, proposal or job.

**HostDeploy_proofs** proves the five invariants of run `host_deploy` and the refinement of
`ServiceOnHost`. `InDeploy` says what a call knows at each step; the unit is stopped while the
links are switched, because systemd restarts only what it runs, so that `Verify` finds the
process of the new links. `WayBackInv` says that `prev` is what the links were before and that
every way back gets there unless a second thing goes wrong, and that a unit that dies without a
failing call runs a build that dies.

**HostConfigure_proofs** proves `SuccessInstalled`, `SuccessHasEnv`, `UnitWhole` and
`ReleaseKept`. As long as
a job is alone on its build (`Alone`), each step finds the directories as its last one left
them (`InExecute`), and only whole directories are renamed. A step of another build is
irrelevant to it (`ReleaseFrame`); env files are shared by builds and have an argument of their
own (`EnvInv`, `EnvFrame`): until a crash, a file in the middle of a write has its writer. It
does not say that a file is complete, because write errors are ignored. The unit has a third
(`UnitInv`): who writes it alone has truncated the `.tmp` itself and renames what it wrote.

**SystemdMonitor_proofs** proves `NothingMissed`, `SnapshotOfOneMoment` and `SettledIsShown` for
any units, clients and changes. `MonitorInv` says of each client that stays: once it subscribed,
the last row of a unit on its way is what the map says (`UpToDate`), because the map is written
just before the row is sent to the subscriptions; a unit with no row on its way is covered by
what the client was told or, until the lock is released, will be sent. That relates the
clients to the map; `SourceInv` relates the map to systemd: the newest row of a loaded unit
among those held, in the batch or in hand is what was last reported, and with no such row the
map says it. Together they give `SettledIsShown`: once nothing is on its way, a
client shows every loaded unit as it is.

**Only model-checked.** Liveness under fairness (`BelievedJobsEnd`, `RolledBackServiceReturns`,
`ClientsCatchUp`, `ToldGoodbye`, `ShutdownEnds`) is out of the prover's reach and stays with TLC.
`NoJobForgotten` and `SettledIsShown` are the safety parts of `BelievedJobsEnd` and
`ClientsCatchUp`: there is always somebody to go on, and when all have gone on the result is right.

## Not modelled

* `ConfirmDeployment` answers and does nothing, so that a job that is not believed stays
  CONFIGURED for ever. `StreamLog` reads the pool without a lock and is not routed.
* `cancelDeployment` of the controller: its event is never broadcast, so a cancellation
  never reaches a host, and the running configuration goes on.
* The job status TIMEOUT of a restart: its context is never cancelled.
* `wsWg.Add` comes after the server let the connection go: a client in that window is cut off
  without a goodbye. The model has the window (`accepted`); `ToldGoodbye` begins with the stream.
* A promise about a complete `overwrite.env`: the code makes none it keeps. The errors of
  writing its lines are not looked at (`job_deploy_configure.go:163`), so that a full disk
  leaves a short file and SUCCESS; an env version missing from the store is logged as FAILED and
  returned as nil (line 133), so that the host reports SUCCESS without the file and fails
  only at the restart. `HostConfigure` has both; `SuccessHasEnv` says what is left: without a crash,
  an env the store has is there and not in the middle of a write.
* What keeps two jobs of one service apart: nothing does. `OneHostAtATime` is about one job,
  and two jobs may take two hosts down together.
* The raft protocol, content of files, wording, logging, the web UI.
* The artifactd application (not constructed or routed, so that it has no environment to be
  modelled in), the job logger (`Handle` calls itself; unused), `Validate` (never rejects), the
  reading of configuration at start-up, the legacy installer.

## Plan

Done, in order of importance: 1. `DeployJob`, `RollingDeploy` and their proofs;
2. `Deployd` and that it is one of `DeployJob`; 3. `HostDeploy`; 4. `HostConfigure`; 5. `SubmitGate`;
6. `SystemdMonitor`; 7. `ServiceOnHost` and its refinement; 8. the proofs of all safety
properties of 2 to 6; 9. what the cluster does as a whole: that builds spread in order, that the
events of a job follow its script, that no job is forgotten, and that what the monitor shows in
the end is right.

Next:

10. The measure behind `BelievedJobsEnd`: that every step of a consumer or of a configuration
    goroutine brings a job nearer to its end, which with `NoJobForgotten` is all of that property
    but the fairness.
11. `Deployd`'s atomic `Deploy` and `Configure` composed with `HostDeploy` and `HostConfigure`
    step by step; that they agree is argued above, not checked.
