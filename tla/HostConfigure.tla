--------------------------- MODULE HostConfigure ---------------------------
(***************************************************************************)
(* Installing a release on one host: configureHost.Execute of              *)
(* internal/src/deploy-job/job_deploy_configure.go, step by step.          *)
(*                                                                         *)
(* Every job of the service runs in a goroutine of its own, and all of     *)
(* them work on the same directories: build-release/<build>, the .tmp next *)
(* to it, the downloaded tarball, env-release/<env>/overwrite.env and the  *)
(* unit file.  Any call may fail, a timeout may cancel the job, and the    *)
(* deployd process may crash; what is on the disk stays.                   *)
(***************************************************************************)
EXTENDS Naturals, FiniteSets

CONSTANTS
    Job,                \* deployment jobs of one service
    Request,            \* what they ask for: [build, env, unit]
    NoRequest,
    EnvInStore,         \* the env versions the store has
    MaxCrashes          \* bound: crashes of the deployd process

ASSUME HostConfigureAssumption == NoRequest \notin Request /\ MaxCrashes \in Nat

Build == {r.build : r \in Request}
Env == {r.env : r \in Request}
Unit == {r.unit : r \in Request}

VARIABLES
    at,                 \* at[j]: the step job j is at
    request,            \* request[j]: what it installs
    result,             \* result[j]: the status it reported
    whole,              \* whole[j]: .tmp still has all that j extracted
    release,            \* release[b]: the directory build-release/<b>
    extracted,          \* extracted[b]: the directory build-release/<b>.tmp
    tarball,            \* tarball[b]: release.tar.gz
    envFile,            \* envFile[e]: overwrite.env
    unitTmp, unitFile,  \* the unit on disk: <name>.service.tmp, <name>.service
    opened,             \* opened[j]: where the file is that j opened as unitTmp
    loaded,             \* the unit systemd has loaded
    overlapped,         \* (for the properties only) the builds that two jobs ever
    unitShared,         \* configured at once, whether two ever wrote the unit at once
    crashes             \* crashes so far

jobVars == <<at, request, result, whole>>
buildVars == <<release, extracted, tarball>>
unitVars == <<unitTmp, unitFile, opened, loaded>>
history == <<overlapped, unitShared, crashes>>
vars == <<jobVars, buildVars, envFile, unitVars, history>>

NoUnit == "none"
\* A unit that is truncated; one that two jobs wrote into.
Damaged == {"empty", "torn"}
ASSUME UnitAssumption == Unit \cap (Damaged \cup {NoUnit}) = {}

Content == {"missing", "partial", "complete"}
Running == {"unit", "writeUnit", "renameUnit", "env", "writeEnv", "check", "open",
            "download", "clean", "extract", "remove", "rename", "reload"}

TypeOK ==
    /\ at \in [Job -> Running \cup {"new", "done"}]
    /\ request \in [Job -> Request \cup {NoRequest}]
    /\ \A j \in Job : request[j] = NoRequest <=> at[j] = "new"
    /\ result \in [Job -> {"none", "SUCCESS", "FAILED", "CANCELLED"}]
    /\ \A j \in Job : result[j] # "none" => at[j] = "done"
    /\ whole \in [Job -> BOOLEAN]
    /\ release \in [Build -> Content \cup {"empty"}]
    /\ extracted \in [Build -> Content]
    /\ tarball \in [Build -> Content]
    /\ envFile \in [Env -> Content \cup {"short"}]
    /\ {unitTmp, unitFile, loaded} \subseteq Unit \cup Damaged \cup {NoUnit}
    /\ opened \in [Job -> {"unitTmp", "unitFile", "none"}]
    /\ overlapped \subseteq Build /\ unitShared \in BOOLEAN
    /\ crashes \in 0..MaxCrashes

Init ==
    /\ at = [j \in Job |-> "new"]
    /\ request = [j \in Job |-> NoRequest]
    /\ result = [j \in Job |-> "none"]
    /\ whole = [j \in Job |-> FALSE]
    /\ release = [b \in Build |-> "missing"]
    /\ extracted = [b \in Build |-> "missing"]
    /\ tarball = [b \in Build |-> "missing"]
    /\ envFile = [e \in Env |-> "missing"]
    /\ unitTmp = NoUnit /\ unitFile = NoUnit /\ loaded = NoUnit
    /\ opened = [j \in Job |-> "none"]
    /\ overlapped = {} /\ unitShared = FALSE
    /\ crashes = 0

-----------------------------------------------------------------------------

build(j) == request[j].build
env(j) == request[j].env

Active(j) == at[j] \in Running
\* The other jobs configuring the same build.
Rivals(j) == {k \in Job \ {j} : Active(k) /\ build(k) = build(j)}

From(j, step) == at[j] = step
GoTo(j, step) == at' = [at EXCEPT ![j] = step] /\ UNCHANGED <<request, result>>
Return(j, status) ==
    /\ at' = [at EXCEPT ![j] = "done"]
    /\ result' = [result EXCEPT ![j] = status]
    /\ UNCHANGED request

\* Jobs extracting the same build lose what they extracted so far.
BrokenBy(j) ==
    [k \in Job |-> whole[k] /\ ~(k \in Rivals(j) /\ at[k] = "extract")]

\* startConfigureHost; the directories are created (a failure is a Fail).
Begin(j, r) ==
    /\ From(j, "new")
    /\ at' = [at EXCEPT ![j] = "unit"]
    /\ request' = [request EXCEPT ![j] = r]
    /\ overlapped' = overlapped \cup
          {r.build : k \in {k \in Job : Active(k) /\ build(k) = r.build}}
    /\ UNCHANGED <<result, whole, buildVars, envFile, unitVars, unitShared, crashes>>

WritingUnit(j) == at[j] \in {"writeUnit", "renameUnit"}

\* Fault: the unit is written in place.
OpenUnitInPlace(j) ==
    /\ From(j, "unit")
    /\ unitFile' = "empty"
    /\ opened' = [opened EXCEPT ![j] = "unitFile"]
    /\ unitShared' = (unitShared \/ \E k \in Job \ {j} : WritingUnit(k))
    /\ GoTo(j, "writeUnit")
    /\ UNCHANGED <<whole, buildVars, envFile, unitTmp, loaded, overlapped, crashes>>

\* The unit is written next to its place, where other jobs of the service write
\* theirs: it is truncated, written, and renamed.
OpenUnit(j) ==
    /\ From(j, "unit")
    /\ unitTmp' = "empty"
    /\ opened' = [opened EXCEPT ![j] = "unitTmp"]
    /\ unitShared' = (unitShared \/ \E k \in Job \ {j} : WritingUnit(k))
    /\ GoTo(j, "writeUnit")
    /\ UNCHANGED <<whole, buildVars, envFile, unitFile, loaded, overlapped, crashes>>

\* What a file holds when unit u was written over its beginning.
WrittenOver(file, u) == IF file \in {"empty", u} THEN {u} ELSE {u, "torn"}

\* The file may have been renamed since it was opened, or replaced.
WriteUnit(j) ==
    /\ From(j, "writeUnit")
    /\ unitTmp' \in IF opened[j] = "unitTmp"
                    THEN WrittenOver(unitTmp, request[j].unit) ELSE {unitTmp}
    /\ unitFile' \in IF opened[j] = "unitFile"
                     THEN WrittenOver(unitFile, request[j].unit) ELSE {unitFile}
    /\ opened' = [opened EXCEPT ![j] = "none"]
    /\ GoTo(j, "renameUnit")
    /\ UNCHANGED <<whole, buildVars, envFile, loaded, history>>

Renamed(j) ==
    /\ unitFile' = unitTmp /\ unitTmp' = NoUnit
    /\ opened' = [k \in Job |-> IF opened[k] = "unitTmp" THEN "unitFile" ELSE "none"]

\* Fault: the env of a build that is installed is not fetched.
RenameUnitOnly(j) ==
    /\ From(j, "renameUnit") /\ unitTmp # NoUnit
    /\ Renamed(j)
    /\ IF release[build(j)] = "complete" THEN Return(j, "SUCCESS") ELSE GoTo(j, "env")
    /\ UNCHANGED <<whole, buildVars, envFile, loaded, history>>

\* Another job may have renamed the file meanwhile; then this fails.
RenameUnit(j) ==
    /\ From(j, "renameUnit") /\ unitTmp # NoUnit
    /\ Renamed(j)
    /\ GoTo(j, "env")
    /\ UNCHANGED <<whole, buildVars, envFile, loaded, history>>

\* The env is fetched and its file truncated.  An env the store does not have
\* is logged as a failure, and the configuration goes on without the file.
FetchEnv(j) ==
    /\ From(j, "env")
    /\ \/ /\ env(j) \in EnvInStore
          /\ envFile' = [envFile EXCEPT ![env(j)] = "partial"]
          /\ GoTo(j, "writeEnv")
       \/ /\ env(j) \notin EnvInStore
          /\ GoTo(j, "check")
          /\ UNCHANGED envFile
    /\ UNCHANGED <<whole, buildVars, unitVars, history>>

\* Errors of writing the lines are not looked at.
WriteEnvFails(j) ==
    /\ From(j, "writeEnv")
    /\ envFile' = [envFile EXCEPT ![env(j)] = "short"]
    /\ GoTo(j, "check")
    /\ UNCHANGED <<whole, buildVars, unitVars, history>>

\* Every job writing this file writes the same lines; until all are done it may
\* still miss some, and what is wrong after an error need not be mended.
WriteEnv(j) ==
    /\ From(j, "writeEnv")
    /\ LET others == {k \in Job \ {j} : at[k] = "writeEnv" /\ env(k) = env(j)}
       IN  \E content \in {"complete"} \cup (IF others = {} THEN {} ELSE {"partial"})
                          \cup (IF envFile[env(j)] = "short" THEN {"short"} ELSE {}) :
              envFile' = [envFile EXCEPT ![env(j)] = content]
    /\ GoTo(j, "check")
    /\ UNCHANGED <<whole, buildVars, unitVars, history>>

\* Fault: the status is set and the configuration goes on.
CheckInstalledGoingOn(j) ==
    /\ From(j, "check")
    /\ at' = [at EXCEPT ![j] = "open"]
    /\ result' = IF release[build(j)] \in {"partial", "complete"}
                 THEN [result EXCEPT ![j] = "SUCCESS"] ELSE result
    /\ UNCHANGED <<request, whole, buildVars, envFile, unitVars, history>>

\* Fault: a build that is installed is installed again.
CheckInstalledNever(j) ==
    /\ From(j, "check")
    /\ GoTo(j, "open")
    /\ UNCHANGED <<whole, buildVars, envFile, unitVars, history>>

\* Whatever the release directory contains, if anything, counts as installed:
\* neither it is downloaded nor the unit reloaded.
CheckInstalled(j) ==
    /\ From(j, "check")
    /\ \/ /\ release[build(j)] \in {"missing", "empty"}
          /\ release' = [release EXCEPT ![build(j)] = "empty"]
          /\ GoTo(j, "open")
       \/ /\ release[build(j)] \in {"partial", "complete"}
          /\ Return(j, "SUCCESS")
          /\ UNCHANGED release
    /\ UNCHANGED <<whole, extracted, tarball, envFile, unitVars, history>>

OpenTarball(j) ==
    /\ From(j, "open")
    /\ tarball' = [tarball EXCEPT ![build(j)] = "partial"]
    /\ GoTo(j, "download")
    /\ UNCHANGED <<whole, release, extracted, envFile, unitVars, history>>

\* The size of what was copied is checked, not the file: another job that
\* truncated it meanwhile may have left it short.
Download(j) ==
    /\ From(j, "download")
    /\ LET others == {k \in Rivals(j) : at[k] = "download"}
       IN  \E content \in {"complete"} \cup (IF others = {} THEN {} ELSE {"partial"}) :
              tarball' = [tarball EXCEPT ![build(j)] = content]
    /\ GoTo(j, "clean")
    /\ UNCHANGED <<whole, release, extracted, envFile, unitVars, history>>

\* Fault: the tarball is extracted right into the release directory.
CleanInPlace(j) ==
    /\ From(j, "clean")
    /\ release' = [release EXCEPT ![build(j)] = "partial"]
    /\ GoTo(j, "extract")
    /\ UNCHANGED <<whole, extracted, tarball, envFile, unitVars, history>>

\* What an earlier attempt left is removed and extracting begins.
Clean(j) ==
    /\ From(j, "clean")
    /\ whole' = [BrokenBy(j) EXCEPT ![j] = TRUE]
    /\ extracted' = [extracted EXCEPT ![build(j)] = "partial"]
    /\ GoTo(j, "extract")
    /\ UNCHANGED <<release, tarball, envFile, unitVars, history>>

\* A tarball that is not complete does not extract (a Fail).  A job that was
\* broken adds what it had left to whatever is there now, truncating what it
\* finds, though another job had it complete.
Extract(j) ==
    /\ From(j, "extract")
    /\ tarball[build(j)] = "complete"
    /\ \E content \in
          IF whole[j]
          THEN {"complete"}
               \cup (IF \E k \in Rivals(j) : at[k] = "extract" THEN {"partial"} ELSE {})
          ELSE {extracted[build(j)]}
               \cup (IF extracted[build(j)] = "missing" THEN {"partial"} ELSE {}) :
          extracted' = [extracted EXCEPT ![build(j)] = content]
    /\ GoTo(j, "remove")
    /\ UNCHANGED <<whole, release, tarball, envFile, unitVars, history>>

\* RemoveAll is not one step: it may fail, or the process crash, in the middle.
RemoveSome(j) ==
    /\ \/ /\ From(j, "clean") /\ extracted[build(j)] = "complete"
          /\ extracted' = [extracted EXCEPT ![build(j)] = "partial"]
          /\ whole' = BrokenBy(j)
          /\ UNCHANGED release
       \/ /\ From(j, "remove") /\ release[build(j)] = "complete"
          /\ release' = [release EXCEPT ![build(j)] = "partial"]
          /\ UNCHANGED <<whole, extracted>>
    /\ UNCHANGED <<at, request, result, tarball, envFile, unitVars, history>>

RemoveRelease(j) ==
    /\ From(j, "remove")
    /\ release' = [release EXCEPT ![build(j)] = "missing"]
    /\ GoTo(j, "rename")
    /\ UNCHANGED <<whole, extracted, tarball, envFile, unitVars, history>>

\* A directory is not renamed over one with entries, nor one that is not there.
RenameExtracted(j) ==
    /\ From(j, "rename")
    /\ extracted[build(j)] # "missing" /\ release[build(j)] \in {"missing", "empty"}
    /\ release' = [release EXCEPT ![build(j)] = extracted[build(j)]]
    /\ extracted' = [extracted EXCEPT ![build(j)] = "missing"]
    /\ whole' = BrokenBy(j)
    /\ GoTo(j, "reload")
    /\ UNCHANGED <<tarball, envFile, unitVars, history>>

\* daemon-reload; then the unit has to be found loaded, which an empty one is not.
Reload(j) ==
    /\ From(j, "reload")
    /\ loaded' = unitFile
    /\ \E status \in {"FAILED"} \cup (IF unitFile = "empty" THEN {} ELSE {"SUCCESS"}) :
          Return(j, status)
    /\ UNCHANGED <<whole, buildVars, envFile, unitTmp, unitFile, opened, history>>

\* A call of the step fails.
Fail(j) ==
    /\ at[j] \in Running \ {"writeEnv"}
    /\ Return(j, "FAILED")
    /\ UNCHANGED <<whole, buildVars, envFile, unitVars, history>>

\* The job's timeout cancels its context, where a step looks at it.
Cancel(j) ==
    /\ at[j] \in {"unit", "env", "open", "download", "reload"}
    /\ Return(j, "CANCELLED")
    /\ UNCHANGED <<whole, buildVars, envFile, unitVars, history>>

\* The goroutines of the process are gone, and no one starts them again.
Crash ==
    /\ crashes < MaxCrashes
    /\ \E j \in Job : Active(j)
    /\ crashes' = crashes + 1
    /\ at' = [j \in Job |-> IF Active(j) THEN "done" ELSE at[j]]
    /\ UNCHANGED <<request, result, whole, buildVars, envFile, unitVars, overlapped, unitShared>>

Step(j) ==
    \/ \E r \in Request : Begin(j, r)
    \/ OpenUnit(j) \/ WriteUnit(j) \/ RenameUnit(j)
    \/ FetchEnv(j) \/ WriteEnv(j) \/ WriteEnvFails(j) \/ CheckInstalled(j)
    \/ OpenTarball(j) \/ Download(j) \/ Clean(j) \/ Extract(j)
    \/ RemoveSome(j) \/ RemoveRelease(j) \/ RenameExtracted(j) \/ Reload(j)
    \/ Fail(j) \/ Cancel(j)

Next == (\E j \in Job : Step(j)) \/ Crash

Spec == Init /\ [][Next]_vars

-----------------------------------------------------------------------------
(* Properties.                                                             *)

Succeeded(j) == result[j] = "SUCCESS"

\* A release directory with anything in it counts as installed, for every later
\* job: so, as long as its build was never configured by two jobs at once, a
\* job that reports SUCCESS has the complete release, whatever failed, timed
\* out or crashed in the attempts before it.
SuccessInstalled ==
    \A j \in Job : Succeeded(j) /\ build(j) \notin overlapped
        => release[build(j)] = "complete"

\* When a job has reported SUCCESS and no one is rewriting its env file, the file
\* is there and is not left in the middle of a write, unless the process crashed
\* then.  It is complete, or "short": an error of writing a line was ignored.
SuccessHasEnv ==
    \A j \in Job :
        /\ Succeeded(j) /\ env(j) \in EnvInStore /\ crashes = 0
        /\ \A k \in Job : at[k] = "writeEnv" => env(k) # env(j)
        => envFile[env(j)] \in {"complete", "short"}

\* The unit systemd would load is always a whole one, whatever fails, is cancelled
\* or crashes while a job writes it, as long as two jobs never wrote it at once.
UnitWhole == ~unitShared => unitFile \notin Damaged

\* An installed release, which a running service may be linked to, is never
\* taken away by a later job of its build.
ReleaseKept ==
    [][\A b \in Build : release[b] = "complete" /\ b \notin overlapped'
            => release'[b] = "complete"]_vars

\* "host is configured" (job_deploy_configure.go): a job that reports SUCCESS
\* has a complete release.  Two jobs of one build share the .tmp directory.
SuccessAlwaysInstalled ==
    \A j \in Job : Succeeded(j) => release[build(j)] = "complete"

\* "host is configured" (job_deploy_configure.go): when a job reports SUCCESS
\* systemd has loaded the unit on disk.  An installed build skips the reload.
SuccessUnitLoaded ==
    [][\A j \in Job : ~Succeeded(j) /\ Succeeded(j)' => loaded' = unitFile']_vars

-----------------------------------------------------------------------------
(* The inductive invariant of HostConfigure_proofs.tla: as long as one job *)
(* configures a build, each of its steps finds the directories as its last *)
(* one left them, and nothing but a whole directory is ever renamed.       *)

Alone ==
    \A j, k \in Job :
        j # k /\ Active(j) /\ Active(k) /\ build(j) = build(k) => build(j) \in overlapped

Replacing == {"open", "download", "clean", "extract", "remove", "rename"}

InExecute(j) ==
    /\ at[j] \in Replacing => release[build(j)] \in {"missing", "empty"}
    /\ at[j] = "extract" => whole[j]
    /\ at[j] \in {"remove", "rename"} => extracted[build(j)] = "complete"
    /\ at[j] = "reload" => release[build(j)] = "complete"

ReleaseInv ==
    /\ \A b \in Build \ overlapped : release[b] # "partial"
    /\ \A j \in Job : Active(j) /\ build(j) \notin overlapped => InExecute(j)

\* Until a crash a short env file is being written by some job, and a job that is
\* past it has the file.
PastEnv(j) == at[j] \in {"check", "reload"} \cup Replacing \/ Succeeded(j)

EnvInv ==
    crashes = 0 =>
        /\ \A e \in Env : envFile[e] = "partial" =>
              \E j \in Job : at[j] = "writeEnv" /\ env(j) = e
        /\ \A j \in Job : at[j] = "writeEnv" => envFile[env(j)] # "missing"
        /\ \A j \in Job : PastEnv(j) /\ env(j) \in EnvInStore =>
              envFile[env(j)] # "missing"

\* A job that writes the unit alone renames what it wrote.
UnitInv ==
    ~unitShared =>
        /\ unitFile \notin Damaged
        /\ \A j, k \in Job : WritingUnit(j) /\ WritingUnit(k) => j = k
        /\ \A j \in Job :
              /\ at[j] = "writeUnit" => opened[j] = "unitTmp" /\ unitTmp = "empty"
              /\ at[j] = "renameUnit" => unitTmp = request[j].unit

IInv == TypeOK /\ Alone /\ ReleaseInv /\ SuccessInstalled /\ EnvInv /\ UnitInv
=============================================================================
