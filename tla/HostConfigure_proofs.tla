------------------------ MODULE HostConfigure_proofs ------------------------
(***************************************************************************)
(* Proofs about installing releases on a host, for any jobs, requests and  *)
(* number of crashes: a job that reports success has the complete release  *)
(* and its env file, an installed release is not taken away and the unit   *)
(* is a whole one, unless two jobs did the same work at the same time.     *)
(*                                                                         *)
(* A step of Execute touches the directories of its own build only, and a  *)
(* job that is alone on its build finds them as it left them.  ReleaseFrame*)
(* says what is left to show of a step then; EnvFrame and UnitFrame do the *)
(* same for the env files and the unit, which jobs of all builds share.    *)
(***************************************************************************)
EXTENDS HostConfigure, TLAPS

LEMMA Requested ==
    ASSUME TypeOK, NEW j \in Job, at[j] # "new"
    PROVE  /\ request[j] \in Request
           /\ build(j) \in Build /\ env(j) \in Env /\ request[j].unit \in Unit
<1>1. request[j] \in Request
  BY HostConfigureAssumption DEF TypeOK, HostConfigureAssumption
<1> QED
  BY <1>1 DEF build, env, Build, Env, Unit

LEMMA SuccessDone ==
    ASSUME TypeOK, NEW j \in Job, Succeeded(j)
    PROVE  at[j] = "done"
BY DEF TypeOK, Succeeded

\* What every step of Execute leaves alone.
Own(j) ==
    /\ at[j] \in Running
    /\ request' = request /\ overlapped' = overlapped /\ crashes' = crashes
    /\ \A k \in Job \ {j} : at'[k] = at[k] /\ result'[k] = result[k]

LEMMA ReleaseFrame ==
    ASSUME TypeOK, TypeOK', Alone, ReleaseInv, SuccessInstalled,
           NEW j \in Job, Own(j),
           \A b \in Build \ {build(j)} :
               release'[b] = release[b] /\ extracted'[b] = extracted[b],
           \A k \in Job \ {j} : k \notin Rivals(j) => whole'[k] = whole[k],
           build(j) \notin overlapped =>
               /\ at'[j] \in Running => InExecute(j)'
               /\ release'[build(j)] # "partial"
               /\ release[build(j)] = "complete" => release'[build(j)] = "complete"
               /\ Succeeded(j)' => release'[build(j)] = "complete"
    PROVE  Alone' /\ ReleaseInv' /\ SuccessInstalled'
<1>1. \A k \in Job : build(k)' = build(k) /\ (Active(k)' => Active(k))
  BY DEF Own, Active, build
<1>2. Alone'
  BY <1>1 DEF Own, Alone
<1>3. \A b \in Build \ overlapped' : release'[b] # "partial"
  BY DEF Own, ReleaseInv
<1>4. ASSUME NEW k \in Job, Active(k)', build(k) \notin overlapped
      PROVE  InExecute(k)'
  <2>1. CASE k = j
    BY <1>4, <2>1 DEF Active
  <2>2. CASE k # j
    <3>1. Active(j) /\ Active(k)
      BY <1>1, <1>4 DEF Own, Active
    <3>2. build(k) # build(j)
      BY <1>4, <2>2, <3>1 DEF Alone
    <3>3. k \notin Rivals(j)
      BY <3>2 DEF Rivals
    <3>4. build(k) \in Build
      BY <3>1, Requested DEF Active, Running
    <3>5. /\ at'[k] = at[k] /\ whole'[k] = whole[k]
          /\ release'[build(k)] = release[build(k)]
          /\ extracted'[build(k)] = extracted[build(k)]
      BY <2>2, <3>2, <3>3, <3>4 DEF Own
    <3>6. InExecute(k)
      BY <1>4, <3>1 DEF ReleaseInv
    <3> QED
      BY <1>1, <3>5, <3>6 DEF InExecute
  <2> QED
    BY <2>1, <2>2
<1>5. ReleaseInv'
  BY <1>1, <1>3, <1>4 DEF ReleaseInv, Own
<1>6. ASSUME NEW k \in Job, Succeeded(k)', build(k) \notin overlapped
      PROVE  release'[build(k)] = "complete"
  <2>1. CASE k = j
    BY <1>1, <1>6, <2>1
  <2>2. CASE k # j
    <3>1. Succeeded(k)
      BY <1>6, <2>2 DEF Own, Succeeded
    <3>2. release[build(k)] = "complete" /\ build(k) \in Build
      BY <1>6, <3>1, SuccessDone, Requested DEF SuccessInstalled
    <3> QED
      BY <1>6, <3>2
  <2> QED
    BY <2>1, <2>2
<1> QED
  BY <1>1, <1>2, <1>5, <1>6 DEF SuccessInstalled, Own

LEMMA EnvFrame ==
    ASSUME EnvInv, NEW j \in Job, Own(j), envFile' = envFile,
           at[j] # "writeEnv", at'[j] # "writeEnv", PastEnv(j)' => PastEnv(j)
    PROVE  EnvInv'
<1>1. \A k \in Job : env(k)' = env(k) /\ (PastEnv(k)' => PastEnv(k))
  BY DEF Own, env, PastEnv, Succeeded
<1>2. \A k \in Job : at'[k] = "writeEnv" <=> at[k] = "writeEnv"
  BY DEF Own
<1> QED
  BY <1>1, <1>2 DEF EnvInv, Own

LEMMA UnitFrame ==
    ASSUME UnitInv, NEW j \in Job,
           UNCHANGED <<unitTmp, unitFile, opened, unitShared>>,
           \A k \in Job \ {j} : at'[k] = at[k] /\ request'[k] = request[k],
           ~WritingUnit(j)'
    PROVE  UnitInv'
BY DEF UnitInv, WritingUnit

-----------------------------------------------------------------------------

LEMMA InitInv == Init => IInv
<1> SUFFICES ASSUME Init PROVE IInv
  OBVIOUS
<1>1. TypeOK
  <2>1. {unitTmp, unitFile, loaded} \subseteq Unit \cup Damaged \cup {NoUnit}
    BY DEF Init
  <2>2. /\ at \in [Job -> Running \cup {"new", "done"}]
        /\ request \in [Job -> Request \cup {NoRequest}]
        /\ \A j \in Job : request[j] = NoRequest <=> at[j] = "new"
        /\ result \in [Job -> {"none", "SUCCESS", "FAILED", "CANCELLED"}]
        /\ \A j \in Job : result[j] # "none" => at[j] = "done"
        /\ whole \in [Job -> BOOLEAN]
    BY DEF Init
  <2>3. /\ release \in [Build -> Content \cup {"empty"}]
        /\ extracted \in [Build -> Content]
        /\ tarball \in [Build -> Content]
        /\ envFile \in [Env -> Content \cup {"short"}]
    BY DEF Init, Content
  <2>4. /\ opened \in [Job -> {"unitTmp", "unitFile", "none"}]
        /\ overlapped \subseteq Build /\ unitShared \in BOOLEAN
    BY DEF Init
  <2>5. crashes \in 0..MaxCrashes
    BY HostConfigureAssumption DEF Init, HostConfigureAssumption
  <2> QED
    BY <2>1, <2>2, <2>3, <2>4, <2>5 DEF TypeOK
<1>2. Alone /\ ReleaseInv /\ SuccessInstalled
  BY DEF Init, Alone, ReleaseInv, SuccessInstalled, Active, Running, Succeeded
<1>3. EnvInv
  BY DEF Init, EnvInv, PastEnv, Succeeded, Replacing
<1>4. UnitInv
  BY DEF Init, UnitInv, WritingUnit, NoUnit, Damaged
<1> QED
  BY <1>1, <1>2, <1>3, <1>4 DEF IInv

\* A job begins: it may overlap one that is at work, and then says so.
LEMMA BeginInv ==
    ASSUME IInv, NEW j \in Job, NEW r \in Request, Begin(j, r)
    PROVE  IInv'
<1>1. TypeOK /\ at[j] = "new"
  BY DEF IInv, Begin, From
<1>2. TypeOK'
  <2>1. overlapped' \subseteq Build
    BY <1>1 DEF TypeOK, Begin, Build
  <2>2. /\ at' \in [Job -> Running \cup {"new", "done"}]
        /\ request' \in [Job -> Request \cup {NoRequest}]
        /\ \A k \in Job : request'[k] = NoRequest <=> at'[k] = "new"
    BY <1>1, HostConfigureAssumption DEF TypeOK, Begin, Running, HostConfigureAssumption
  <2>3. \A k \in Job : result'[k] # "none" => at'[k] = "done"
    BY <1>1 DEF TypeOK, Begin
  <2> QED
    BY <1>1, <2>1, <2>2, <2>3 DEF TypeOK, Begin, buildVars, unitVars
<1>3. /\ at'[j] = "unit" /\ build(j)' = r.build /\ ~Active(j) /\ ~Succeeded(j)
      /\ result' = result /\ overlapped \subseteq overlapped'
  BY <1>1 DEF Begin, TypeOK, build, Active, Running, Succeeded
<1>4. \A k \in Job \ {j} : at'[k] = at[k] /\ request'[k] = request[k]
  BY <1>1 DEF Begin, TypeOK
<1>5. \A k \in Job \ {j} :
          build(k)' = build(k) /\ env(k)' = env(k) /\ (Active(k)' <=> Active(k))
  BY <1>4 DEF build, env, Active
<1>6. \A k \in Job \ {j} : Active(k) /\ build(k) = r.build => r.build \in overlapped'
  BY DEF Begin
<1>7. Alone'
  <2> SUFFICES ASSUME NEW i \in Job, NEW k \in Job,
                      i # k, Active(i)', Active(k)', build(i)' = build(k)'
               PROVE  build(i)' \in overlapped'
    BY DEF Alone
  <2>1. CASE i # j /\ k # j
    BY <1>3, <1>5, <2>1 DEF IInv, Alone
  <2>2. CASE i = j \/ k = j
    BY <1>3, <1>5, <1>6, <2>2
  <2> QED
    BY <2>1, <2>2
<1>8. release' = release /\ extracted' = extracted /\ whole' = whole /\ envFile' = envFile
      /\ crashes' = crashes
  BY DEF Begin, buildVars
<1>9. ReleaseInv'
  <2>1. InExecute(j)'
    BY <1>3 DEF InExecute, Replacing
  <2>2. ASSUME NEW k \in Job, k # j, Active(k)', build(k)' \notin overlapped'
        PROVE  InExecute(k)'
    <3>1. InExecute(k)
      BY <1>3, <1>5, <2>2 DEF IInv, ReleaseInv
    <3> QED
      BY <1>4, <1>5, <1>8, <2>2, <3>1 DEF InExecute
  <2> QED
    BY <1>3, <1>8, <2>1, <2>2 DEF IInv, ReleaseInv
<1>10. SuccessInstalled'
  BY <1>3, <1>5, <1>8 DEF IInv, SuccessInstalled, Succeeded
<1>11. EnvInv'
  <2>1. \A k \in Job : /\ at'[k] = "writeEnv" <=> at[k] = "writeEnv"
                       /\ k # j => (PastEnv(k)' <=> PastEnv(k))
                       /\ ~PastEnv(j)'
    BY <1>1, <1>3, <1>4 DEF PastEnv, Succeeded, Replacing
  <2> QED
    BY <1>1, <1>5, <1>8, <2>1 DEF IInv, EnvInv
<1>12. UnitInv'
  <2>1. UNCHANGED <<unitTmp, unitFile, opened, unitShared>>
    BY DEF Begin, unitVars
  <2>2. ~WritingUnit(j)'
    BY <1>3 DEF WritingUnit
  <2> QED
    BY <1>4, <2>1, <2>2, UnitFrame DEF IInv
<1> QED
  BY <1>2, <1>7, <1>9, <1>10, <1>11, <1>12 DEF IInv

-----------------------------------------------------------------------------
(* The steps of Execute.                                                   *)

\* What a step of Execute leaves, and where it goes.
LEMMA OwnStep ==
    ASSUME TypeOK, NEW j \in Job, at[j] \in Running, TypeOK',
           UNCHANGED <<overlapped, crashes>>,
           \/ \E step \in Running : GoTo(j, step)
           \/ \E status \in {"SUCCESS", "FAILED", "CANCELLED"} : Return(j, status)
    PROVE  /\ Own(j)
           /\ build(j)' = build(j) /\ env(j)' = env(j)
           /\ at'[j] \notin Running => at'[j] = "done"
           /\ at'[j] \in Running => ~Succeeded(j)'
BY DEF TypeOK, Own, GoTo, Return, build, env, Succeeded, Running

\* A step that leaves the directories alone and does not enter the part that
\* replaces the release.
LEMMA QuietStep ==
    ASSUME TypeOK, TypeOK', Alone, ReleaseInv, SuccessInstalled,
           NEW j \in Job, Own(j), build(j)' = build(j),
           UNCHANGED <<release, extracted, whole>>,
           at'[j] \in {"writeUnit", "renameUnit", "env", "writeEnv", "check", "done"},
           Succeeded(j)' => release[build(j)] = "complete" \/ build(j) \in overlapped
    PROVE  Alone' /\ ReleaseInv' /\ SuccessInstalled'
<1>1. build(j) \in Build
  BY Requested DEF Own, Running
<1>2. InExecute(j)'
  BY DEF InExecute, Replacing
<1>3. build(j) \notin overlapped => release[build(j)] # "partial"
  BY <1>1 DEF ReleaseInv
<1> QED
  BY <1>2, <1>3, ReleaseFrame

Quiet(j) ==
    \/ OpenUnit(j) \/ WriteUnit(j) \/ RenameUnit(j)
    \/ FetchEnv(j) \/ WriteEnv(j) \/ WriteEnvFails(j)
    \/ Reload(j) \/ Fail(j) \/ Cancel(j)
Replace(j) ==
    \/ CheckInstalled(j) \/ OpenTarball(j) \/ Download(j) \/ Clean(j)
    \/ Extract(j) \/ RemoveRelease(j) \/ RenameExtracted(j)

\* at, request and result after a step that goes on or returns.
LEMMA TypeMove ==
    ASSUME TypeOK, NEW j \in Job, at[j] \in Running,
           \/ \E step \in Running : GoTo(j, step)
           \/ \E status \in {"SUCCESS", "FAILED", "CANCELLED"} : Return(j, status)
    PROVE  /\ at' \in [Job -> Running \cup {"new", "done"}]
           /\ request' \in [Job -> Request \cup {NoRequest}]
           /\ \A k \in Job : request'[k] = NoRequest <=> at'[k] = "new"
           /\ result' \in [Job -> {"none", "SUCCESS", "FAILED", "CANCELLED"}]
           /\ \A k \in Job : result'[k] # "none" => at'[k] = "done"
BY DEF TypeOK, GoTo, Return, Running

LEMMA QuietType ==
    ASSUME TypeOK, NEW j \in Job, Quiet(j)
    PROVE  TypeOK' /\ at[j] \in Running
<1>1. /\ at[j] \in Running
      /\ \/ \E step \in Running : GoTo(j, step)
         \/ \E status \in {"SUCCESS", "FAILED", "CANCELLED"} : Return(j, status)
  BY DEF Quiet, OpenUnit, WriteUnit, RenameUnit, FetchEnv, WriteEnv, WriteEnvFails, Reload,
         Fail, Cancel, From, Running
<1>2. env(j) \in Env /\ request[j].unit \in Unit
  BY <1>1, Requested DEF Running
<1>3. envFile' \in [Env -> Content \cup {"short"}]
  BY <1>2 DEF Quiet, OpenUnit, WriteUnit, RenameUnit, FetchEnv, WriteEnv, WriteEnvFails, Reload,
              Fail, Cancel, TypeOK, Content
<1>4. {unitTmp', unitFile', loaded'} \subseteq Unit \cup Damaged \cup {NoUnit}
  <2>1. CASE OpenUnit(j)
    BY <2>1 DEF OpenUnit, TypeOK, Damaged
  <2>2. CASE WriteUnit(j)
    BY <1>2, <2>2 DEF WriteUnit, WrittenOver, TypeOK, Damaged
  <2>3. CASE RenameUnit(j)
    BY <2>3 DEF RenameUnit, Renamed, TypeOK
  <2>4. CASE Reload(j)
    BY <2>4 DEF Reload, TypeOK
  <2>5. CASE FetchEnv(j) \/ WriteEnv(j) \/ WriteEnvFails(j) \/ Fail(j) \/ Cancel(j)
    BY <2>5 DEF FetchEnv, WriteEnv, WriteEnvFails, Fail, Cancel, TypeOK, unitVars
  <2> QED
    BY <2>1, <2>2, <2>3, <2>4, <2>5 DEF Quiet
<1>5. opened' \in [Job -> {"unitTmp", "unitFile", "none"}] /\ unitShared' \in BOOLEAN
  <2>1. CASE OpenUnit(j)
    BY <2>1 DEF OpenUnit, TypeOK
  <2>2. CASE RenameUnit(j)
    BY <2>2, ZenonT(30) DEF RenameUnit, Renamed, TypeOK, history
  <2>3. CASE Quiet(j) /\ ~OpenUnit(j) /\ ~RenameUnit(j)
    BY <2>3 DEF Quiet, WriteUnit, FetchEnv, WriteEnv, WriteEnvFails, Reload, Fail, Cancel,
                TypeOK, unitVars, history
  <2> QED
    BY <2>1, <2>2, <2>3
<1>6. UNCHANGED <<whole, release, extracted, tarball, overlapped, crashes>>
  BY DEF Quiet, OpenUnit, WriteUnit, RenameUnit, FetchEnv, WriteEnv, WriteEnvFails, Reload,
         Fail, Cancel, buildVars, history
<1> QED
  BY <1>1, <1>3, <1>4, <1>5, <1>6, TypeMove DEF TypeOK

LEMMA ReplaceType ==
    ASSUME TypeOK, NEW j \in Job, Replace(j)
    PROVE  TypeOK' /\ at[j] \in Running
<1>1. /\ at[j] \in Running
      /\ \/ \E step \in Running : GoTo(j, step)
         \/ \E status \in {"SUCCESS", "FAILED", "CANCELLED"} : Return(j, status)
  BY DEF Replace, CheckInstalled, OpenTarball, Download, Clean, Extract, RemoveRelease,
         RenameExtracted, From, Running
<1>2. build(j) \in Build
  BY <1>1, Requested DEF Running
<1>3. release' \in [Build -> Content \cup {"empty"}]
  BY <1>2 DEF Replace, CheckInstalled, OpenTarball, Download, Clean, Extract, RemoveRelease,
              RenameExtracted, TypeOK, Content
<1>4. extracted' \in [Build -> Content]
  BY <1>2 DEF Replace, CheckInstalled, OpenTarball, Download, Clean, Extract, RemoveRelease,
              RenameExtracted, TypeOK, Content
<1>5. tarball' \in [Build -> Content]
  BY <1>2 DEF Replace, CheckInstalled, OpenTarball, Download, Clean, Extract, RemoveRelease,
              RenameExtracted, TypeOK, Content
<1>6. whole' \in [Job -> BOOLEAN]
  <2>1. BrokenBy(j) \in [Job -> BOOLEAN]
    BY ZenonT(30) DEF BrokenBy
  <2>2. [BrokenBy(j) EXCEPT ![j] = TRUE] \in [Job -> BOOLEAN]
    BY <2>1
  <2>3. whole' \in {whole, BrokenBy(j), [BrokenBy(j) EXCEPT ![j] = TRUE]}
    BY DEF Replace, CheckInstalled, OpenTarball, Download, Clean, Extract, RemoveRelease,
           RenameExtracted
  <2> QED
    BY <2>1, <2>2, <2>3 DEF TypeOK
<1>7. UNCHANGED <<envFile, unitTmp, unitFile, opened, loaded, overlapped, unitShared, crashes>>
  BY DEF Replace, CheckInstalled, OpenTarball, Download, Clean, Extract, RemoveRelease,
         RenameExtracted, unitVars, history
<1> QED
  BY <1>1, <1>3, <1>4, <1>5, <1>6, <1>7, TypeMove DEF TypeOK

\* The steps that write the unit, and those that leave it alone.
LEMMA QuietUnit ==
    ASSUME IInv, NEW j \in Job, Quiet(j), Own(j)
    PROVE  UnitInv'
<1>1. TypeOK /\ request[j].unit \in Unit
  BY Requested DEF IInv, Own, Running
<1>2. \A k \in Job \ {j} : at'[k] = at[k] /\ request'[k] = request[k]
  BY DEF Own
<1>3. CASE OpenUnit(j)
  <2>1. /\ at'[j] = "writeUnit" /\ opened'[j] = "unitTmp" /\ unitTmp' = "empty"
        /\ unitFile' = unitFile
        /\ ~unitShared' => ~unitShared /\ \A k \in Job \ {j} : ~WritingUnit(k)
    BY <1>1, <1>3 DEF OpenUnit, GoTo, TypeOK
  <2> QED
    BY <1>2, <2>1 DEF IInv, UnitInv, WritingUnit
<1>4. CASE WriteUnit(j)
  <2>1. /\ at[j] = "writeUnit" /\ at'[j] = "renameUnit" /\ unitShared' = unitShared
        /\ request' = request
    BY <1>1, <1>4 DEF WriteUnit, From, GoTo, TypeOK, history
  <2>2. SUFFICES ASSUME ~unitShared PROVE UnitInv'
    BY <2>1 DEF UnitInv
  <2>3. opened[j] = "unitTmp" /\ unitTmp = "empty" /\ \A k \in Job \ {j} : ~WritingUnit(k)
    BY <2>1, <2>2 DEF IInv, UnitInv, WritingUnit
  <2>4. unitTmp' = request[j].unit /\ unitFile' = unitFile
    BY <1>4, <2>3 DEF WriteUnit, WrittenOver
  <2> QED
    BY <1>2, <2>1, <2>2, <2>3, <2>4 DEF IInv, UnitInv, WritingUnit
<1>5. CASE RenameUnit(j)
  <2>1. /\ at[j] = "renameUnit" /\ at'[j] = "env" /\ unitShared' = unitShared
        /\ unitFile' = unitTmp
    BY <1>1, <1>5 DEF RenameUnit, Renamed, From, GoTo, TypeOK, history
  <2>2. SUFFICES ASSUME ~unitShared PROVE UnitInv'
    BY <2>1 DEF UnitInv
  <2>3. unitTmp = request[j].unit /\ \A k \in Job \ {j} : ~WritingUnit(k)
    BY <2>1, <2>2 DEF IInv, UnitInv, WritingUnit
  <2>4. unitFile' \notin Damaged
    BY <1>1, <2>1, <2>3, UnitAssumption DEF UnitAssumption
  <2> QED
    BY <1>2, <2>1, <2>3, <2>4 DEF UnitInv, WritingUnit
<1>6. CASE FetchEnv(j) \/ WriteEnv(j) \/ WriteEnvFails(j) \/ Reload(j) \/ Fail(j) \/ Cancel(j)
  <2>1. UNCHANGED <<unitTmp, unitFile, opened, unitShared>>
    BY <1>6 DEF FetchEnv, WriteEnv, WriteEnvFails, Reload, Fail, Cancel, unitVars, history
  <2>2. ~WritingUnit(j)'
    BY <1>1, <1>6 DEF FetchEnv, WriteEnv, WriteEnvFails, Reload, Fail, Cancel, GoTo, Return,
                      TypeOK, WritingUnit
  <2> QED
    BY <1>2, <2>1, <2>2, UnitFrame DEF IInv
<1> QED
  BY <1>3, <1>4, <1>5, <1>6 DEF Quiet

\* The steps that leave the directories alone.
LEMMA QuietInv ==
    ASSUME IInv, NEW j \in Job, Quiet(j)
    PROVE  IInv'
<1>1. TypeOK /\ TypeOK' /\ at[j] \in Running
  BY QuietType DEF IInv
<1>2. /\ \/ \E step \in Running : GoTo(j, step)
         \/ \E status \in {"SUCCESS", "FAILED", "CANCELLED"} : Return(j, status)
      /\ UNCHANGED <<release, extracted, whole, overlapped, crashes>>
  BY DEF Quiet, OpenUnit, WriteUnit, RenameUnit, FetchEnv, WriteEnv, WriteEnvFails, Reload,
         Fail, Cancel, buildVars, history, Running
<1>3. /\ Own(j) /\ build(j)' = build(j) /\ env(j)' = env(j)
      /\ at'[j] \notin Running => at'[j] = "done"
      /\ at'[j] \in Running => ~Succeeded(j)'
  BY <1>1, <1>2, OwnStep
<1>4. /\ at'[j] \in {"writeUnit", "renameUnit", "env", "writeEnv", "check", "done"}
      /\ Succeeded(j)' => at[j] = "reload"
      /\ PastEnv(j)' => PastEnv(j) \/ at[j] \in {"env", "writeEnv"}
      /\ at[j] # "env" => at'[j] # "writeEnv"
  <2>1. CASE OpenUnit(j) \/ WriteUnit(j) \/ RenameUnit(j)
    BY <1>1, <1>3, <2>1 DEF OpenUnit, WriteUnit, RenameUnit, GoTo, From, TypeOK, PastEnv,
                            Replacing, Succeeded, Running
  <2>2. CASE FetchEnv(j)
    BY <1>1, <1>3, <2>2 DEF FetchEnv, GoTo, From, TypeOK, PastEnv, Replacing, Succeeded, Running
  <2>3. CASE WriteEnv(j) \/ WriteEnvFails(j)
    BY <1>1, <1>3, <2>3 DEF WriteEnv, WriteEnvFails, GoTo, From, TypeOK, PastEnv, Replacing,
                            Succeeded, Running
  <2>4. CASE Reload(j)
    BY <1>1, <2>4 DEF Reload, Return, From, TypeOK, PastEnv, Replacing, Succeeded
  <2>5. CASE Fail(j)
    BY <1>1, <2>5 DEF Fail, Return, TypeOK, PastEnv, Replacing, Succeeded
  <2>6. CASE Cancel(j)
    BY <1>1, <2>6 DEF Cancel, Return, TypeOK, PastEnv, Replacing, Succeeded
  <2> QED
    BY <2>1, <2>2, <2>3, <2>4, <2>5, <2>6 DEF Quiet
<1>5. Succeeded(j)' => release[build(j)] = "complete" \/ build(j) \in overlapped
  BY <1>1, <1>4 DEF IInv, ReleaseInv, InExecute, Active
<1>6. Alone' /\ ReleaseInv' /\ SuccessInstalled'
  BY <1>1, <1>2, <1>3, <1>4, <1>5, QuietStep DEF IInv
<1>7. EnvInv'
  <2>1. CASE FetchEnv(j)
    <3>1. \A k \in Job : env(k)' = env(k) /\ (k # j => (PastEnv(k)' <=> PastEnv(k)))
      BY <1>3 DEF Own, env, PastEnv, Succeeded
    <3>2. CASE env(j) \in EnvInStore
      <4>1. at'[j] = "writeEnv" /\ envFile' = [envFile EXCEPT ![env(j)] = "partial"]
        BY <1>1, <2>1, <3>2 DEF FetchEnv, GoTo, TypeOK
      <4>2. env(j) \in Env /\ envFile'[env(j)] = "partial"
            /\ \A e \in Env \ {env(j)} : envFile'[e] = envFile[e]
        BY <1>1, <4>1, Requested DEF TypeOK, Running
      <4>3. \A k \in Job : at[k] = "writeEnv" => at'[k] = "writeEnv"
        BY <1>3, <4>1 DEF Own
      <4>4. \A k \in Job : k # j => (at'[k] = "writeEnv" <=> at[k] = "writeEnv")
        BY <1>3 DEF Own
      <4>5. \A k \in Job : at[k] = "writeEnv" \/ PastEnv(k) => env(k) \in Env
        BY <1>1, Requested, SuccessDone DEF PastEnv, Replacing
      <4>6. ~PastEnv(j)'
        BY <1>3, <4>1 DEF PastEnv, Replacing, Running
      <4> QED
        BY <1>3, <3>1, <4>1, <4>2, <4>3, <4>4, <4>5, <4>6 DEF IInv, EnvInv, Own
    <3>3. CASE env(j) \notin EnvInStore
      <4>1. at'[j] = "check" /\ at[j] = "env" /\ envFile' = envFile
        BY <1>1, <2>1, <3>3 DEF FetchEnv, GoTo, From, TypeOK
      <4>2. \A k \in Job : at'[k] = "writeEnv" <=> at[k] = "writeEnv"
        BY <1>3, <4>1 DEF Own
      <4> QED
        BY <1>3, <3>1, <3>3, <4>1, <4>2 DEF IInv, EnvInv, Own
    <3> QED
      BY <3>2, <3>3
  <2>2. CASE WriteEnv(j) \/ WriteEnvFails(j)
    <3>1. \A k \in Job : env(k)' = env(k) /\ (k # j => (PastEnv(k)' <=> PastEnv(k)))
      BY <1>3 DEF Own, env, PastEnv, Succeeded
    <3>2. at[j] = "writeEnv" /\ at'[j] = "check"
      BY <1>1, <2>2 DEF WriteEnv, WriteEnvFails, GoTo, From, TypeOK
    <3>3. \A k \in Job : k # j => (at'[k] = "writeEnv" <=> at[k] = "writeEnv")
      BY <1>3 DEF Own
    <3>4. PICK content \in {"complete", "partial", "short"} :
              /\ envFile' = [envFile EXCEPT ![env(j)] = content]
              /\ content = "partial" =>
                    \E k \in Job \ {j} : at[k] = "writeEnv" /\ env(k) = env(j)
      <4>1. CASE WriteEnvFails(j)
        BY <4>1 DEF WriteEnvFails
      <4>2. CASE WriteEnv(j)
        BY <4>2 DEF WriteEnv
      <4> QED
        BY <2>2, <4>1, <4>2
    <3>5. env(j) \in Env /\ envFile'[env(j)] = content
          /\ \A e \in Env \ {env(j)} : envFile'[e] = envFile[e]
      BY <1>1, <3>4, Requested DEF TypeOK, Running
    <3>6. \A k \in Job : at[k] = "writeEnv" \/ PastEnv(k) => env(k) \in Env
      BY <1>1, Requested, SuccessDone DEF PastEnv, Replacing
    <3> SUFFICES ASSUME crashes = 0
                 PROVE  EnvInv'
      BY <1>3 DEF Own, EnvInv
    <3>7. \A e \in Env : envFile'[e] = "partial" =>
              \E k \in Job : at'[k] = "writeEnv" /\ env(k) = e
      <4> SUFFICES ASSUME NEW e \in Env, envFile'[e] = "partial"
                   PROVE  \E k \in Job : at'[k] = "writeEnv" /\ env(k) = e
        OBVIOUS
      <4>1. CASE e = env(j)
        BY <3>3, <3>4, <3>5, <4>1
      <4>2. CASE e # env(j)
        BY <3>3, <3>5, <4>2 DEF IInv, EnvInv
      <4> QED
        BY <4>1, <4>2
    <3>8. \A e \in Env : envFile[e] # "missing" => envFile'[e] # "missing"
      BY <3>4, <3>5
    <3>9. \A k \in Job : at'[k] = "writeEnv" => envFile'[env(k)] # "missing"
      BY <3>2, <3>3, <3>6, <3>8 DEF IInv, EnvInv
    <3>10. \A k \in Job : PastEnv(k)' /\ env(k) \in EnvInStore => envFile'[env(k)] # "missing"
      BY <3>1, <3>4, <3>5, <3>6, <3>8 DEF IInv, EnvInv
    <3> QED
      BY <3>1, <3>7, <3>9, <3>10 DEF EnvInv
  <2>3. CASE \/ OpenUnit(j) \/ WriteUnit(j) \/ RenameUnit(j)
             \/ Reload(j) \/ Fail(j) \/ Cancel(j)
    <3>1. envFile' = envFile /\ at[j] # "writeEnv"
      BY <2>3 DEF OpenUnit, WriteUnit, RenameUnit, Reload, Fail, Cancel, From, Running
    <3>2. at'[j] # "writeEnv" /\ (PastEnv(j)' => PastEnv(j))
      <4>1. CASE OpenUnit(j) \/ WriteUnit(j) \/ RenameUnit(j)
        BY <1>1, <1>3, <4>1 DEF OpenUnit, WriteUnit, RenameUnit, GoTo, From, TypeOK, PastEnv,
                                Replacing, Running
      <4>2. CASE Reload(j)
        BY <1>1, <4>2 DEF Reload, Return, From, TypeOK, PastEnv
      <4>3. CASE Fail(j)
        BY <1>1, <4>3 DEF Fail, Return, TypeOK, PastEnv, Replacing, Succeeded
      <4>4. CASE Cancel(j)
        BY <1>1, <4>4 DEF Cancel, Return, TypeOK, PastEnv, Replacing, Succeeded
      <4> QED
        BY <2>3, <4>1, <4>2, <4>3, <4>4
    <3> QED
      BY <1>3, <3>1, <3>2, EnvFrame DEF IInv
  <2> QED
    BY <2>1, <2>2, <2>3 DEF Quiet
<1> QED
  BY <1>1, <1>3, <1>6, <1>7, QuietUnit DEF IInv

\* What is left to show of a step that works on the directories.
LEMMA ReplaceStep ==
    ASSUME IInv, NEW j \in Job, Replace(j),
           \A b \in Build \ {build(j)} :
               release'[b] = release[b] /\ extracted'[b] = extracted[b],
           \A k \in Job \ {j} : k \notin Rivals(j) => whole'[k] = whole[k],
           build(j) \notin overlapped /\ InExecute(j) /\ release[build(j)] # "partial" =>
               /\ at'[j] \in Running => InExecute(j)'
               /\ release'[build(j)] # "partial"
               /\ release[build(j)] = "complete" => release'[build(j)] = "complete"
               /\ Succeeded(j)' => release'[build(j)] = "complete"
    PROVE  IInv'
<1>1. TypeOK /\ TypeOK' /\ at[j] \in Running
  BY ReplaceType DEF IInv
<1>2. /\ \/ \E step \in Running : GoTo(j, step)
         \/ \E status \in {"SUCCESS", "FAILED", "CANCELLED"} : Return(j, status)
      /\ UNCHANGED <<envFile, unitTmp, unitFile, opened, overlapped, unitShared, crashes>>
      /\ at[j] \in {"check"} \cup Replacing
  BY DEF Replace, CheckInstalled, OpenTarball, Download, Clean, Extract, RemoveRelease,
         RenameExtracted, From, Running, Replacing, unitVars, history
<1>3. Own(j) /\ (at'[j] \notin Running => at'[j] = "done")
  BY <1>1, <1>2, OwnStep
<1>4. build(j) \in Build
  BY <1>1, Requested DEF Running
<1>5. build(j) \notin overlapped => InExecute(j) /\ release[build(j)] # "partial"
  BY <1>1, <1>4 DEF IInv, ReleaseInv, Active
<1>6. Alone' /\ ReleaseInv' /\ SuccessInstalled'
  BY <1>1, <1>3, <1>5, ReleaseFrame DEF IInv
<1>7. at[j] # "writeEnv" /\ at'[j] # "writeEnv" /\ PastEnv(j) /\ ~WritingUnit(j)'
  <2>1. at'[j] # "writeEnv" /\ ~WritingUnit(j)'
    BY <1>1 DEF Replace, CheckInstalled, OpenTarball, Download, Clean, Extract, RemoveRelease,
                RenameExtracted, GoTo, Return, TypeOK, WritingUnit
  <2> QED
    BY <1>2, <2>1 DEF PastEnv, Replacing
<1>8. EnvInv'
  BY <1>2, <1>3, <1>7, EnvFrame DEF IInv
<1>9. UnitInv'
  BY <1>2, <1>3, <1>7, UnitFrame DEF IInv, Own
<1> QED
  BY <1>1, <1>6, <1>8, <1>9 DEF IInv

LEMMA ReplaceInv ==
    ASSUME IInv, NEW j \in Job, Replace(j)
    PROVE  IInv'
<1>1. /\ TypeOK /\ at[j] \in Running /\ build(j) \in Build
      /\ build(j)' = build(j)
  <2>1. TypeOK /\ at[j] \in Running
    BY ReplaceType DEF IInv
  <2>2. request' = request
    BY DEF Replace, CheckInstalled, OpenTarball, Download, Clean, Extract, RemoveRelease,
           RenameExtracted, GoTo, Return
  <2> QED
    BY <2>1, <2>2, Requested DEF Running, build
<1>2. \A k \in Job \ {j} : k \notin Rivals(j) => BrokenBy(j)[k] = whole[k]
  BY <1>1 DEF BrokenBy, TypeOK
<1>3. CASE CheckInstalled(j)
  <2>1. /\ whole' = whole /\ extracted' = extracted
        /\ \A b \in Build \ {build(j)} : release'[b] = release[b]
    BY <1>1, <1>3 DEF CheckInstalled, TypeOK
  <2>2. \/ /\ at'[j] = "open" /\ result' = result
           /\ release[build(j)] # "complete" /\ release'[build(j)] = "empty"
        \/ /\ at'[j] = "done" /\ release' = release
           /\ release[build(j)] \in {"partial", "complete"}
    BY <1>1, <1>3 DEF CheckInstalled, GoTo, Return, TypeOK
  <2>3. at'[j] = "open" => ~Succeeded(j)'
    BY <1>1, <2>2 DEF TypeOK, Succeeded, Running
  <2> QED
    BY <1>1, <1>3, <2>1, <2>2, <2>3, ReplaceStep DEF Replace, InExecute, Replacing, Running
<1>4. CASE OpenTarball(j)
  <2>1. /\ at[j] = "open" /\ at'[j] = "download" /\ result' = result
        /\ UNCHANGED <<release, extracted, whole>>
    BY <1>1, <1>4 DEF OpenTarball, From, GoTo, TypeOK
  <2>2. ~Succeeded(j)'
    BY <1>1, <2>1 DEF TypeOK, Succeeded
  <2> QED
    BY <1>1, <1>4, <2>1, <2>2, ReplaceStep DEF Replace, InExecute, Replacing
<1>5. CASE Download(j)
  <2>1. /\ at[j] = "download" /\ at'[j] = "clean" /\ result' = result
        /\ UNCHANGED <<release, extracted, whole>>
    BY <1>1, <1>5 DEF Download, From, GoTo, TypeOK
  <2>2. ~Succeeded(j)'
    BY <1>1, <2>1 DEF TypeOK, Succeeded
  <2> QED
    BY <1>1, <1>5, <2>1, <2>2, ReplaceStep DEF Replace, InExecute, Replacing
<1>6. CASE Clean(j)
  <2>1. /\ at[j] = "clean" /\ at'[j] = "extract" /\ result' = result /\ release' = release
        /\ \A b \in Build \ {build(j)} : extracted'[b] = extracted[b]
        /\ whole' = [BrokenBy(j) EXCEPT ![j] = TRUE]
    BY <1>1, <1>6 DEF Clean, From, GoTo, TypeOK
  <2>2. whole'[j] /\ \A k \in Job \ {j} : k \notin Rivals(j) => whole'[k] = whole[k]
    BY <1>2, <2>1 DEF BrokenBy
  <2>3. ~Succeeded(j)'
    BY <1>1, <2>1 DEF TypeOK, Succeeded
  <2> QED
    BY <1>1, <1>6, <2>1, <2>2, <2>3, ReplaceStep DEF Replace, InExecute, Replacing
<1>7. CASE Extract(j)
  <2>1. /\ at[j] = "extract" /\ at'[j] = "remove" /\ result' = result
        /\ UNCHANGED <<release, whole>>
        /\ \A b \in Build \ {build(j)} : extracted'[b] = extracted[b]
        /\ whole[j] /\ Rivals(j) = {} => extracted'[build(j)] = "complete"
    BY <1>1, <1>7 DEF Extract, From, GoTo, TypeOK
  <2>2. ~Succeeded(j)'
    BY <1>1, <2>1 DEF TypeOK, Succeeded
  <2>3. build(j) \notin overlapped => Rivals(j) = {}
    BY <1>1 DEF IInv, Alone, Rivals, Active
  <2> QED
    BY <1>1, <1>7, <2>1, <2>2, <2>3, ReplaceStep DEF Replace, InExecute, Replacing
<1>8. CASE RemoveRelease(j)
  <2>1. /\ at[j] = "remove" /\ at'[j] = "rename" /\ result' = result
        /\ UNCHANGED <<extracted, whole>>
        /\ \A b \in Build \ {build(j)} : release'[b] = release[b]
        /\ release'[build(j)] = "missing"
    BY <1>1, <1>8 DEF RemoveRelease, From, GoTo, TypeOK
  <2>2. ~Succeeded(j)'
    BY <1>1, <2>1 DEF TypeOK, Succeeded
  <2> QED
    BY <1>1, <1>8, <2>1, <2>2, ReplaceStep DEF Replace, InExecute, Replacing
<1>9. CASE RenameExtracted(j)
  <2>1. /\ at[j] = "rename" /\ at'[j] = "reload" /\ result' = result
        /\ whole' = BrokenBy(j)
        /\ \A b \in Build \ {build(j)} : release'[b] = release[b] /\ extracted'[b] = extracted[b]
        /\ release'[build(j)] = extracted[build(j)]
    BY <1>1, <1>9 DEF RenameExtracted, From, GoTo, TypeOK
  <2>2. ~Succeeded(j)'
    BY <1>1, <2>1 DEF TypeOK, Succeeded
  <2> QED
    BY <1>1, <1>2, <1>9, <2>1, <2>2, ReplaceStep DEF Replace, InExecute, Replacing
<1> QED
  BY <1>3, <1>4, <1>5, <1>6, <1>7, <1>8, <1>9 DEF Replace

\* Removing is not one step, and the job stays where it is meanwhile.  A job that is
\* alone finds nothing to remove when it is about to rename.
LEMMA RemoveSomeInv ==
    ASSUME IInv, NEW j \in Job, RemoveSome(j)
    PROVE  IInv'
<1>1. /\ TypeOK /\ at[j] \in {"clean", "remove"} /\ at[j] \in Running
      /\ UNCHANGED <<at, request, result, tarball, envFile, unitTmp, unitFile, opened, loaded,
                     overlapped, unitShared, crashes>>
  BY DEF IInv, RemoveSome, From, Running, unitVars, history
<1>2. build(j) \in Build /\ build(j)' = build(j)
  BY <1>1, Requested DEF Running, build
<1>3. \/ /\ at[j] = "clean" /\ release' = release /\ whole' = BrokenBy(j)
         /\ extracted' = [extracted EXCEPT ![build(j)] = "partial"]
      \/ /\ at[j] = "remove" /\ extracted' = extracted /\ whole' = whole
         /\ release[build(j)] = "complete"
         /\ release' = [release EXCEPT ![build(j)] = "partial"]
  BY DEF RemoveSome, From
<1>4. TypeOK'
  <2>1. BrokenBy(j) \in [Job -> BOOLEAN]
    BY ZenonT(30) DEF BrokenBy
  <2>2. /\ release' \in [Build -> Content \cup {"empty"}]
        /\ extracted' \in [Build -> Content] /\ whole' \in [Job -> BOOLEAN]
    BY <1>1, <1>2, <1>3, <2>1 DEF TypeOK, Content
  <2> QED
    BY <1>1, <2>2 DEF TypeOK
<1>5. Own(j)
  BY <1>1 DEF Own
<1>6. \A b \in Build \ {build(j)} : release'[b] = release[b] /\ extracted'[b] = extracted[b]
  BY <1>1, <1>3 DEF TypeOK
<1>7. \A k \in Job \ {j} : k \notin Rivals(j) => whole'[k] = whole[k]
  BY <1>1, <1>3 DEF BrokenBy, TypeOK
<1>8. ASSUME build(j) \notin overlapped
      PROVE  /\ InExecute(j)' /\ release' = release /\ release[build(j)] # "partial"
  <2>1. InExecute(j) /\ release[build(j)] # "partial"
    BY <1>1, <1>2, <1>8 DEF IInv, ReleaseInv, Active
  <2>2. at[j] = "clean" /\ release' = release
    BY <1>3, <2>1 DEF InExecute, Replacing
  <2> QED
    BY <1>1, <1>2, <2>1, <2>2 DEF InExecute, Replacing
<1>9. ~Succeeded(j)'
  BY <1>1 DEF TypeOK, Succeeded
<1>10. Alone' /\ ReleaseInv' /\ SuccessInstalled'
  BY <1>1, <1>4, <1>5, <1>6, <1>7, <1>8, <1>9, ReleaseFrame DEF IInv
<1>11. EnvInv'
  BY <1>1, <1>5, EnvFrame DEF IInv, PastEnv, Replacing
<1>12. UnitInv'
  BY <1>1, UnitFrame DEF IInv, WritingUnit
<1> QED
  BY <1>4, <1>10, <1>11, <1>12 DEF IInv

-----------------------------------------------------------------------------

\* After a crash no job is at work, and the disk is as it was.
LEMMA CrashInv ==
    ASSUME IInv, Crash
    PROVE  IInv'
<1>1. TypeOK'
  <2>1. crashes' \in 0..MaxCrashes
    BY HostConfigureAssumption DEF IInv, TypeOK, Crash, HostConfigureAssumption
  <2>2. \A k \in Job : at'[k] \in {at[k], "done"} /\ (at[k] = "done" => at'[k] = "done")
                       /\ (at'[k] = "new" <=> at[k] = "new")
    BY DEF IInv, TypeOK, Crash, Active, Running
  <2>3. at' \in [Job -> Running \cup {"new", "done"}]
    BY DEF IInv, TypeOK, Crash, Active
  <2> QED
    BY <2>1, <2>2, <2>3 DEF IInv, TypeOK, Crash, buildVars, unitVars
<1>2. \A k \in Job : ~Active(k)'
  BY DEF Crash, Active, IInv, TypeOK, Running
<1>3. \A k \in Job : build(k)' = build(k) /\ (Succeeded(k)' <=> Succeeded(k))
  BY DEF Crash, build, Succeeded
<1>4. Alone' /\ ReleaseInv' /\ SuccessInstalled'
  BY <1>2, <1>3 DEF Crash, IInv, Alone, ReleaseInv, SuccessInstalled, buildVars
<1>5. EnvInv'
  BY DEF Crash, IInv, TypeOK, EnvInv
<1>6. UnitInv'
  <2>1. \A k \in Job : ~WritingUnit(k)'
    BY <1>2 DEF WritingUnit, Active, Running
  <2>2. unitFile' = unitFile /\ unitShared' = unitShared
    BY DEF Crash, unitVars
  <2> QED
    BY <2>1, <2>2 DEF IInv, UnitInv, WritingUnit
<1> QED
  BY <1>1, <1>4, <1>5, <1>6 DEF IInv

LEMMA StutterInv ==
    ASSUME IInv, UNCHANGED vars
    PROVE  IInv'
<1>1. UNCHANGED <<at, request, result, whole, release, extracted, tarball, envFile,
                  unitTmp, unitFile, opened, loaded, overlapped, unitShared, crashes>>
  BY DEF vars, jobVars, buildVars, unitVars, history
<1>2. \A k \in Job : /\ build(k)' = build(k) /\ env(k)' = env(k)
                     /\ Active(k)' = Active(k) /\ Succeeded(k)' = Succeeded(k)
                     /\ PastEnv(k)' = PastEnv(k) /\ InExecute(k)' = InExecute(k)
                     /\ WritingUnit(k)' = WritingUnit(k)
  BY <1>1 DEF build, env, Active, Succeeded, PastEnv, InExecute, WritingUnit
<1>3. TypeOK' /\ Alone' /\ ReleaseInv' /\ SuccessInstalled'
  BY <1>1, <1>2 DEF IInv, TypeOK, Alone, ReleaseInv, SuccessInstalled
<1>4. EnvInv' /\ UnitInv'
  BY <1>1, <1>2 DEF IInv, EnvInv, UnitInv
<1> QED
  BY <1>3, <1>4 DEF IInv

LEMMA NextInv ==
    ASSUME IInv, [Next]_vars
    PROVE  IInv'
BY BeginInv, QuietInv, ReplaceInv, RemoveSomeInv, CrashInv, StutterInv
   DEF Next, Step, Quiet, Replace

\* Whatever the jobs of a host do, and wherever they end, the directories and
\* files are as InExecute, EnvInv and UnitInv describe them.
THEOREM Invariance == Spec => []IInv
BY InitInv, NextInv, PTL DEF Spec

\* The jobs, directories, files and units keep their types
\* (job_deploy_configure.go).
THEOREM TypeCorrect == Spec => []TypeOK
<1>1. IInv => TypeOK
  BY DEF IInv
<1> QED
  BY <1>1, Invariance, PTL

\* As long as its build was never configured by two jobs at once, a job that
\* reports SUCCESS has the complete release (configureHost.Execute).
THEOREM SuccessAlwaysHasRelease == Spec => []SuccessInstalled
<1>1. IInv => SuccessInstalled
  BY DEF IInv
<1> QED
  BY <1>1, Invariance, PTL

\* A job that reports SUCCESS has its env file, complete or short of lines whose
\* writing failed, until a crash or while another job rewrites it
\* (configureHost.Execute).
THEOREM SuccessLeavesEnv == Spec => []SuccessHasEnv
<1>1. ASSUME IInv
      PROVE  SuccessHasEnv
  <2> SUFFICES ASSUME NEW j \in Job, Succeeded(j), env(j) \in EnvInStore, crashes = 0,
                      \A k \in Job : at[k] = "writeEnv" => env(k) # env(j)
               PROVE  envFile[env(j)] \in {"complete", "short"}
    BY DEF SuccessHasEnv
  <2>1. env(j) \in Env
    BY <1>1, SuccessDone, Requested DEF IInv
  <2>2. envFile[env(j)] # "missing" /\ envFile[env(j)] # "partial"
    BY <1>1, <2>1 DEF IInv, EnvInv, PastEnv
  <2> QED
    BY <1>1, <2>1, <2>2 DEF IInv, TypeOK, Content
<1> QED
  BY <1>1, Invariance, PTL

-----------------------------------------------------------------------------
(* The unit.                                                               *)

\* The unit systemd would load is never an empty or a torn one, unless two jobs
\* wrote it at once (configureHost.Execute).
THEOREM UnitAlwaysWhole == Spec => []UnitWhole
<1>1. IInv => UnitWhole
  BY DEF IInv, UnitInv, UnitWhole
<1> QED
  BY <1>1, Invariance, PTL

-----------------------------------------------------------------------------
(* An installed release stays.                                             *)

LEMMA StepKeeps ==
    ASSUME IInv, [Next]_vars, NEW b \in Build, release[b] = "complete", b \notin overlapped'
    PROVE  release'[b] = "complete"
<1>1. CASE release' = release
  BY <1>1
<1>2. ASSUME NEW j \in Job,
             CheckInstalled(j) \/ RemoveSome(j) \/ RemoveRelease(j) \/ RenameExtracted(j)
      PROVE  release'[b] = "complete"
  <2>1. TypeOK /\ overlapped' = overlapped
    BY <1>2 DEF IInv, CheckInstalled, RemoveSome, RemoveRelease, RenameExtracted, history
  <2>2. CASE build(j) = b
    <3>1. at[j] \in {"check", "clean", "remove", "rename"} /\ Active(j)
      BY <1>2 DEF CheckInstalled, RemoveSome, RemoveRelease, RenameExtracted, From, Active,
                  Running
    <3>2. at[j] = "check"
      BY <2>1, <2>2, <3>1 DEF IInv, ReleaseInv, InExecute, Replacing
    <3> QED
      BY <1>2, <2>2, <3>2 DEF CheckInstalled, RemoveSome, RemoveRelease, RenameExtracted, From
  <2>3. CASE build(j) # b
    BY <1>2, <2>1, <2>3 DEF CheckInstalled, RemoveSome, RemoveRelease, RenameExtracted, TypeOK
  <2> QED
    BY <2>2, <2>3
<1>3. \/ release' = release
      \/ \E j \in Job :
            CheckInstalled(j) \/ RemoveSome(j) \/ RemoveRelease(j) \/ RenameExtracted(j)
  BY DEF Next, Step, Begin, OpenUnit, WriteUnit, RenameUnit, FetchEnv, WriteEnv, WriteEnvFails,
         OpenTarball, Download, Clean, Extract, Reload, Fail, Cancel, Crash, buildVars, vars
<1> QED
  BY <1>1, <1>2, <1>3

\* An installed release is never taken away by a later job of its build
\* (configureHost.Execute), unless two configured it at once.
THEOREM ReleaseAlwaysKept == Spec => ReleaseKept
<1>1. IInv /\ [Next]_vars =>
          [\A b \in Build : release[b] = "complete" /\ b \notin overlapped'
               => release'[b] = "complete"]_vars
  BY StepKeeps
<1> QED
  BY <1>1, Invariance, PTL DEF Spec, ReleaseKept
=============================================================================
