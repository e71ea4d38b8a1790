------------------------- MODULE DeploydTurn_proofs -------------------------
(***************************************************************************)
(* Proofs that the turn to go on with a job is in one place: for any       *)
(* hosts, services, target lists and any number of jobs, timeouts, crashes *)
(* and cancellations there is at most one event, goroutine or late         *)
(* proposal that confirms the next restart of a job or restarts a host     *)
(* (TurnInv).  So hosts restart one at a time, with the release installed, *)
(* and each is told once.                                                  *)
(*                                                                         *)
(* And that it is in one place at least, until the job ends, as long as no *)
(* process crashes (WaitsInv): what the invariants above say is nowhere    *)
(* twice is not lost either, and no job is forgotten.                      *)
(***************************************************************************)
EXTENDS Deployd_proofs

-----------------------------------------------------------------------------
(* Turns that stay where they are.                                         *)

EventsKept(id) ==
    TurnEvents(id)' \subseteq TurnEvents(id) /\ \A i \in TurnEvents(id)' : log'[i] = log[i]

PlacesKept(id) ==
    /\ TurnConsumers(id)' \subseteq TurnConsumers(id)
    /\ \A h \in TurnConsumers(id)' :
          (consumer'[h].at = "confirm") <=> (consumer[h].at = "confirm")
    /\ TurnLate(id)' \subseteq TurnLate(id)

ToldKept(id) == Told(id)' = Told(id) /\ \A i \in Told(id) : log'[i] = log[i]

\* The job's part in a turn is as before, or the job was cancelled.
JobStill(id) ==
    /\ jobs'[id].status \in {jobs[id].status, "CANCELLED"}
    /\ jobs'[id].currentOrder = jobs[id].currentOrder
    /\ jobs'[id].hostOrder = jobs[id].hostOrder
    /\ HostsOf(jobs'[id]) = HostsOf(jobs[id])
    /\ WasConfigured(id) => WasConfigured(id)'

\* The turn is given to nobody who had it not.
TurnPassedOn(id) ==
    /\ AtMostOneOf(TurnEvents(id)', TurnConsumers(id)', TurnLate(id)')
    /\ AwaitsConfirmation(id)' => AwaitsConfirmation(id)
    /\ \A h \in Host : RestartsAt(id, h)' => RestartsAt(id, h)

LEMMA KeptIsPassedOn ==
    ASSUME NEW id, AtMostOneOf(TurnEvents(id), TurnConsumers(id), TurnLate(id)),
           EventsKept(id), PlacesKept(id)
    PROVE  TurnPassedOn(id)
<1>1. AtMostOneOf(TurnEvents(id)', TurnConsumers(id)', TurnLate(id)')
  <2> DEFINE A == TurnEvents(id)
             B == TurnConsumers(id)
             C == TurnLate(id)
             A1 == TurnEvents(id)'
             B1 == TurnConsumers(id)'
             C1 == TurnLate(id)'
  <2>1. AtMostOneOf(A, B, C) /\ A1 \subseteq A /\ B1 \subseteq B /\ C1 \subseteq C
    BY DEF EventsKept, PlacesKept
  <2> HIDE DEF A, B, C, A1, B1, C1
  <2>2. AtMostOneOf(A1, B1, C1)
    BY <2>1 DEF AtMostOneOf
  <2> QED
    BY <2>2 DEF A1, B1, C1
<1>2. AwaitsConfirmation(id)' => AwaitsConfirmation(id)
  <2>1. \A h \in TurnConsumers(id)' : h \in Host
    BY DEF TurnConsumers
  <2> QED
    BY <2>1 DEF EventsKept, PlacesKept, AwaitsConfirmation
<1>3. \A h \in Host : RestartsAt(id, h)' => RestartsAt(id, h)
  BY DEF EventsKept, PlacesKept, RestartsAt
<1> QED
  BY <1>1, <1>2, <1>3 DEF TurnPassedOn

LEMMA TurnStays ==
    ASSUME NEW id, OneTurn(id), ToldInOrder(id), TurnPassedOn(id), ToldKept(id), JobStill(id)
    PROVE  OneTurn(id)' /\ ToldInOrder(id)'
<1>1. OneTurn(id)'
  <2>1. \A h \in Host : RestartsAt(id, h)' =>
           /\ WasConfigured(id)'
           /\ h \in HostsOf(jobs'[id])
           /\ jobs'[id].status \in {"DEPLOYING", "CANCELLED"}
           /\ jobs'[id].status = "DEPLOYING" => OnProgress(jobs'[id]) = h
           /\ jobs'[id].currentOrder # NilOrder
    BY DEF OneTurn, TurnPassedOn, JobStill, OnProgress
  <2>2. AtMostOneOf(TurnEvents(id), TurnConsumers(id), TurnLate(id))'
    BY DEF TurnPassedOn, AtMostOneOf
  <2>3. AwaitsConfirmation(id)' => WasConfigured(id)'
    BY DEF OneTurn, TurnPassedOn, JobStill
  <2> QED
    BY <2>1, <2>2, <2>3 DEF OneTurn
<1>2. ToldInOrder(id)'
  <2>1. Told(id)' # {} => WasConfigured(id)'
    BY DEF ToldInOrder, ToldKept, JobStill
  <2>2. jobs'[id].status = "CONFIGURED" => Told(id)' = {}
    BY DEF ToldInOrder, ToldKept, JobStill
  <2>3. ASSUME jobs'[id].status = "DEPLOYING", NEW i \in Told(id)'
        PROVE  \E k \in DOMAIN jobs'[id].hostOrder :
                  /\ log'[i].host = jobs'[id].hostOrder[k]
                  /\ k <= jobs'[id].currentOrder + 1
                  /\ AwaitsConfirmation(id)' => k <= jobs'[id].currentOrder
    BY <2>3 DEF ToldInOrder, ToldKept, JobStill, TurnPassedOn
  <2> QED
    BY <2>1, <2>2, <2>3 DEF ToldInOrder
<1> QED
  BY <1>1, <1>2

-----------------------------------------------------------------------------
(* What a step does to the events.                                         *)

LEMMA WasConfiguredGrows ==
    ASSUME LogTyped, \/ log' = log
                     \/ \E e \in Event : log' = Append(log, e)
    PROVE  \A id : WasConfigured(id) => WasConfigured(id)'
<1>1. CASE log' = log
  BY <1>1 DEF WasConfigured
<1>2. ASSUME NEW e \in Event, log' = Append(log, e)
      PROVE  \A id : WasConfigured(id) => WasConfigured(id)'
  BY <1>2, Appended DEF WasConfigured
<1> QED
  BY <1>1, <1>2

LEMMA QuietEvents ==
    ASSUME log' = log, cursor' = cursor
    PROVE  \A id : EventsKept(id) /\ ToldKept(id)
BY DEF EventsKept, ToldKept, TurnEvents, Told

\* An event about one job leaves the others' turns where they are.
LEMMA OtherEvents ==
    ASSUME LogTyped, NEW e \in Event, log' = Append(log, e), cursor' = cursor
    PROVE  \A id : id # e.id \/ e.kind = "JobCreated" => EventsKept(id) /\ ToldKept(id)
<1>1. /\ DOMAIN log' = DOMAIN log \cup {Len(log) + 1}
      /\ \A i \in DOMAIN log : log'[i] = log[i]
      /\ log'[Len(log) + 1] = e
  BY Appended
<1> QED
  BY <1>1 DEF EventsKept, ToldKept, TurnEvents, Told

\* The event itself is a turn until its host takes it.
LEMMA OwnEvent ==
    ASSUME LogTyped, NEW e \in Event, log' = Append(log, e), cursor' = cursor
    PROVE  /\ TurnEvents(e.id)' \subseteq TurnEvents(e.id) \cup {Len(log) + 1}
           /\ log'[Len(log) + 1] = e
           /\ \A i \in DOMAIN log : log'[i] = log[i]
           /\ Told(e.id)' = IF e.kind = "RestartConfirmed"
                            THEN Told(e.id) \cup {Len(log) + 1} ELSE Told(e.id)
           /\ Told(e.id) \subseteq DOMAIN log
<1>1. /\ DOMAIN log' = DOMAIN log \cup {Len(log) + 1}
      /\ \A i \in DOMAIN log : log'[i] = log[i]
      /\ log'[Len(log) + 1] = e
  BY Appended
<1> QED
  BY <1>1 DEF TurnEvents, Told

LEMMA EventHosts ==
    ASSUME LogTyped
    PROVE  \A i \in DOMAIN log : i \in Nat /\ log[i].host \in Host
<1>1. ASSUME NEW i \in DOMAIN log
      PROVE  i \in Nat /\ log[i].host \in Host
  <2>1. i \in Nat /\ log[i] \in Event
    BY DEF LogTyped
  <2> QED
    BY <2>1 DEF Event
<1> QED
  BY <1>1

\* A host told once is not told again by this step.
ToldOnceKept == ConfirmedOncePerHost => ConfirmedOncePerHost'

LEMMA NobodyTold ==
    ASSUME SystemInv, [Next]_jobs,
           \/ log' = log
           \/ \E e \in Event : e.kind # "RestartConfirmed" /\ log' = Append(log, e)
    PROVE  ToldOnceKept
<1> SUFFICES ASSUME ConfirmedOncePerHost,
                    NEW i \in DOMAIN log', NEW k \in DOMAIN log',
                    log'[i].kind = "RestartConfirmed", log'[k].kind = "RestartConfirmed",
                    log'[i].id = log'[k].id, log'[i].host = log'[k].host,
                    DistinctHosts(jobs'[log'[i].id])
             PROVE  i = k
  BY DEF ToldOnceKept, ConfirmedOncePerHost
<1>1. i \in DOMAIN log /\ k \in DOMAIN log /\ log'[i] = log[i] /\ log'[k] = log[k]
  <2>1. ASSUME NEW e \in Event, e.kind # "RestartConfirmed", log' = Append(log, e)
        PROVE  /\ DOMAIN log' = DOMAIN log \cup {Len(log) + 1}
               /\ \A j \in DOMAIN log : log'[j] = log[j]
               /\ log'[Len(log) + 1] = e
    BY <2>1, Appended DEF SystemInv
  <2> QED
    BY <2>1
<1>2. log[i].id \in DOMAIN jobs
  BY <1>1 DEF SystemInv, LogTyped
<1>3. DistinctHosts(jobs[log[i].id])
  BY <1>1, <1>2, JobsKept DEF DistinctHosts, SystemInv
<1> QED
  BY <1>1, <1>3 DEF ConfirmedOncePerHost

-----------------------------------------------------------------------------
(* Committing a command.                                                   *)

\* Whoever has the turn of a job waits for a confirmation or restarts a host.
LEMMA SomeTurn ==
    ASSUME SystemInv, NEW id,
           ~AwaitsConfirmation(id), \A h \in Host : ~RestartsAt(id, h)
    PROVE  TurnEvents(id) = {} /\ TurnConsumers(id) = {} /\ TurnLate(id) = {}
<1>1. ASSUME NEW i \in TurnEvents(id)
      PROVE  FALSE
  <2>1. log[i] \in Event
    BY DEF TurnEvents, SystemInv, LogTyped
  <2>2. log[i].host \in Host
    BY <2>1 DEF Event
  <2> QED
    BY <2>2 DEF AwaitsConfirmation, RestartsAt
<1>2. ASSUME NEW h \in TurnConsumers(id)
      PROVE  FALSE
  <2>1. h \in Host
    BY DEF TurnConsumers
  <2> QED
    BY <2>1 DEF AwaitsConfirmation, RestartsAt
<1>3. ASSUME NEW cmd \in TurnLate(id)
      PROVE  FALSE
  <2>1. cmd \in Command /\ (cmd.kind = "restart" \/ cmd.kind = "restarted")
    BY DEF TurnLate, SystemInv, LateTyped
  <2>2. cmd.kind = "restarted" => cmd.host \in Host
    BY <2>1, CommandKinds
  <2> QED
    BY <2>1, <2>2 DEF AwaitsConfirmation, RestartsAt
<1> QED
  BY <1>1, <1>2, <1>3

LEMMA NoTurnYet ==
    ASSUME SystemInv, NEW id, OneTurn(id), ToldInOrder(id), ~WasConfigured(id)
    PROVE  /\ TurnEvents(id) = {} /\ TurnConsumers(id) = {} /\ TurnLate(id) = {}
           /\ Told(id) = {}
BY SomeTurn DEF OneTurn, ToldInOrder

\* A job no command is about.
LEMMA OtherTurn ==
    ASSUME SystemInv, NEW id \in DOMAIN jobs, OneTurn(id), ToldInOrder(id),
           jobs'[id] = jobs[id], PlacesKept(id), cursor' = cursor,
           \/ log' = log
           \/ \E e \in Event : (e.id # id \/ e.kind = "JobCreated") /\ log' = Append(log, e)
    PROVE  OneTurn(id)' /\ ToldInOrder(id)'
<1>1. EventsKept(id) /\ ToldKept(id)
  BY QuietEvents, OtherEvents DEF SystemInv
<1>2. WasConfigured(id) => WasConfigured(id)'
  BY WasConfiguredGrows DEF SystemInv
<1>3. JobStill(id)
  BY <1>2 DEF JobStill, HostsOf
<1>4. TurnPassedOn(id)
  BY <1>1, KeptIsPassedOn DEF OneTurn
<1> QED
  BY <1>1, <1>3, <1>4, TurnStays

\* The turn is nowhere but, perhaps, in the event just logged.
LEMMA NewTurn ==
    ASSUME SystemInv, NEW id, NEW kind, NEW h, kind # "JobCreated",
           Logged(kind, id, h), cursor' = cursor,
           TurnEvents(id) = {}, TurnConsumers(id)' = {}, TurnLate(id)' = {}
    PROVE  /\ AtMostOneOf(TurnEvents(id)', TurnConsumers(id)', TurnLate(id)')
           /\ kind = "RestartConfirmed" => ~AwaitsConfirmation(id)'
           /\ kind # "RestartConfirmed" => \A g \in Host : ~RestartsAt(id, g)'
           /\ \A g \in Host : RestartsAt(id, g)' => g = h
           /\ Told(id) \subseteq DOMAIN log /\ \A i \in DOMAIN log : log'[i] = log[i]
           /\ Told(id)' = IF kind = "RestartConfirmed"
                          THEN Told(id) \cup {Len(log) + 1} ELSE Told(id)
           /\ log'[Len(log) + 1].host = h
<1>1. PICK e \in Event : e.kind = kind /\ e.id = id /\ e.host = h /\ log' = Append(log, e)
  BY DEF Logged
<1>2. /\ TurnEvents(id)' \subseteq {Len(log) + 1}
      /\ log'[Len(log) + 1] = e
      /\ \A i \in DOMAIN log : log'[i] = log[i]
      /\ Told(id)' = IF kind = "RestartConfirmed"
                     THEN Told(id) \cup {Len(log) + 1} ELSE Told(id)
      /\ Told(id) \subseteq DOMAIN log
  BY <1>1, OwnEvent DEF SystemInv
<1>3. AtMostOneOf(TurnEvents(id)', TurnConsumers(id)', TurnLate(id)')
  <2> DEFINE A == TurnEvents(id)'
             B == TurnConsumers(id)'
             C == TurnLate(id)'
  <2>1. A \subseteq {Len(log) + 1} /\ B = {} /\ C = {}
    BY <1>2
  <2> HIDE DEF A, B, C
  <2>2. AtMostOneOf(A, B, C)
    BY <2>1 DEF AtMostOneOf
  <2> QED
    BY <2>2 DEF A, B, C
<1>4. \A i \in TurnEvents(id)' : log'[i].kind = kind /\ log'[i].host = h
  BY <1>1, <1>2
<1>5. kind = "RestartConfirmed" => ~AwaitsConfirmation(id)'
  BY <1>4 DEF AwaitsConfirmation
<1>6. \A g \in Host : RestartsAt(id, g)' => kind = "RestartConfirmed" /\ g = h
  BY <1>4 DEF RestartsAt
<1> QED
  BY <1>1, <1>2, <1>3, <1>5, <1>6

LEMMA ConfigurationTurn ==
    ASSUME ReportingInv, TurnInv, [Next]_jobs, cursor' = cursor,
           NEW id \in DOMAIN jobs, NEW h \in Host, NEW report \in ConfigurationReport,
           CommitConfiguration(id, h, report), report = "SUCCESS" => ~NoOutcome(h, id),
           \A k \in DOMAIN jobs : PlacesKept(k)
    PROVE  TurnInv' /\ ToldOnceKept
<1>1. /\ DOMAIN jobs' = DOMAIN jobs
      /\ \A k \in DOMAIN jobs \ {id} : jobs'[k] = jobs[k]
      /\ jobs'[id].currentOrder = jobs[id].currentOrder
      /\ \/ jobs'[id].status = jobs[id].status /\ log' = log
         \/ /\ report = "SUCCESS"
            /\ jobs'[id].status = "CONFIGURED" /\ Logged("AllHostConfigured", id, h)
      /\ h \in HostsOf(jobs[id])
  <2>1. IInv /\ LogTyped
    BY DEF ReportingInv, SystemInv
  <2>2. /\ DOMAIN jobs' = DOMAIN jobs /\ h \in HostsOf(jobs[id])
        /\ \A k \in DOMAIN jobs \ {id} : jobs'[k] = jobs[k]
        /\ jobs'[id].currentOrder = jobs[id].currentOrder
    BY <2>1, ConfigurationCommitted
  <2>3. \/ jobs'[id].status = jobs[id].status /\ log' = log
        \/ /\ report = "SUCCESS"
           /\ jobs'[id].status = "CONFIGURED" /\ Logged("AllHostConfigured", id, h)
    <3>1. \/ /\ jobs'[id].status = jobs[id].status
             /\ log' = log
          \/ /\ report = "SUCCESS"
             /\ jobs'[id].status = "CONFIGURED"
             /\ \A g \in HostsOf(jobs[id]) : jobs'[id].configuration[g] = "SUCCESS"
             /\ Logged("AllHostConfigured", id, h)
      BY <2>1, ConfigurationCommitted
    <3> QED
      BY <3>1
  <2> QED
    BY <2>2, <2>3
<1>2. SystemInv
  BY DEF ReportingInv
<1>3. ASSUME NEW k \in DOMAIN jobs \ {id}
      PROVE  OneTurn(k)' /\ ToldInOrder(k)'
  BY <1>1, <1>2, OtherTurn DEF TurnInv, Logged
<1>4. OneTurn(id)' /\ ToldInOrder(id)'
  <2>1. CASE jobs'[id].status = jobs[id].status /\ log' = log
    <3>1. EventsKept(id) /\ ToldKept(id)
      BY <2>1, QuietEvents
    <3>2. WasConfigured(id) => WasConfigured(id)'
      BY <1>2, <2>1, WasConfiguredGrows DEF SystemInv
    <3>3. JobStill(id)
      BY <1>1, <1>2, <2>1, <3>2, JobsKept DEF JobStill, SystemInv
    <3> QED
      BY <3>1, <3>3, KeptIsPassedOn, TurnStays DEF TurnInv, OneTurn
  <2>2. CASE /\ report = "SUCCESS"
             /\ jobs'[id].status = "CONFIGURED" /\ Logged("AllHostConfigured", id, h)
    <3>1. ~WasConfigured(id)
      BY <1>1, <2>2 DEF ReportingInv, CountedInv
    <3>2. /\ TurnEvents(id) = {} /\ TurnConsumers(id) = {} /\ TurnLate(id) = {}
          /\ Told(id) = {}
      BY <1>2, <3>1, NoTurnYet DEF TurnInv
    <3>3. TurnConsumers(id)' = {} /\ TurnLate(id)' = {}
      BY <3>2 DEF PlacesKept
    <3>4. /\ AtMostOneOf(TurnEvents(id)', TurnConsumers(id)', TurnLate(id)')
          /\ \A g \in Host : ~RestartsAt(id, g)'
          /\ Told(id)' = {}
      <4>1. PICK kind : kind = "AllHostConfigured"
        OBVIOUS
      <4>2. kind # "JobCreated" /\ kind # "RestartConfirmed" /\ Logged(kind, id, h)
        BY <2>2, <4>1
      <4> QED
        BY <1>2, <2>2, <3>2, <3>3, <4>2, NewTurn
    <3>5. WasConfigured(id)'
      BY <1>2, <2>2, NowConfigured DEF SystemInv
    <3>6. OneTurn(id)'
      BY <3>4, <3>5 DEF OneTurn, AtMostOneOf
    <3> QED
      BY <3>4, <3>6 DEF ToldInOrder
  <2> QED
    BY <1>1, <2>1, <2>2
<1>5. ToldOnceKept
  <2>1. \/ log' = log
        \/ \E e \in Event : e.kind # "RestartConfirmed" /\ log' = Append(log, e)
    BY <1>1 DEF Logged
  <2> QED
    BY <1>2, <2>1, NobodyTold
<1> QED
  BY <1>1, <1>3, <1>4, <1>5 DEF TurnInv

LEMMA RestartTurn ==
    ASSUME ReportingInv, TurnInv, [Next]_jobs, cursor' = cursor,
           NEW id \in DOMAIN jobs, CommitRestart(id),
           AwaitsConfirmation(id),
           TurnEvents(id) = {}, TurnConsumers(id)' = {}, TurnLate(id)' = {},
           \A k \in DOMAIN jobs \ {id} : PlacesKept(k)
    PROVE  TurnInv' /\ ToldOnceKept
<1> DEFINE job == jobs[id]
           new == jobs'[id]
<1>1. SystemInv
  BY DEF ReportingInv
<1>2. /\ job.status \in {"CONFIGURED", "DEPLOYING"}
      /\ DOMAIN jobs' = DOMAIN jobs
      /\ \A k \in DOMAIN jobs \ {id} : jobs'[k] = jobs[k]
      /\ new.status = "DEPLOYING"
      /\ new.currentOrder = IF job.status = "CONFIGURED" THEN 0 ELSE job.currentOrder
      /\ new.currentOrder \in 0..(Len(new.hostOrder) - 1)
      /\ OnProgress(new) \in HostsOf(new)
      /\ Logged("RestartConfirmed", id, OnProgress(new))
  BY <1>1, RestartCommitted DEF SystemInv
<1>3. ASSUME NEW k \in DOMAIN jobs \ {id}
      PROVE  OneTurn(k)' /\ ToldInOrder(k)'
  BY <1>1, <1>2, OtherTurn DEF TurnInv, Logged
<1>4. PICK h : h = OnProgress(new)
  OBVIOUS
<1>5. /\ AtMostOneOf(TurnEvents(id)', TurnConsumers(id)', TurnLate(id)')
      /\ ~AwaitsConfirmation(id)'
      /\ \A g \in Host : RestartsAt(id, g)' => g = h
      /\ Told(id) \subseteq DOMAIN log /\ \A i \in DOMAIN log : log'[i] = log[i]
      /\ Told(id)' = Told(id) \cup {Len(log) + 1}
      /\ log'[Len(log) + 1].host = h
  BY <1>1, <1>2, <1>4, NewTurn
<1>6. WasConfigured(id)'
  <2>1. WasConfigured(id)
    BY DEF TurnInv, OneTurn
  <2> QED
    BY <1>1, <1>2, <2>1, WasConfiguredGrows DEF SystemInv, Logged
<1>7. OneTurn(id)'
  <2>1. new.currentOrder # NilOrder
    BY <1>2 DEF NilOrder
  <2> QED
    BY <1>2, <1>4, <1>5, <1>6, <2>1 DEF OneTurn, AtMostOneOf
<1>8. /\ new.hostOrder = job.hostOrder /\ new.hostOrder \in Seq(Host)
      /\ job.status = "DEPLOYING" => new.currentOrder = job.currentOrder
      /\ new.currentOrder \in Nat
      /\ new.currentOrder + 1 \in DOMAIN new.hostOrder
      /\ h = new.hostOrder[new.currentOrder + 1]
  <2>1. IInv' /\ id \in DOMAIN jobs'
    BY <1>1, <1>2, NextInv DEF SystemInv
  <2>2. jobs'[id] \in Job
    BY <2>1 DEF IInv
  <2>3. new.hostOrder \in Seq(Host)
    BY <2>2 DEF Job
  <2>4. new.hostOrder = job.hostOrder
    BY <1>1, JobsKept DEF SystemInv
  <2>5. new.currentOrder \in Nat /\ new.currentOrder + 1 \in DOMAIN new.hostOrder
    BY <1>2, <2>3
  <2> QED
    BY <1>2, <1>4, <2>3, <2>4, <2>5 DEF OnProgress
<1>9. \A i \in Told(id) :
         /\ i \in DOMAIN log
         /\ \E k \in DOMAIN new.hostOrder :
               log[i].host = new.hostOrder[k] /\ k <= new.currentOrder
  BY <1>2, <1>8 DEF TurnInv, ToldInOrder, Told
<1>10. ToldInOrder(id)'
  <2>1. ASSUME NEW i \in Told(id)'
        PROVE  \E k \in DOMAIN new.hostOrder :
                  log'[i].host = new.hostOrder[k] /\ k <= new.currentOrder + 1
    <3>1. CASE i = Len(log) + 1
      BY <1>5, <1>8, <3>1
    <3>2. CASE i \in Told(id)
      <4>1. PICK k \in DOMAIN new.hostOrder :
               log[i].host = new.hostOrder[k] /\ k <= new.currentOrder
        BY <1>9, <3>2
      <4>2. k \in Nat
        BY <1>8
      <4> QED
        BY <1>5, <1>8, <1>9, <3>2, <4>1, <4>2
    <3> QED
      BY <1>5, <2>1, <3>1, <3>2
  <2> QED
    BY <1>2, <1>5, <1>6, <2>1 DEF ToldInOrder
<1>11. ToldOnceKept
  <2> SUFFICES ASSUME ConfirmedOncePerHost,
                      NEW i \in DOMAIN log', NEW k \in DOMAIN log',
                      log'[i].kind = "RestartConfirmed", log'[k].kind = "RestartConfirmed",
                      log'[i].id = log'[k].id, log'[i].host = log'[k].host,
                      DistinctHosts(jobs'[log'[i].id])
               PROVE  i = k
    BY DEF ToldOnceKept, ConfirmedOncePerHost
  <2>1. /\ DOMAIN log' = DOMAIN log \cup {Len(log) + 1}
        /\ log'[Len(log) + 1].id = id
        /\ Len(log) + 1 \notin DOMAIN log
    BY <1>1, <1>2, Appended DEF Logged, SystemInv
  <2>2. ASSUME NEW j \in Told(id), log[j].host = h, DistinctHosts(new)
        PROVE  FALSE
    <3>1. PICK l \in DOMAIN new.hostOrder :
             log[j].host = new.hostOrder[l] /\ l <= new.currentOrder
      BY <1>9
    <3>2. l = new.currentOrder + 1
      BY <1>8, <2>2, <3>1 DEF DistinctHosts
    <3> QED
      BY <1>8, <3>1, <3>2
  <2>3. CASE i \in DOMAIN log /\ k \in DOMAIN log
    <3>1. log[i].id \in DOMAIN jobs
      BY <1>1, <2>3 DEF SystemInv, LogTyped
    <3>2. DistinctHosts(jobs[log[i].id])
      BY <1>1, <1>5, <2>3, <3>1, JobsKept DEF DistinctHosts, SystemInv
    <3> QED
      BY <1>5, <2>3, <3>2 DEF ConfirmedOncePerHost
  <2>4. CASE i \in DOMAIN log /\ k = Len(log) + 1
    <3>1. i \in Told(id) /\ log[i].host = h
      BY <1>5, <2>1, <2>4 DEF Told
    <3> QED
      BY <1>5, <2>1, <2>2, <2>4, <3>1
  <2>5. CASE k \in DOMAIN log /\ i = Len(log) + 1
    <3>1. k \in Told(id) /\ log[k].host = h
      BY <1>5, <2>1, <2>5 DEF Told
    <3> QED
      BY <1>5, <2>1, <2>2, <2>5, <3>1
  <2> QED
    BY <2>1, <2>3, <2>4, <2>5
<1> QED
  BY <1>2, <1>3, <1>7, <1>10, <1>11 DEF TurnInv

LEMMA RestartedTurn ==
    ASSUME ReportingInv, TurnInv, [Next]_jobs, cursor' = cursor,
           NEW id \in DOMAIN jobs, NEW h \in Host, NEW report \in {"SUCCESS", "FAILED"},
           CommitRestarted(id, h, report), RestartsAt(id, h),
           TurnEvents(id) = {}, TurnConsumers(id)' = {}, TurnLate(id)' = {},
           \A k \in DOMAIN jobs \ {id} : PlacesKept(k)
    PROVE  TurnInv' /\ ToldOnceKept
<1> DEFINE job == jobs[id]
           new == jobs'[id]
<1>1. SystemInv
  BY DEF ReportingInv
<1>2. /\ job.status = "DEPLOYING" /\ job.currentOrder \in Int
      /\ DOMAIN jobs' = DOMAIN jobs
      /\ \A k \in DOMAIN jobs \ {id} : jobs'[k] = jobs[k]
      /\ new.hostOrder = job.hostOrder
      /\ \/ report = "FAILED" /\ new.status = "FAILED" /\ log' = log
         \/ /\ report = "SUCCESS" /\ new.status \in {"DEPLOYING", "DEPLOYED"}
            /\ new.currentOrder = job.currentOrder + 1
            /\ Logged("ServiceRestarted", id, h)
  <2>1. report \in RestartReport
    BY DEF RestartReport
  <2>2. /\ job.status = "DEPLOYING"
        /\ job.currentOrder \in 0..(Len(job.hostOrder) - 1)
        /\ DOMAIN jobs' = DOMAIN jobs
        /\ \A k \in DOMAIN jobs \ {id} : jobs'[k] = jobs[k]
        /\ report = "FAILED" => new.status = "FAILED" /\ log' = log
        /\ report = "SUCCESS" =>
              /\ new.status \in {"DEPLOYING", "DEPLOYED"}
              /\ new.currentOrder = job.currentOrder + 1
              /\ Logged("ServiceRestarted", id, h)
    BY <1>1, <2>1, RestartedCommitted DEF SystemInv
  <2>3. new.hostOrder = job.hostOrder
    BY <1>1, JobsKept DEF SystemInv
  <2>4. job.currentOrder \in Int
    BY <2>2
  <2> QED
    BY <2>2, <2>3, <2>4
<1>3. \/ log' = log
      \/ \E e \in Event : /\ e.kind # "RestartConfirmed" /\ e.id = id
                          /\ log' = Append(log, e)
  BY <1>2 DEF Logged
<1>4. ASSUME NEW k \in DOMAIN jobs \ {id}
      PROVE  OneTurn(k)' /\ ToldInOrder(k)'
  <2>1. jobs'[k] = jobs[k] /\ PlacesKept(k) /\ k \in DOMAIN jobs
    BY <1>2
  <2>2. \/ log' = log
        \/ \E e \in Event : (e.id # k \/ e.kind = "JobCreated") /\ log' = Append(log, e)
    BY <1>3
  <2>3. OneTurn(k) /\ ToldInOrder(k)
    BY DEF TurnInv
  <2> QED
    BY <1>1, <2>1, <2>2, <2>3, OtherTurn
<1>5. WasConfigured(id)' /\ ToldOnceKept
  <2>1. WasConfigured(id)
    BY DEF TurnInv, OneTurn
  <2> QED
    BY <1>1, <1>3, <2>1, NobodyTold, WasConfiguredGrows DEF SystemInv
<1>6. CASE report = "FAILED" /\ new.status = "FAILED" /\ log' = log
  <2>1. TurnEvents(id)' = {}
    BY <1>6 DEF TurnEvents
  <2>2. ~AwaitsConfirmation(id)' /\ \A g \in Host : ~RestartsAt(id, g)'
    BY <2>1 DEF AwaitsConfirmation, RestartsAt
  <2>3. OneTurn(id)'
    BY <2>1, <2>2 DEF OneTurn, AtMostOneOf
  <2>4. ToldInOrder(id)'
    BY <1>5, <1>6 DEF ToldInOrder
  <2> QED
    BY <1>2, <1>4, <1>5, <2>3, <2>4 DEF TurnInv
<1>7. CASE /\ report = "SUCCESS" /\ new.status \in {"DEPLOYING", "DEPLOYED"}
           /\ new.currentOrder = job.currentOrder + 1
           /\ Logged("ServiceRestarted", id, h)
  <2>1. /\ AtMostOneOf(TurnEvents(id)', TurnConsumers(id)', TurnLate(id)')
        /\ \A g \in Host : ~RestartsAt(id, g)'
        /\ Told(id)' = Told(id)
        /\ Told(id) \subseteq DOMAIN log /\ \A i \in DOMAIN log : log'[i] = log[i]
    <3>1. PICK kind : kind = "ServiceRestarted"
      OBVIOUS
    <3>2. kind # "JobCreated" /\ kind # "RestartConfirmed" /\ Logged(kind, id, h)
      BY <1>7, <3>1
    <3> QED
      BY <1>1, <3>2, NewTurn
  <2>2. OneTurn(id)'
    BY <1>5, <2>1 DEF OneTurn, AtMostOneOf
  <2>3. ASSUME new.status = "DEPLOYING", NEW i \in Told(id)
        PROVE  \E k \in DOMAIN new.hostOrder :
                  /\ log'[i].host = new.hostOrder[k]
                  /\ k <= new.currentOrder
                  /\ k <= new.currentOrder + 1
    <3>1. PICK k \in DOMAIN job.hostOrder :
             log[i].host = job.hostOrder[k] /\ k <= job.currentOrder + 1
      BY <1>2 DEF TurnInv, ToldInOrder
    <3>2. k \in Int
      <4>1. job.hostOrder \in Seq(Host)
        <5>1. job \in Job
          BY <1>1 DEF SystemInv, IInv
        <5> QED
          BY <5>1 DEF Job
      <4> QED
        BY <4>1
    <3> QED
      BY <1>2, <1>7, <2>1, <3>1, <3>2
  <2>4. ToldInOrder(id)'
    BY <1>5, <1>7, <2>1, <2>3 DEF ToldInOrder
  <2> QED
    BY <1>2, <1>4, <1>5, <2>2, <2>4 DEF TurnInv
<1> QED
  BY <1>2, <1>6, <1>7

\* Reporting that a restart begins passes the turn to nobody.
LEMMA RestartingTurn ==
    ASSUME SystemInv, TurnInv, [Next]_jobs, cursor' = cursor,
           NEW id \in DOMAIN jobs, NEW h \in Host, CommitRestarted(id, h, "RESTARTING"),
           \A k \in DOMAIN jobs : PlacesKept(k)
    PROVE  TurnInv' /\ ToldOnceKept
<1>1. /\ DOMAIN jobs' = DOMAIN jobs
      /\ \A k \in DOMAIN jobs \ {id} : jobs'[k] = jobs[k]
      /\ jobs'[id].status = jobs[id].status
      /\ jobs'[id].currentOrder = jobs[id].currentOrder
      /\ log' = log
  <2>1. PICK report : report = "RESTARTING"
    OBVIOUS
  <2>2. report \in RestartReport /\ CommitRestarted(id, h, report)
    BY <2>1 DEF RestartReport
  <2> QED
    BY <2>1, <2>2, RestartedCommitted DEF SystemInv
<1>2. ASSUME NEW k \in DOMAIN jobs
      PROVE  OneTurn(k)' /\ ToldInOrder(k)'
  <2>1. EventsKept(k) /\ ToldKept(k)
    BY <1>1, QuietEvents
  <2>2. WasConfigured(k) => WasConfigured(k)'
    BY <1>1 DEF WasConfigured
  <2>3. jobs'[k].hostOrder = jobs[k].hostOrder /\ HostsOf(jobs'[k]) = HostsOf(jobs[k])
    BY JobsKept DEF SystemInv
  <2>4. JobStill(k)
    BY <1>1, <2>2, <2>3 DEF JobStill
  <2>5. OneTurn(k) /\ ToldInOrder(k) /\ PlacesKept(k)
    BY DEF TurnInv
  <2>6. TurnPassedOn(k)
    BY <2>1, <2>5, KeptIsPassedOn DEF OneTurn
  <2> QED
    BY <2>1, <2>4, <2>5, <2>6, TurnStays
<1> QED
  BY <1>1, <1>2, NobodyTold DEF TurnInv

-----------------------------------------------------------------------------
(* Steps that change no job.                                               *)

LEMMA MovedTurn ==
    ASSUME SystemInv, TurnInv, UNCHANGED <<jobs, log>>,
           \A id \in DOMAIN jobs : TurnPassedOn(id) \/ (EventsKept(id) /\ PlacesKept(id))
    PROVE  TurnInv' /\ ToldOnceKept
<1>1. ASSUME NEW id \in DOMAIN jobs
      PROVE  OneTurn(id)' /\ ToldInOrder(id)'
  <2>1. OneTurn(id) /\ ToldInOrder(id)
    BY DEF TurnInv
  <2>2. TurnPassedOn(id)
    BY <2>1, KeptIsPassedOn DEF OneTurn
  <2>3. ToldKept(id) /\ JobStill(id)
    BY DEF ToldKept, Told, JobStill, WasConfigured, HostsOf
  <2> QED
    BY <2>1, <2>2, <2>3, TurnStays
<1> QED
  BY <1>1, NobodyTold DEF TurnInv

\* Whoever holds the turn is the only one.
LEMMA TheTurn ==
    ASSUME TurnInv, NEW id \in DOMAIN jobs
    PROVE  /\ \A i \in TurnEvents(id) :
                 TurnEvents(id) = {i} /\ TurnConsumers(id) = {} /\ TurnLate(id) = {}
           /\ \A h \in TurnConsumers(id) :
                 TurnEvents(id) = {} /\ TurnConsumers(id) = {h} /\ TurnLate(id) = {}
           /\ \A cmd \in TurnLate(id) :
                 TurnEvents(id) = {} /\ TurnConsumers(id) = {} /\ TurnLate(id) = {cmd}
<1> DEFINE A == TurnEvents(id)
           B == TurnConsumers(id)
           C == TurnLate(id)
<1>1. AtMostOneOf(A, B, C)
  BY DEF TurnInv, OneTurn
<1> HIDE DEF A, B, C
<1>2. /\ \A i \in A : A = {i} /\ B = {} /\ C = {}
      /\ \A h \in B : A = {} /\ B = {h} /\ C = {}
      /\ \A cmd \in C : A = {} /\ B = {} /\ C = {cmd}
  BY <1>1 DEF AtMostOneOf
<1> QED
  BY <1>2 DEF A, B, C

\* A turn handed to h's goroutine, and one whose proposal timed out.
LEMMA PassedToConsumer ==
    ASSUME NEW id, NEW h \in Host, TurnEvents(id)' = {}, TurnConsumers(id)' \subseteq {h},
           TurnLate(id)' = {},
           IF consumer'[h].at = "confirm" THEN AwaitsConfirmation(id) ELSE RestartsAt(id, h)
    PROVE  TurnPassedOn(id)
<1> DEFINE A == TurnEvents(id)'
           B == TurnConsumers(id)'
           C == TurnLate(id)'
<1>1. A = {} /\ B \subseteq {h} /\ C = {}
  OBVIOUS
<1> HIDE DEF A, B, C
<1>2. AtMostOneOf(A, B, C)
  BY <1>1 DEF AtMostOneOf
<1>3. AtMostOneOf(TurnEvents(id)', TurnConsumers(id)', TurnLate(id)')
  BY <1>2 DEF A, B, C
<1>4. AwaitsConfirmation(id)' => AwaitsConfirmation(id)
  BY DEF AwaitsConfirmation
<1>5. \A g \in Host : RestartsAt(id, g)' => RestartsAt(id, g)
  BY DEF RestartsAt
<1> QED
  BY <1>3, <1>4, <1>5 DEF TurnPassedOn

LEMMA PassedToLate ==
    ASSUME NEW id, NEW c, TurnEvents(id)' = {}, TurnConsumers(id)' = {},
           TurnLate(id)' \subseteq {c},
           c.kind = "restart" => AwaitsConfirmation(id),
           c.kind = "restarted" => RestartsAt(id, c.host)
    PROVE  TurnPassedOn(id)
<1> DEFINE A == TurnEvents(id)'
           B == TurnConsumers(id)'
           C == TurnLate(id)'
<1>1. A = {} /\ B = {} /\ C \subseteq {c}
  OBVIOUS
<1> HIDE DEF A, B, C
<1>2. AtMostOneOf(A, B, C)
  BY <1>1 DEF AtMostOneOf
<1>3. AtMostOneOf(TurnEvents(id)', TurnConsumers(id)', TurnLate(id)')
  BY <1>2 DEF A, B, C
<1>4. AwaitsConfirmation(id)' => AwaitsConfirmation(id)
  BY DEF AwaitsConfirmation
<1>5. \A g \in Host : RestartsAt(id, g)' => RestartsAt(id, g)
  BY DEF RestartsAt
<1> QED
  BY <1>3, <1>4, <1>5 DEF TurnPassedOn

LEMMA CommitTurn ==
    ASSUME ReportingInv, TurnInv, cursor' = cursor,
           NEW cmd \in Command, cmd.id \in DOMAIN jobs, Commit(cmd),
           \A k \in DOMAIN jobs : PlacesKept(k),
           cmd.kind = "configuration" /\ cmd.report = "SUCCESS" =>
              ~NoOutcome(cmd.host, cmd.id),
           cmd.kind = "restart" => AwaitsConfirmation(cmd.id),
           cmd.kind = "restarted" /\ cmd.report # "RESTARTING" => RestartsAt(cmd.id, cmd.host),
           cmd.kind = "restart" \/ (cmd.kind = "restarted" /\ cmd.report # "RESTARTING") =>
              TurnEvents(cmd.id) = {} /\ TurnConsumers(cmd.id)' = {} /\ TurnLate(cmd.id)' = {}
    PROVE  TurnInv' /\ ToldOnceKept
<1>1. SystemInv
  BY DEF ReportingInv
<1>2. [Next]_jobs
  BY <1>1, CommitStep DEF SystemInv
<1>3. CASE UNCHANGED <<jobs, log>>
  BY <1>1, <1>3, QuietEvents, MovedTurn
<1>4. CASE cmd.kind = "configuration" /\ CommitConfiguration(cmd.id, cmd.host, cmd.report)
  <2> DEFINE id == cmd.id
             h == cmd.host
             report == cmd.report
  <2>1. id \in DOMAIN jobs /\ h \in Host /\ report \in ConfigurationReport
        /\ CommitConfiguration(id, h, report) /\ (report = "SUCCESS" => ~NoOutcome(h, id))
    BY <1>4, CommandKinds
  <2> HIDE DEF id, h, report
  <2> QED
    BY <1>2, <2>1, ConfigurationTurn
<1>5. CASE cmd.kind = "restart" /\ CommitRestart(cmd.id)
  <2> DEFINE id == cmd.id
  <2>1. /\ id \in DOMAIN jobs /\ CommitRestart(id) /\ AwaitsConfirmation(id)
        /\ TurnEvents(id) = {} /\ TurnConsumers(id)' = {} /\ TurnLate(id)' = {}
        /\ \A k \in DOMAIN jobs \ {id} : PlacesKept(k)
    BY <1>5
  <2> HIDE DEF id
  <2> QED
    BY <1>2, <2>1, RestartTurn
<1>6. CASE cmd.kind = "restarted" /\ CommitRestarted(cmd.id, cmd.host, cmd.report)
  <2> DEFINE id == cmd.id
             h == cmd.host
             report == cmd.report
  <2>1. id \in DOMAIN jobs /\ h \in Host /\ CommitRestarted(id, h, report)
        /\ report \in {"RESTARTING", "SUCCESS", "FAILED"}
    BY <1>6, CommandKinds DEF RestartReport
  <2>2. CASE report = "RESTARTING"
    <3>1. CommitRestarted(id, h, "RESTARTING")
      BY <2>1, <2>2
    <3> HIDE DEF id, h, report
    <3> QED
      BY <1>1, <1>2, <2>1, <3>1, RestartingTurn
  <2>3. CASE report # "RESTARTING"
    <3>1. /\ RestartsAt(id, h) /\ report \in {"SUCCESS", "FAILED"}
          /\ TurnEvents(id) = {} /\ TurnConsumers(id)' = {} /\ TurnLate(id)' = {}
          /\ \A k \in DOMAIN jobs \ {id} : PlacesKept(k)
      BY <1>6, <2>1, <2>3
    <3> HIDE DEF id, h, report
    <3> QED
      BY <1>2, <2>1, <3>1, RestartedTurn
  <2> QED
    BY <2>2, <2>3
<1> QED
  BY <1>3, <1>4, <1>5, <1>6 DEF Commit

-----------------------------------------------------------------------------
(* The steps of the cluster.                                               *)

LEMMA CommitLateTurn ==
    ASSUME ReportingInv, TurnInv, CommitLate
    PROVE  TurnInv' /\ ToldOnceKept
<1>1. PICK cmd \in late :
         Commit(cmd) /\ late' = late \ {cmd} /\ UNCHANGED <<hostVars, cancels, faultVars>>
  BY DEF CommitLate
<1>2. cursor' = cursor /\ consumer' = consumer
  BY <1>1 DEF hostVars
<1>3. cmd \in Command /\ cmd.id \in DOMAIN jobs
  BY DEF ReportingInv, SystemInv, LateTyped
<1>4. \A k \in DOMAIN jobs : PlacesKept(k)
  BY <1>1, <1>2 DEF PlacesKept, TurnConsumers, TurnLate
<1>5. cmd.kind = "configuration" /\ cmd.report = "SUCCESS" => ~NoOutcome(cmd.host, cmd.id)
  BY DEF NoOutcome, OutcomesFor, Outcome
<1>6. ASSUME cmd.kind = "restart" \/ (cmd.kind = "restarted" /\ cmd.report # "RESTARTING")
      PROVE  /\ cmd \in TurnLate(cmd.id)
             /\ TurnEvents(cmd.id) = {} /\ TurnConsumers(cmd.id)' = {} /\ TurnLate(cmd.id)' = {}
  <2> DEFINE id == cmd.id
  <2>1. id \in DOMAIN jobs /\ cmd \in TurnLate(id)
    BY <1>3, <1>6 DEF TurnLate
  <2> HIDE DEF id
  <2>2. TurnEvents(id) = {} /\ TurnConsumers(id) = {} /\ TurnLate(id) = {cmd}
    BY <2>1, TheTurn
  <2>3. TurnConsumers(id)' = {} /\ TurnLate(id)' = {}
    BY <1>1, <1>2, <2>2 DEF TurnConsumers, TurnLate
  <2> QED
    BY <2>1, <2>2, <2>3 DEF id
<1>7. /\ cmd.kind = "restart" => AwaitsConfirmation(cmd.id)
      /\ cmd.kind = "restarted" /\ cmd.report # "RESTARTING" => RestartsAt(cmd.id, cmd.host)
  BY <1>6 DEF AwaitsConfirmation, RestartsAt
<1> QED
  BY <1>1, <1>2, <1>3, <1>4, <1>5, <1>6, <1>7, CommitTurn

LEMMA ConsumerTurn ==
    ASSUME ReportingInv, TurnInv, NEW h \in Host,
           ConfirmRestart(h) \/ AnnounceRestart(h) \/ ReportRestart(h)
    PROVE  TurnInv' /\ ToldOnceKept
<1>1. PICK cmd \in Command :
         /\ cmd.id = consumer[h].id /\ cmd.id \in DOMAIN jobs /\ cmd.kind # "configuration"
         /\ Publish(cmd)
         /\ \/ /\ consumer[h].at = "confirm" /\ cmd.kind = "restart" /\ GoIdle(h)
            \/ /\ consumer[h].at = "announce"
               /\ cmd.kind = "restarted" /\ cmd.host = h /\ cmd.report = "RESTARTING"
               /\ GoTo(h, "deploying")
            \/ /\ consumer[h].at \in {"SUCCESS", "FAILED"}
               /\ cmd.kind = "restarted" /\ cmd.host = h /\ cmd.report = consumer[h].at
               /\ GoIdle(h)
         /\ UNCHANGED cursor
  BY ConsumerCommand DEF ReportingInv
<1>2. SystemInv /\ consumer \in [Host -> [at : ConsumerAt, id : JobId \cup {NoJobId}]]
  BY DEF ReportingInv, SystemInv, ConsumerTyped
<1> DEFINE id == cmd.id
<1>3. id \in DOMAIN jobs /\ h \in TurnConsumers(id)
  BY <1>1 DEF TurnConsumers, Idle
<1> HIDE DEF id
<1>4. TurnEvents(id) = {} /\ TurnConsumers(id) = {h} /\ TurnLate(id) = {}
  BY <1>3, TheTurn
<1>5. \A k : /\ TurnConsumers(k)' \subseteq TurnConsumers(k)
             /\ \A g \in TurnConsumers(k)' :
                   (consumer'[g].at = "confirm") <=> (consumer[g].at = "confirm")
  <2>1. CASE GoIdle(h)
    BY <1>2, <2>1 DEF GoIdle, TurnConsumers
  <2>2. CASE consumer[h].at = "announce" /\ GoTo(h, "deploying")
    <3>1. consumer' = [consumer EXCEPT ![h] = [@ EXCEPT !.at = "deploying"]]
      BY <2>2 DEF GoTo
    <3>2. consumer'[h].at = "deploying" /\ consumer'[h].id = consumer[h].id
          /\ \A g \in Host \ {h} : consumer'[g] = consumer[g]
      BY <1>2, <3>1
    <3>3. consumer[h] # Idle
      BY <2>2 DEF Idle
    <3> QED
      BY <2>2, <3>2, <3>3 DEF TurnConsumers
  <2> QED
    BY <1>1, <2>1, <2>2
<1>6. GoIdle(h) => TurnConsumers(id)' = {}
  <2>1. GoIdle(h) => h \notin TurnConsumers(id)'
    BY <1>2 DEF GoIdle, TurnConsumers
  <2> QED
    BY <1>4, <1>5, <2>1
<1>7. /\ cmd.kind = "restart" => AwaitsConfirmation(id)
      /\ cmd.kind = "restarted" => RestartsAt(id, cmd.host)
      /\ cmd.kind = "restart" \/ cmd.report # "RESTARTING" => GoIdle(h)
  BY <1>1, <1>3 DEF AwaitsConfirmation, RestartsAt
<1>8. CASE Commit(cmd) /\ late' = late
  <2>1. \A k \in DOMAIN jobs : PlacesKept(k)
    BY <1>5, <1>8 DEF PlacesKept, TurnLate
  <2>2. TurnLate(id)' = {}
    BY <1>4, <1>8 DEF TurnLate
  <2> QED
    BY <1>1, <1>4, <1>6, <1>7, <1>8, <2>1, <2>2, CommitTurn DEF id
<1>9. CASE late' = late \cup {[cmd EXCEPT !.n = timeouts]} /\ UNCHANGED <<jobs, log>>
  <2>1. PICK c : c = [cmd EXCEPT !.n = timeouts]
    OBVIOUS
  <2>2. /\ c.id = id /\ c.kind = cmd.kind
        /\ cmd.kind = "restarted" => c.host = cmd.host /\ c.report = cmd.report
    BY <2>1, SameContent DEF id
  <2>3. \A k : TurnLate(k)' \subseteq TurnLate(k) \cup {c}
    BY <1>9, <2>1 DEF TurnLate
  <2>4. \A k : k # id => c \notin TurnLate(k)'
    BY <2>2 DEF TurnLate
  <2>5. \A k \in DOMAIN jobs : k # id => EventsKept(k) /\ PlacesKept(k)
    BY <1>1, <1>5, <1>9, <2>3, <2>4, QuietEvents DEF PlacesKept
  <2>6. CASE GoIdle(h)
    <3>1. TurnEvents(id)' = {} /\ TurnConsumers(id)' = {} /\ TurnLate(id)' \subseteq {c}
      BY <1>1, <1>4, <1>6, <1>9, <2>3, <2>6 DEF TurnEvents
    <3>2. /\ c.kind = "restart" => AwaitsConfirmation(id)
          /\ c.kind = "restarted" => RestartsAt(id, c.host)
      BY <1>7, <2>2
    <3>3. TurnPassedOn(id)
      BY <3>1, <3>2, PassedToLate
    <3> QED
      BY <1>2, <1>9, <2>5, <3>3, MovedTurn
  <2>7. CASE cmd.kind = "restarted" /\ cmd.report = "RESTARTING"
    <3>1. c \notin TurnLate(id)'
      BY <2>2, <2>7 DEF TurnLate
    <3>2. EventsKept(id) /\ PlacesKept(id)
      BY <1>1, <1>5, <1>9, <2>3, <3>1, QuietEvents DEF PlacesKept
    <3> QED
      BY <1>2, <1>9, <2>5, <3>2, MovedTurn
  <2> QED
    BY <1>1, <2>6, <2>7
<1> QED
  BY <1>1, <1>8, <1>9 DEF Publish

LEMMA WorkerTurn ==
    ASSUME ReportingInv, TurnInv, NEW h \in Host, NEW id \in DOMAIN jobs, WorkerStep(h, id)
    PROVE  TurnInv' /\ ToldOnceKept
<1>1. SystemInv /\ id \in JobId
  BY JobIds DEF ReportingInv, SystemInv
<1>2. UNCHANGED <<cursor, consumer>>
  BY DEF WorkerStep, AnnounceConfiguration, Configure, ReportConfiguration
<1>3. CASE Configure(h, id)
  <2>1. UNCHANGED <<jobs, log, late>>
    BY <1>3 DEF Configure
  <2>2. \A k : PlacesKept(k)
    BY <1>2, <2>1 DEF PlacesKept, TurnConsumers, TurnLate
  <2> QED
    BY <1>1, <1>2, <2>1, <2>2, QuietEvents, MovedTurn
<1>4. CASE AnnounceConfiguration(h, id) \/ ReportConfiguration(h, id)
  <2>1. PICK cmd \in Command :
           /\ cmd.id = id /\ cmd.kind = "configuration" /\ cmd.host = h
           /\ \/ AnnounceConfiguration(h, id) /\ cmd.report = "CONFIGURING"
              \/ ReportConfiguration(h, id) /\ cmd.report = worker[h][id]
           /\ Publish(cmd)
    BY <1>1, <1>4, WorkerCommand
  <2>2. cmd.report = "SUCCESS" => ~NoOutcome(h, id)
    <3>1. ReportConfiguration(h, id) => h \in WorkersFor(h, id)
      BY <1>1 DEF ReportConfiguration, WorkersFor, Outcome
    <3> QED
      BY <2>1, <3>1 DEF NoOutcome
  <2>3. CASE Commit(cmd) /\ late' = late
    <3>1. \A k : PlacesKept(k)
      BY <1>2, <2>3 DEF PlacesKept, TurnConsumers, TurnLate
    <3> QED
      BY <1>2, <2>1, <2>2, <2>3, <3>1, CommitTurn
  <2>4. CASE late' = late \cup {[cmd EXCEPT !.n = timeouts]} /\ UNCHANGED <<jobs, log>>
    <3>1. PICK c : c = [cmd EXCEPT !.n = timeouts]
      OBVIOUS
    <3>2. c.kind = "configuration"
      BY <2>1, <3>1, SameContent
    <3>3. \A k : TurnLate(k)' = TurnLate(k)
      BY <2>4, <3>1, <3>2 DEF TurnLate
    <3>4. \A k : PlacesKept(k)
      BY <1>2, <3>3 DEF PlacesKept, TurnConsumers
    <3> QED
      BY <1>1, <1>2, <2>4, <3>4, QuietEvents, MovedTurn
  <2> QED
    BY <2>1, <2>3, <2>4 DEF Publish
<1> QED
  BY <1>3, <1>4 DEF WorkerStep

LEMMA DeployTurn ==
    ASSUME SystemInv, TurnInv, NEW h \in Host, Deploy(h)
    PROVE  TurnInv' /\ ToldOnceKept
<1>1. UNCHANGED <<jobs, log, late, cursor>> /\ consumer[h].at = "deploying"
  BY DEF Deploy
<1>2. consumer \in [Host -> [at : ConsumerAt, id : JobId \cup {NoJobId}]]
  BY DEF SystemInv, ConsumerTyped
<1>3. PICK at \in {"SUCCESS", "FAILED"} : consumer' = [consumer EXCEPT ![h].at = at]
  BY DEF Deploy, GoTo
<1>4. /\ consumer'[h].at = at /\ consumer'[h].id = consumer[h].id
      /\ \A g \in Host \ {h} : consumer'[g] = consumer[g]
  BY <1>2, <1>3
<1>5. consumer[h] # Idle
  BY <1>1 DEF Idle
<1>6. \A k : PlacesKept(k)
  BY <1>1, <1>4, <1>5 DEF PlacesKept, TurnConsumers, TurnLate
<1> QED
  BY <1>1, <1>6, QuietEvents, MovedTurn

LEMMA CrashTurn ==
    ASSUME SystemInv, TurnInv, NEW h \in Host, Crash(h)
    PROVE  TurnInv' /\ ToldOnceKept
<1>1. UNCHANGED <<jobs, log, late>> /\ consumer' = [consumer EXCEPT ![h] = Idle]
  BY DEF Crash, GoIdle
<1>2. /\ consumer \in [Host -> [at : ConsumerAt, id : JobId \cup {NoJobId}]]
      /\ cursor \in [Host -> 0..Len(log)] /\ Len(log) \in Nat /\ log \in Seq(Event)
  BY DEF SystemInv, ConsumerTyped, LogTyped
<1>3. PICK applied \in cursor[h]..Len(log) : cursor' = [cursor EXCEPT ![h] = applied]
  BY DEF Crash
<1>4. \A g \in Host : cursor[g] \in Nat /\ cursor'[g] \in Nat /\ cursor[g] <= cursor'[g]
  BY <1>2, <1>3
<1>5. \A i \in DOMAIN log : i \in Nat /\ log[i].host \in Host
  BY EventHosts DEF SystemInv
<1>6. \A k : TurnEvents(k)' \subseteq TurnEvents(k)
  BY <1>1, <1>4, <1>5 DEF TurnEvents
<1>7. \A k : EventsKept(k) /\ PlacesKept(k)
  BY <1>1, <1>2, <1>6 DEF EventsKept, PlacesKept, TurnConsumers, TurnLate
<1> QED
  BY <1>1, <1>7, MovedTurn

\* The event that passes the turn is taken by its host, and by no other.
LEMMA TakeTurn ==
    ASSUME SystemInv, TurnInv, NEW h \in Host, Take(h)
    PROVE  TurnInv' /\ ToldOnceKept
<1>1. UNCHANGED <<jobs, log, late>> /\ consumer[h] = Idle
  BY DEF Take
<1>2. consumer \in [Host -> [at : ConsumerAt, id : JobId \cup {NoJobId}]]
  BY DEF SystemInv, ConsumerTyped
<1>3. PICK i : i = cursor[h] + 1
  OBVIOUS
<1>4. PICK e : e = Next1(h)
  OBVIOUS
<1>5. /\ i \in DOMAIN log /\ e = log[i] /\ e \in Event /\ e.id \in DOMAIN jobs
      /\ \A k \in DOMAIN log : k \in Nat /\ log[k].host \in Host
      /\ cursor \in [Host -> Nat] /\ cursor' = [cursor EXCEPT ![h] = i]
      /\ cursor[h] < i
  <2>1. /\ cursor[h] + 1 \in DOMAIN log
        /\ Next1(h) = log[cursor[h] + 1]
        /\ Next1(h) \in Event /\ Next1(h).id \in DOMAIN jobs
        /\ \A k \in DOMAIN log : k \in Nat
        /\ cursor \in [Host -> Nat]
        /\ cursor' = [cursor EXCEPT ![h] = cursor[h] + 1]
    BY Taken
  <2>2. \A k \in DOMAIN log : log[k].host \in Host
    BY EventHosts DEF SystemInv
  <2> QED
    BY <1>3, <1>4, <2>1, <2>2
<1>6. \A k : /\ TurnEvents(k)' \subseteq TurnEvents(k)
             /\ (\A j \in TurnEvents(k)' : j # i \/ log[i].host # h)
             /\ TurnLate(k)' = TurnLate(k)
  BY <1>1, <1>5 DEF TurnEvents, TurnLate
<1>7. CASE consumer' = consumer
  <2>1. \A k : EventsKept(k) /\ PlacesKept(k)
    BY <1>1, <1>6, <1>7 DEF EventsKept, PlacesKept, TurnConsumers
  <2> QED
    BY <1>1, <2>1, MovedTurn
<1>8. CASE consumer' # consumer
  <2> DEFINE id == e.id
  <2>1. /\ e.kind # "JobCreated" /\ e.host = h
        /\ \/ /\ e.kind # "RestartConfirmed"
              /\ consumer' = [consumer EXCEPT ![h] = [at |-> "confirm", id |-> id]]
           \/ /\ e.kind = "RestartConfirmed"
              /\ consumer' = [consumer EXCEPT ![h] = [at |-> "announce", id |-> id]]
    BY <1>4, <1>8 DEF Take, HandleJobCreated, HandleConfirmable, HandleRestartConfirmed
  <2>2. id \in DOMAIN jobs /\ i \in TurnEvents(id)
    BY <1>5, <2>1 DEF TurnEvents
  <2>3. PICK at \in {"confirm", "announce"} :
           /\ consumer' = [consumer EXCEPT ![h] = [at |-> at, id |-> id]]
           /\ at = "confirm" <=> e.kind # "RestartConfirmed"
    BY <2>1
  <2>4. e.host = h
    BY <2>1
  <2> HIDE DEF id
  <2>5. TurnEvents(id) = {i} /\ TurnConsumers(id) = {} /\ TurnLate(id) = {}
    BY <2>2, TheTurn
  <2>6. TurnEvents(id)' = {}
    BY <1>5, <1>6, <2>4, <2>5
  <2>7. /\ consumer'[h] = [at |-> at, id |-> id]
        /\ \A g \in Host \ {h} : consumer'[g] = consumer[g]
    BY <1>2, <2>3
  <2>8. TurnConsumers(id)' \subseteq {h}
    BY <2>5, <2>7 DEF TurnConsumers
  <2>9. IF consumer'[h].at = "confirm" THEN AwaitsConfirmation(id) ELSE RestartsAt(id, h)
    BY <1>5, <2>2, <2>3, <2>4, <2>7 DEF AwaitsConfirmation, RestartsAt
  <2>10. TurnPassedOn(id)
    BY <1>6, <2>5, <2>6, <2>8, <2>9, PassedToConsumer
  <2>11. ASSUME NEW k \in DOMAIN jobs, k # id
         PROVE  EventsKept(k) /\ PlacesKept(k)
    <3>1. h \notin TurnConsumers(k)'
      BY <2>7, <2>11 DEF TurnConsumers
    <3>2. \A g \in TurnConsumers(k)' : g \in TurnConsumers(k) /\ consumer'[g] = consumer[g]
      BY <2>7, <3>1 DEF TurnConsumers
    <3> QED
      BY <1>1, <1>6, <3>2 DEF EventsKept, PlacesKept
  <2> QED
    BY <1>1, <2>10, <2>11, MovedTurn
<1> QED
  BY <1>7, <1>8

LEMMA SubmitTurn ==
    ASSUME SystemInv, TurnInv, NEW svc \in Service, NEW believe \in Believe,
           NEW targets \in TargetLists, SubmitJob(svc, believe, targets), [Next]_jobs
    PROVE  TurnInv' /\ ToldOnceKept
<1>1. PICK n \in JobId :
         /\ n \notin DOMAIN jobs /\ DOMAIN jobs' = DOMAIN jobs \cup {n}
         /\ \E e \in Event :
               e.kind = "JobCreated" /\ e.id = n /\ log' = Append(log, e)
  BY Submitted
<1>2. PICK e \in Event : e.kind = "JobCreated" /\ e.id = n /\ log' = Append(log, e)
  BY <1>1
<1>3. \A id \in DOMAIN jobs : jobs'[id] = jobs[id]
  BY Submitted
<1>4. UNCHANGED <<cursor, consumer, late>>
  BY DEF SubmitJob, hostVars
<1>5. \A k : PlacesKept(k)
  BY <1>4 DEF PlacesKept, TurnConsumers, TurnLate
<1>6. ASSUME NEW k \in DOMAIN jobs
      PROVE  OneTurn(k)' /\ ToldInOrder(k)'
  BY <1>2, <1>3, <1>4, <1>5, OtherTurn DEF TurnInv
<1>7. \A i \in DOMAIN log : log[i].id # n
  BY <1>1 DEF SystemInv, LogTyped
<1>8. /\ DOMAIN log' = DOMAIN log \cup {Len(log) + 1}
      /\ \A i \in DOMAIN log : log'[i] = log[i]
      /\ log'[Len(log) + 1] = e
  BY <1>2, Appended DEF SystemInv
<1>9. /\ TurnEvents(n)' = {} /\ Told(n)' = {}
      /\ TurnConsumers(n)' = {} /\ TurnLate(n)' = {}
  <2>1. TurnEvents(n)' = {} /\ Told(n)' = {}
    BY <1>2, <1>7, <1>8 DEF TurnEvents, Told
  <2>2. TurnConsumers(n)' = {} /\ TurnLate(n)' = {}
    BY <1>1, <1>4 DEF TurnConsumers, TurnLate, SystemInv, ConsumerTyped, LateTyped
  <2> QED
    BY <2>1, <2>2
<1>10. OneTurn(n)' /\ ToldInOrder(n)'
  <2>1. ~AwaitsConfirmation(n)' /\ \A h \in Host : ~RestartsAt(n, h)'
    BY <1>9 DEF AwaitsConfirmation, RestartsAt
  <2>2. OneTurn(n)'
    BY <1>9, <2>1 DEF OneTurn, AtMostOneOf
  <2> QED
    BY <1>9, <2>2 DEF ToldInOrder
<1>11. ToldOnceKept
  BY <1>2, NobodyTold
<1> QED
  BY <1>1, <1>6, <1>10, <1>11 DEF TurnInv

LEMMA CancelTurn ==
    ASSUME SystemInv, TurnInv, NEW id \in DOMAIN jobs, UserCancelJob(id)
    PROVE  TurnInv' /\ ToldOnceKept
<1>1. PICK target : jobs' = [jobs EXCEPT ![target] = Cancelled(@)]
  BY DEF UserCancelJob, CancelJob
<1>2. \A k \in DOMAIN jobs : jobs[k] \in Job
  BY DEF SystemInv, IInv
<1>3. Next /\ UNCHANGED <<log, cursor, consumer, late>>
  BY DEF UserCancelJob, Next, hostVars
<1>4. /\ DOMAIN jobs' = DOMAIN jobs
      /\ \A k \in DOMAIN jobs :
            /\ jobs'[k].status \in {jobs[k].status, "CANCELLED"}
            /\ jobs'[k].currentOrder = jobs[k].currentOrder
  BY <1>1, <1>2 DEF Cancelled, Job
<1>5. ASSUME NEW k \in DOMAIN jobs
      PROVE  OneTurn(k)' /\ ToldInOrder(k)'
  <2>1. OneTurn(k) /\ ToldInOrder(k)
    BY DEF TurnInv
  <2>2. EventsKept(k) /\ ToldKept(k) /\ PlacesKept(k)
    BY <1>3, QuietEvents DEF PlacesKept, TurnConsumers, TurnLate
  <2>3. jobs'[k].hostOrder = jobs[k].hostOrder /\ HostsOf(jobs'[k]) = HostsOf(jobs[k])
    BY <1>3, JobsKept DEF SystemInv
  <2>4. WasConfigured(k) => WasConfigured(k)'
    BY <1>3 DEF WasConfigured
  <2>5. JobStill(k)
    BY <1>4, <2>3, <2>4 DEF JobStill
  <2>6. TurnPassedOn(k)
    BY <2>1, <2>2, KeptIsPassedOn DEF OneTurn
  <2> QED
    BY <2>1, <2>2, <2>5, <2>6, TurnStays
<1>6. ToldOnceKept
  BY <1>3, NobodyTold
<1> QED
  BY <1>4, <1>5, <1>6 DEF TurnInv

LEMMA TurnStep ==
    ASSUME ReportingInv, TurnInv, [SystemNext]_vars
    PROVE  TurnInv' /\ ToldOnceKept
<1>1. SystemInv
  BY DEF ReportingInv
<1>2. [Next]_jobs
  BY <1>1, SystemStep
<1>3. CASE UNCHANGED vars
  <2>1. UNCHANGED <<jobs, log, cursor, consumer, late>>
    BY <1>3 DEF vars
  <2>2. \A k : PlacesKept(k)
    BY <2>1 DEF PlacesKept, TurnConsumers, TurnLate
  <2> QED
    BY <1>1, <2>1, <2>2, QuietEvents, MovedTurn
<1> QED
  BY <1>1, <1>2, <1>3, WorkerTurn, DeployTurn, CrashTurn, TakeTurn, SubmitTurn, CancelTurn,
     ConsumerTurn, CommitLateTurn DEF SystemNext, ConsumerStep

-----------------------------------------------------------------------------
(* What the invariant is for.                                              *)

ClusterInv == ReportingInv /\ TurnInv /\ ConfirmedOncePerHost

LEMMA ClusterInit == SystemInit => ClusterInv
<1> SUFFICES ASSUME SystemInit
             PROVE  ClusterInv
  OBVIOUS
<1>1. ReportingInv
  BY ReportingInit
<1>2. jobs = <<>> /\ log = <<>>
  BY DEF SystemInit, Init
<1> QED
  BY <1>1, <1>2 DEF ClusterInv, TurnInv, ConfirmedOncePerHost

LEMMA ClusterStep ==
    ASSUME ClusterInv, [SystemNext]_vars
    PROVE  ClusterInv'
BY ReportingStep, TurnStep DEF ClusterInv, ToldOnceKept

\* The turn to go on with a job is in one place, in every behaviour of the
\* cluster (deploy-job/job_deploy_restart.go, jobs_controller.go).
THEOREM ClusterInvariance == SystemSpec => []ClusterInv
<1>1. ClusterInv /\ [SystemNext]_vars => ClusterInv'
  BY ClusterStep
<1> QED
  BY ClusterInit, <1>1, PTL DEF SystemSpec

\* The hosts that restart a job have its turn.
LEMMA RestartingHasTurn ==
    ASSUME ClusterInv, NEW id \in DOMAIN jobs
    PROVE  /\ \A g, h \in Restarting(id) : g = h
           /\ \A h \in Restarting(id) :
                 /\ WasConfigured(id) /\ h \in HostsOf(jobs[id])
                 /\ jobs[id].status = "DEPLOYING" => OnProgress(jobs[id]) = h
<1>1. \A h \in Restarting(id) :
         h \in TurnConsumers(id) /\ RestartsAt(id, h) /\ h \in Host
  BY DEF Restarting, TurnConsumers, RestartsAt, Idle
<1>2. \A h \in TurnConsumers(id) : TurnConsumers(id) = {h}
  BY TheTurn DEF ClusterInv
<1> QED
  BY <1>1, <1>2 DEF ClusterInv, TurnInv, OneTurn

LEMMA AtMostOneElement ==
    ASSUME NEW S, \A x, y \in S : x = y
    PROVE  Cardinality(S) <= 1
<1>1. CASE S = {}
  <2>1. Cardinality(S) = 0
    BY <1>1, FS_EmptySet
  <2> QED
    BY <2>1
<1>2. ASSUME NEW x \in S
      PROVE  Cardinality(S) <= 1
  <2>1. S = {x}
    OBVIOUS
  <2>2. Cardinality({x}) = 1
    BY FS_Singleton
  <2> QED
    BY <2>1, <2>2
<1> QED
  BY <1>1, <1>2

\* Two hosts of a job never restart at the same time, whatever reports are
\* late, lost or cancelled, and the one that does is the one whose turn it is.
THEOREM HostsRestartOneAtATime == SystemSpec => []OneHostAtATime
<1>1. ClusterInv => OneHostAtATime
  <2> SUFFICES ASSUME ClusterInv, NEW id \in DOMAIN jobs
               PROVE  /\ Cardinality(Restarting(id)) <= 1
                      /\ \A h \in Restarting(id) :
                            jobs[id].status = "DEPLOYING" => OnProgress(jobs[id]) = h
    BY DEF OneHostAtATime
  <2>1. \A g, h \in Restarting(id) : g = h
    BY RestartingHasTurn
  <2>2. Cardinality(Restarting(id)) <= 1
    BY <2>1, AtMostOneElement
  <2> QED
    BY <2>2, RestartingHasTurn
<1> QED
  BY <1>1, ClusterInvariance, PTL

\* A service is only taken down for a release that is complete on the host, unless
\* the host ever configured two jobs of the service at once.
THEOREM RestartsOnlyInstalled == SystemSpec => []InstalledBeforeRestart
<1>1. ClusterInv => InstalledBeforeRestart
  <2> SUFFICES ASSUME ClusterInv, NEW id \in DOMAIN jobs, NEW h \in Restarting(id)
               PROVE  ~Overlapped(h, id) => id \in installed[h]
    BY DEF InstalledBeforeRestart
  <2>1. h \in Host /\ WasConfigured(id) /\ h \in HostsOf(jobs[id])
    BY RestartingHasTurn DEF Restarting
  <2> QED
    BY <2>1 DEF ClusterInv, ReportingInv, ReadyInv, Ready
<1> QED
  BY <1>1, ClusterInvariance, PTL

\* No host of a job that names each host once is told twice to restart.
THEOREM ConfirmedOnce == SystemSpec => []ConfirmedOncePerHost
<1>1. ClusterInv => ConfirmedOncePerHost
  BY DEF ClusterInv
<1> QED
  BY <1>1, ClusterInvariance, PTL

\* Without a crash, a host told to restart has the job in its pool: the error
\* jobs_controller.go calls impossible is so.
THEOREM TargetAlwaysHasJob ==
    ASSUME MaxCrashes = 0
    PROVE  SystemSpec => []TargetHasJobInPool
<1>1. ClusterInv => TargetHasJobInPool
  <2> SUFFICES ASSUME ClusterInv, NEW h \in Host, cursor[h] < Len(log),
                      Next1(h).kind = "RestartConfirmed", Next1(h).host = h
               PROVE  Next1(h).id \in Pool(h)
    BY DEF TargetHasJobInPool
  <2>1. PICK i : i = cursor[h] + 1
    OBVIOUS
  <2>2. i \in DOMAIN log /\ cursor[h] < i /\ log[i] = Next1(h)
    <3>1. log \in Seq(Event) /\ cursor \in [Host -> 0..Len(log)] /\ Len(log) \in Nat
      BY DEF ClusterInv, ReportingInv, SystemInv, LogTyped, ConsumerTyped
    <3>2. cursor[h] \in 0..Len(log)
      BY <3>1
    <3> QED
      BY <2>1, <3>1, <3>2 DEF Next1
  <2>3. PICK id : id = log[i].id
    OBVIOUS
  <2>4. id \in DOMAIN jobs /\ id \in JobId
    BY <2>2, <2>3, JobIds DEF ClusterInv, ReportingInv, SystemInv, LogTyped
  <2>5. RestartsAt(id, h)
    BY <2>2, <2>3 DEF RestartsAt, TurnEvents
  <2>6. WasConfigured(id) /\ h \in HostsOf(jobs[id])
    BY <2>4, <2>5 DEF ClusterInv, TurnInv, OneTurn
  <2>7. Ready(h, id)
    BY <2>4, <2>6 DEF ClusterInv, ReportingInv, ReadyInv
  <2>8. crashes = 0
    BY DEF ClusterInv, ReportingInv, SystemInv, CountersTyped
  <2> QED
    BY <2>2, <2>3, <2>4, <2>7, <2>8 DEF Ready, Pool
<1> QED
  BY <1>1, ClusterInvariance, PTL

-----------------------------------------------------------------------------
(* Nothing is forgotten: what a step of the cluster moves, as long as no   *)
(* process crashes.                                                        *)

LEMMA NoNewJob ==
    ASSUME SystemInv, [SystemNext]_vars,
           ~\E svc \in Service, believe \in Believe, targets \in TargetLists :
               SubmitJob(svc, believe, targets)
    PROVE  DOMAIN jobs' = DOMAIN jobs
<1>1. ASSUME NEW cmd \in Command, cmd.id \in DOMAIN jobs, Commit(cmd)
      PROVE  DOMAIN jobs' = DOMAIN jobs
  <2>1. CASE cmd.kind = "configuration" /\ CommitConfiguration(cmd.id, cmd.host, cmd.report)
    BY <2>1 DEF CommitConfiguration, HostConfigurationUpdate
  <2>2. CASE cmd.kind = "restart" /\ CommitRestart(cmd.id)
    BY <2>2 DEF CommitRestart, Restart
  <2>3. CASE cmd.kind = "restarted" /\ CommitRestarted(cmd.id, cmd.host, cmd.report)
    BY <2>3 DEF CommitRestarted, HostRestartServiceUpdate
  <2> QED
    BY <1>1, <2>1, <2>2, <2>3 DEF Commit
<1>2. ASSUME NEW cmd \in Command, cmd.id \in DOMAIN jobs, Publish(cmd)
      PROVE  DOMAIN jobs' = DOMAIN jobs
  BY <1>1, <1>2 DEF Publish
<1>3. CASE CommitLate
  BY <1>1, <1>3 DEF CommitLate, SystemInv, LateTyped
<1>4. ASSUME NEW h \in Host, ConfirmRestart(h) \/ AnnounceRestart(h) \/ ReportRestart(h)
      PROVE  DOMAIN jobs' = DOMAIN jobs
  BY <1>2, <1>4, ConsumerCommand
<1>5. ASSUME NEW h \in Host, NEW k \in DOMAIN jobs, WorkerStep(h, k)
      PROVE  DOMAIN jobs' = DOMAIN jobs
  <2>1. CASE Configure(h, k)
    BY <2>1 DEF Configure
  <2> QED
    BY <1>2, <1>5, <2>1, WorkerCommand DEF WorkerStep
<1>6. ASSUME NEW h \in Host, Take(h) \/ Deploy(h) \/ Crash(h)
      PROVE  DOMAIN jobs' = DOMAIN jobs
  BY <1>6 DEF Take, Deploy, Crash
<1>7. ASSUME NEW k, UserCancelJob(k)
      PROVE  DOMAIN jobs' = DOMAIN jobs
  BY <1>7 DEF UserCancelJob, CancelJob
<1>8. CASE UNCHANGED vars
  BY <1>8 DEF vars
<1> QED
  BY <1>3, <1>4, <1>5, <1>6, <1>7, <1>8 DEF SystemNext, ConsumerStep

LEMMA CrashCounts ==
    ASSUME SystemInv, NEW h \in Host, Crash(h)
    PROVE  crashes' # 0
BY BoundsAssumption DEF SystemInv, CountersTyped, Crash

LEMMA CountersGrow ==
    ASSUME SystemInv, [SystemNext]_vars
    PROVE  /\ crashes' = 0 => crashes = 0
           /\ timeouts > 0 => timeouts' > 0
           /\ timeouts \in Nat
<1>1. crashes \in Nat /\ timeouts \in Nat
  BY BoundsAssumption DEF SystemInv, CountersTyped
<1>2. \A cmd : Publish(cmd) => timeouts' \in {timeouts, timeouts + 1}
  BY DEF Publish
<1>3. crashes' \in {crashes, crashes + 1}
  BY DEF SystemNext, SubmitJob, UserCancelJob, CommitLate, hostVars, faultVars, ConsumerStep,
         Take, ConfirmRestart, AnnounceRestart, Deploy, ReportRestart, WorkerStep,
         AnnounceConfiguration, Configure, ReportConfiguration, Crash, vars
<1>4. timeouts' \in {timeouts, timeouts + 1}
  BY <1>2
  DEF SystemNext, SubmitJob, UserCancelJob, CommitLate, hostVars, faultVars, ConsumerStep,
         Take, ConfirmRestart, AnnounceRestart, Deploy, ReportRestart, WorkerStep,
         AnnounceConfiguration, Configure, ReportConfiguration, Crash, vars
<1> QED
  BY <1>1, <1>3, <1>4

\* A cursor moves when its consumer takes the event.
LEMMA CursorMoves ==
    ASSUME SystemInv, [SystemNext]_vars, crashes' = 0, NEW h \in Host
    PROVE  cursor'[h] = cursor[h] \/ (Take(h) /\ cursor'[h] = cursor[h] + 1)
<1>1. cursor \in [Host -> Nat]
  BY DEF SystemInv, ConsumerTyped, LogTyped
<1>2. ASSUME NEW g \in Host, Take(g)
      PROVE  cursor'[h] = cursor[h] \/ (Take(h) /\ cursor'[h] = cursor[h] + 1)
  BY <1>1, <1>2 DEF Take
<1>3. cursor' = cursor \/ \E g \in Host : Take(g)
  BY CrashCounts
  DEF SystemNext, SubmitJob, UserCancelJob, CommitLate, hostVars, ConsumerStep,
      ConfirmRestart, AnnounceRestart, Deploy, ReportRestart, WorkerStep,
      AnnounceConfiguration, Configure, ReportConfiguration, vars
<1> QED
  BY <1>2, <1>3

\* A configuration goroutine starts when the consumer takes the event of its
\* job, and moves on by its own steps.
Starts(h, id) ==
    /\ Take(h) /\ Next1(h).kind = "JobCreated" /\ Next1(h).id = id
    /\ worker[h][id] = "none" /\ worker'[h][id] = "announce"

LEMMA WorkerMoves ==
    ASSUME SystemInv, [SystemNext]_vars, crashes' = 0, NEW h \in Host, NEW id \in JobId
    PROVE  \/ worker'[h][id] = worker[h][id]
           \/ Starts(h, id)
           \/ id \in DOMAIN jobs /\ WorkerStep(h, id)
<1>1. worker \in [Host -> [JobId -> WorkerAt]]
  BY DEF SystemInv, WorkerTyped
<1>2. ASSUME NEW g \in Host, Take(g)
      PROVE  worker'[h][id] = worker[h][id] \/ Starts(h, id)
  <2>1. CASE worker' = worker
    BY <2>1
  <2>2. CASE worker' # worker
    <3>1. PICK e : e = Next1(g)
      OBVIOUS
    <3>2. e.kind = "JobCreated" /\ e.id \notin Pool(g)
          /\ worker' = [worker EXCEPT ![g][e.id] = "announce"]
      BY <1>2, <2>2, <3>1
      DEF Take, HandleJobCreated, HandleConfirmable, HandleRestartConfirmed
    <3>3. CASE g = h /\ e.id = id
      <4>1. worker[h][id] = "none" /\ worker'[h][id] = "announce"
        BY <1>1, <3>2, <3>3 DEF Pool
      <4> QED
        BY <1>2, <3>1, <3>2, <3>3, <4>1 DEF Starts
    <3>4. CASE ~(g = h /\ e.id = id)
      BY <1>1, <3>2, <3>4
    <3> QED
      BY <3>3, <3>4
  <2> QED
    BY <2>1, <2>2
<1>3. ASSUME NEW g \in Host, NEW k \in DOMAIN jobs, WorkerStep(g, k)
      PROVE  worker'[h][id] = worker[h][id] \/ (g = h /\ k = id)
  BY <1>1, <1>3
  DEF WorkerStep, AnnounceConfiguration, Configure, ReportConfiguration
<1>4. \/ worker' = worker
      \/ \E g \in Host : Take(g)
      \/ \E g \in Host, k \in DOMAIN jobs : WorkerStep(g, k)
  BY CrashCounts
  DEF SystemNext, SubmitJob, UserCancelJob, CommitLate, hostVars, ConsumerStep,
      ConfirmRestart, AnnounceRestart, Deploy, ReportRestart, vars
<1> QED
  BY <1>2, <1>3, <1>4

\* A late proposal stays until it commits.
LEMMA LateMoves ==
    ASSUME SystemInv, [SystemNext]_vars, NEW cmd \in late
    PROVE  \/ cmd \in late'
           \/ Commit(cmd) /\ late' = late \ {cmd} /\ UNCHANGED <<hostVars, cancels, faultVars>>
<1>1. \A c : Publish(c) => late \subseteq late'
  BY DEF Publish
<1>2. late \subseteq late' \/ CommitLate
  BY <1>1
  DEF SystemNext, SubmitJob, UserCancelJob, ConsumerStep, Take, ConfirmRestart,
      AnnounceRestart, Deploy, ReportRestart, WorkerStep,
      AnnounceConfiguration, Configure, ReportConfiguration, Crash, vars
<1> QED
  BY <1>2 DEF CommitLate

\* What is late timed out.
LEMMA LateTimedOut ==
    ASSUME SystemInv, [SystemNext]_vars, late # {} => timeouts > 0, late' # {}
    PROVE  timeouts' > 0
<1>1. timeouts \in Nat
  BY CountersGrow
<1>2. \A cmd : Publish(cmd) => late' = late \/ timeouts' = timeouts + 1
  BY DEF Publish
<1>3. late' \subseteq late \/ timeouts' = timeouts + 1
  BY <1>2
  DEF SystemNext, SubmitJob, UserCancelJob, CommitLate, ConsumerStep, Take, ConfirmRestart,
      AnnounceRestart, Deploy, ReportRestart, WorkerStep,
      AnnounceConfiguration, Configure, ReportConfiguration, Crash, vars
<1>4. CASE late' \subseteq late
  <2>1. timeouts > 0
    BY <1>4
  <2> QED
    BY <2>1, CountersGrow
<1> QED
  BY <1>1, <1>3, <1>4

\* A step of the cluster logs at most one event; a new job's is logged as the job
\* is submitted.
NewEvent(e) ==
    /\ e.kind = "JobCreated" => e.id \notin DOMAIN jobs /\ UNCHANGED hostVars
    /\ log' = Append(log, e)

LEMMA StepLogs ==
    ASSUME SystemInv, [SystemNext]_vars
    PROVE  log' = log \/ \E e \in Event : NewEvent(e)
<1>1. ASSUME NEW svc \in Service, NEW believe \in Believe, NEW targets \in TargetLists,
             SubmitJob(svc, believe, targets)
      PROVE  \E e \in Event : NewEvent(e)
  <2>1. [Next]_jobs
    BY <1>1, SubmitJobStep
  <2>2. UNCHANGED hostVars
    BY <1>1 DEF SubmitJob
  <2> QED
    BY <1>1, <2>1, <2>2, Submitted DEF NewEvent
<1>2. ASSUME NEW cmd \in Command, cmd.id \in DOMAIN jobs, Commit(cmd)
      PROVE  log' = log \/ \E e \in Event : NewEvent(e)
  BY <1>2, CommitLog DEF NewEvent, SystemInv
<1>3. ASSUME CommitLate
      PROVE  log' = log \/ \E e \in Event : NewEvent(e)
  BY <1>2, <1>3 DEF CommitLate, SystemInv, LateTyped
<1>4. ASSUME NEW h \in Host, ConfirmRestart(h) \/ AnnounceRestart(h) \/ ReportRestart(h)
      PROVE  log' = log \/ \E e \in Event : NewEvent(e)
  BY <1>2, <1>4, ConsumerCommand DEF Publish
<1>5. ASSUME NEW h \in Host, NEW id \in DOMAIN jobs, WorkerStep(h, id)
      PROVE  log' = log \/ \E e \in Event : NewEvent(e)
  <2>1. CASE Configure(h, id)
    BY <2>1 DEF Configure
  <2>2. CASE AnnounceConfiguration(h, id) \/ ReportConfiguration(h, id)
    BY <1>2, <2>2, WorkerCommand DEF Publish
  <2> QED
    BY <1>5, <2>1, <2>2 DEF WorkerStep
<1>6. ASSUME NEW h \in Host, Take(h) \/ Deploy(h) \/ Crash(h)
      PROVE  log' = log
  BY <1>6 DEF Take, Deploy, Crash
<1>7. ASSUME \/ \E id \in DOMAIN jobs : UserCancelJob(id)
             \/ UNCHANGED vars
      PROVE  log' = log
  BY <1>7 DEF UserCancelJob, vars
<1> QED
  BY <1>1, <1>3, <1>4, <1>5, <1>6, <1>7 DEF SystemNext, ConsumerStep

\* Events are logged for good.
LEMMA LogMoves ==
    ASSUME SystemInv, [SystemNext]_vars
    PROVE  /\ DOMAIN log \subseteq DOMAIN log'
           /\ \A i \in DOMAIN log : log'[i] = log[i]
           /\ \A i \in DOMAIN log' \ DOMAIN log :
                 log'[i].kind = "JobCreated" =>
                    log'[i].id \notin DOMAIN jobs /\ UNCHANGED hostVars
<1>1. CASE log' = log
  BY <1>1
<1>2. ASSUME NEW e \in Event, NewEvent(e)
      PROVE  /\ DOMAIN log \subseteq DOMAIN log'
             /\ \A i \in DOMAIN log : log'[i] = log[i]
             /\ \A i \in DOMAIN log' \ DOMAIN log :
                   log'[i].kind = "JobCreated" =>
                      log'[i].id \notin DOMAIN jobs /\ UNCHANGED hostVars
  <2>1. /\ DOMAIN log' = DOMAIN log \cup {Len(log) + 1}
        /\ \A i \in DOMAIN log : log'[i] = log[i]
        /\ log'[Len(log) + 1] = e
    BY <1>2, Appended DEF SystemInv, NewEvent
  <2> QED
    BY <1>2, <2>1 DEF NewEvent
<1> QED
  BY <1>1, <1>2, StepLogs

-----------------------------------------------------------------------------
(* The outcome of configuring a host is reported, or still to come.        *)

NotStarted ==
    \A h \in Host, id \in JobId : CreatedFor(h, id) # {} => worker[h][id] = "none"

LEMMA NotStartedStep ==
    ASSUME SystemInv, OutcomeInv, NotStarted, [SystemNext]_vars, crashes' = 0
    PROVE  NotStarted'
<1> SUFFICES ASSUME NEW h \in Host, NEW id \in JobId, NEW i \in CreatedFor(h, id)'
             PROVE  worker'[h][id] = "none"
  BY DEF NotStarted
<1>1. i \in DOMAIN log' /\ log'[i].kind = "JobCreated" /\ log'[i].id = id /\ cursor'[h] < i
  BY DEF CreatedFor
<1>2. CASE i \notin DOMAIN log
  <2>1. id \notin DOMAIN jobs /\ worker' = worker
    BY <1>1, <1>2, LogMoves DEF hostVars
  <2> QED
    BY <2>1 DEF OutcomeInv
<1>3. CASE i \in DOMAIN log
  <2>1. log[i].kind = "JobCreated" /\ log[i].id = id
    BY <1>1, <1>3, LogMoves
  <2>2. cursor[h] \in Nat /\ i \in Nat
    BY <1>3 DEF SystemInv, LogTyped, ConsumerTyped
  <2>3. i \in CreatedFor(h, id)
    BY <1>1, <1>3, <2>1, <2>2, CursorMoves DEF CreatedFor
  <2>4. worker[h][id] = "none"
    BY <2>3 DEF NotStarted
  <2>5. ~Starts(h, id)
    <3>1. SUFFICES ASSUME Starts(h, id) PROVE FALSE
      OBVIOUS
    <3>2. /\ cursor[h] + 1 \in DOMAIN log /\ Next1(h) = log[cursor[h] + 1]
          /\ cursor' = [cursor EXCEPT ![h] = cursor[h] + 1]
          /\ cursor \in [Host -> Nat]
      BY <3>1, Taken DEF Starts
    <3>3. log[cursor[h] + 1].kind = "JobCreated" /\ log[cursor[h] + 1].id = id
      BY <3>1, <3>2 DEF Starts
    <3>4. i = cursor[h] + 1
      BY <1>3, <2>1, <3>2, <3>3 DEF OutcomeInv
    <3> QED
      BY <1>1, <2>2, <3>2, <3>4
  <2>6. ~WorkerStep(h, id)
    BY <2>4 DEF WorkerStep, AnnounceConfiguration, Configure, ReportConfiguration
  <2> QED
    BY <2>4, <2>5, <2>6, WorkerMoves
<1> QED
  BY <1>2, <1>3

\* Whoever commits an outcome stores it.
LEMMA OutcomeStored ==
    ASSUME SystemInv, NEW cmd \in Command, cmd.id \in DOMAIN jobs, Commit(cmd),
           cmd.kind = "configuration", cmd.host \in HostsOf(jobs[cmd.id])
    PROVE  jobs'[cmd.id].configuration[cmd.host] = cmd.report
<1>1. PICK id, h, report : id = cmd.id /\ h = cmd.host /\ report = cmd.report
  OBVIOUS
<1>2. id \in DOMAIN jobs /\ h \in Host /\ report \in ConfigurationReport
      /\ h \in DOMAIN jobs[id].configuration
  BY <1>1, CommandKinds DEF HostsOf
<1>3. CommitConfiguration(id, h, report)
  BY <1>1, <1>2 DEF Commit, Accepts, AcceptsConfiguration, HostsOf
<1>4. jobs'[id].configuration = [jobs[id].configuration EXCEPT ![h] = report]
  BY <1>2, <1>3, ConfigurationCommitted DEF SystemInv
<1> QED
  BY <1>1, <1>2, <1>4

\* An outcome to come does not get lost.
LEMMA OutcomeComes ==
    ASSUME SystemInv, OutcomeInv, NotStarted, [SystemNext]_vars, crashes' = 0,
           NEW id \in DOMAIN jobs, NEW h \in HostsOf(jobs[id]), ~NoOutcome(h, id)
    PROVE  ~NoOutcome(h, id)' \/ jobs'[id].configuration[h] \in Outcome
<1>1. h \in Host /\ id \in JobId
  BY HostsOfJob DEF SystemInv
<1>2. ASSUME NEW i \in CreatedFor(h, id)
      PROVE  ~NoOutcome(h, id)'
  <2>1. i \in DOMAIN log /\ log[i].kind = "JobCreated" /\ log[i].id = id /\ cursor[h] < i
    BY <1>2 DEF CreatedFor
  <2>2. i \in DOMAIN log' /\ log'[i] = log[i] /\ cursor[h] \in Nat /\ i \in Nat
    BY <1>1, <2>1, LogMoves DEF SystemInv, LogTyped, ConsumerTyped
  <2>3. CASE cursor'[h] < i
    BY <2>1, <2>2, <2>3 DEF CreatedFor, NoOutcome
  <2>4. CASE ~(cursor'[h] < i)
    <3>1. Take(h) /\ i = cursor[h] + 1
      BY <1>1, <2>1, <2>2, <2>4, CursorMoves
    <3>2. Next1(h) = log[i] /\ HandleJobCreated(h, log[i])
      BY <2>1, <3>1
      DEF Take, Next1, HandleJobCreated, HandleConfirmable, HandleRestartConfirmed
    <3>3. worker[h][id] = "none"
      BY <1>1, <1>2 DEF NotStarted
    <3>4. worker' = [worker EXCEPT ![h][id] = "announce"]
      BY <2>1, <3>2, <3>3 DEF HandleJobCreated, Pool
    <3>5. worker'[h][id] = "announce"
      BY <1>1, <3>4 DEF SystemInv, WorkerTyped
    <3> QED
      BY <3>5 DEF WorkersFor, NoOutcome
  <2> QED
    BY <2>3, <2>4
<1>3. ASSUME WorkersFor(h, id) # {}
      PROVE  ~NoOutcome(h, id)' \/ jobs'[id].configuration[h] \in Outcome
  <2>1. worker[h][id] \in {"announce", "installing"} \cup Outcome
    BY <1>3 DEF WorkersFor
  <2>2. worker \in [Host -> [JobId -> WorkerAt]]
    BY DEF SystemInv, WorkerTyped
  <2>3. CASE worker'[h][id] = worker[h][id]
    BY <2>1, <2>3 DEF WorkersFor, NoOutcome
  <2>4. CASE AnnounceConfiguration(h, id)
    <3>1. worker'[h][id] = "installing"
      BY <1>1, <2>2, <2>4 DEF AnnounceConfiguration
    <3> QED
      BY <3>1 DEF WorkersFor, NoOutcome
  <2>5. CASE Configure(h, id)
    <3>1. worker'[h][id] \in ConfigureOutcomes
      BY <1>1, <2>2, <2>5 DEF Configure
    <3>2. worker'[h][id] \in Outcome
      BY <3>1, OutcomesAssumption DEF ConfigurationReport, Outcome
    <3> QED
      BY <3>2 DEF WorkersFor, NoOutcome
  <2>6. CASE ReportConfiguration(h, id)
    <3>1. PICK cmd \in Command :
             /\ cmd.id = id /\ cmd.kind = "configuration" /\ cmd.host = h
             /\ cmd.report = worker[h][id] /\ Publish(cmd)
      <4>1. ~AnnounceConfiguration(h, id)
        BY <2>6 DEF AnnounceConfiguration, ReportConfiguration
      <4> QED
        BY <1>1, <2>6, <4>1, WorkerCommand
    <3>2. cmd.report \in Outcome
      BY <2>6, <3>1 DEF ReportConfiguration, Outcome
    <3>3. CASE Commit(cmd)
      BY <3>1, <3>2, <3>3, OutcomeStored
    <3>4. CASE late' = late \cup {[cmd EXCEPT !.n = timeouts]}
      <4>1. PICK c : c = [cmd EXCEPT !.n = timeouts]
        OBVIOUS
      <4>2. c \in late' /\ c.kind = "configuration" /\ c.id = id /\ c.host = h
            /\ c.report \in Outcome
        BY <3>1, <3>2, <3>4, <4>1, SameContent
      <4> QED
        BY <4>2 DEF OutcomesFor, NoOutcome
    <3> QED
      BY <3>1, <3>3, <3>4 DEF Publish
  <2>7. ~Starts(h, id)
    BY <2>1 DEF Starts, Outcome
  <2> QED
    BY <1>1, <2>3, <2>4, <2>5, <2>6, <2>7, WorkerMoves DEF WorkerStep
<1>4. ASSUME NEW cmd \in OutcomesFor(h, id)
      PROVE  ~NoOutcome(h, id)' \/ jobs'[id].configuration[h] \in Outcome
  <2>1. cmd \in late /\ cmd.kind = "configuration" /\ cmd.id = id /\ cmd.host = h
        /\ cmd.report \in Outcome
    BY <1>4 DEF OutcomesFor
  <2>2. CASE cmd \in late'
    BY <2>1, <2>2 DEF OutcomesFor, NoOutcome
  <2>3. CASE Commit(cmd)
    BY <2>1, <2>3, OutcomeStored DEF SystemInv, LateTyped
  <2> QED
    BY <2>1, <2>2, <2>3, LateMoves
<1> QED
  BY <1>2, <1>3, <1>4 DEF NoOutcome

\* How the status of a host's configuration changes.
Announced(h, id) ==
    AnnounceConfiguration(h, id) \/ \E cmd \in late : cmd.report = "CONFIGURING"

LEMMA ConfigurationMoves ==
    ASSUME SystemInv, [SystemNext]_vars, NEW id \in DOMAIN jobs, NEW h \in HostsOf(jobs[id])
    PROVE  \/ jobs'[id].configuration[h] \in {jobs[id].configuration[h]} \cup Outcome
           \/ jobs'[id].configuration[h] = "CONFIGURING" /\ Announced(h, id)
<1> DEFINE Was(report) == jobs'[id].configuration[h] = report
           was == jobs[id].configuration[h]
<1>1. \A k \in DOMAIN jobs : jobs[k] \in Job
  BY DEF SystemInv, IInv
<1>2. ASSUME NEW cmd \in Command, cmd.id \in DOMAIN jobs, Commit(cmd)
      PROVE  \/ Was(was)
             \/ cmd.kind = "configuration" /\ cmd.id = id /\ cmd.host = h /\ Was(cmd.report)
  <2>1. CASE UNCHANGED jobs
    BY <2>1
  <2>2. CASE cmd.kind = "configuration" /\ CommitConfiguration(cmd.id, cmd.host, cmd.report)
    <3>1. PICK k, g, report : k = cmd.id /\ g = cmd.host /\ report = cmd.report
      OBVIOUS
    <3>2. k \in DOMAIN jobs /\ g \in Host /\ report \in ConfigurationReport
          /\ CommitConfiguration(k, g, report)
      BY <1>2, <2>2, <3>1, CommandKinds
    <3>3. /\ \A j \in DOMAIN jobs \ {k} : jobs'[j] = jobs[j]
          /\ jobs'[k].configuration = [jobs[k].configuration EXCEPT ![g] = report]
      BY <3>2, ConfigurationCommitted DEF SystemInv
    <3>4. CASE k = id /\ g = h
      <4>1. h \in DOMAIN jobs[id].configuration
        BY DEF HostsOf
      <4>2. Was(report)
        BY <3>3, <3>4, <4>1
      <4> QED
        BY <2>2, <3>1, <3>4, <4>2
    <3>5. CASE k = id /\ g # h
      <4>1. h \in DOMAIN jobs[id].configuration
        BY DEF HostsOf
      <4>2. jobs'[id].configuration[h] = jobs[id].configuration[h]
        BY <3>3, <3>5, <4>1
      <4> QED
        BY <4>2
    <3>6. CASE k # id
      BY <3>3, <3>6
    <3> QED
      BY <3>4, <3>5, <3>6
  <2>3. CASE cmd.kind = "restart" /\ CommitRestart(cmd.id)
    <3>1. PICK k \in DOMAIN jobs : k = cmd.id
      BY <1>2
    <3>2. /\ \A j \in DOMAIN jobs \ {k} : jobs'[j] = jobs[j]
          /\ jobs'[k].configuration = jobs[k].configuration
      BY <2>3, <3>1, RestartCommitted DEF SystemInv
    <3> QED
      BY <3>2
  <2>4. CASE cmd.kind = "restarted" /\ CommitRestarted(cmd.id, cmd.host, cmd.report)
    <3>1. PICK k, g, report : k = cmd.id /\ g = cmd.host /\ report = cmd.report
      OBVIOUS
    <3>2. k \in DOMAIN jobs /\ g \in Host /\ report \in RestartReport
          /\ CommitRestarted(k, g, report)
      BY <1>2, <2>4, <3>1, CommandKinds
    <3>3. /\ \A j \in DOMAIN jobs \ {k} : jobs'[j] = jobs[j]
          /\ jobs'[k].configuration = jobs[k].configuration
      BY <3>2, RestartedCommitted DEF SystemInv
    <3> QED
      BY <3>3
  <2> QED
    BY <1>2, <2>1, <2>2, <2>3, <2>4 DEF Commit
<1>3. CASE CommitLate
  <2>1. PICK cmd \in late : Commit(cmd)
    BY <1>3 DEF CommitLate
  <2>2. cmd \in Command /\ cmd.id \in DOMAIN jobs
    BY DEF SystemInv, LateTyped
  <2>3. cmd.kind = "configuration" => cmd.report \in Outcome \cup {"CONFIGURING"}
    BY <2>2, CommandKinds DEF ConfigurationReport, Outcome
  <2> QED
    BY <1>2, <2>1, <2>2, <2>3 DEF Announced
<1>4. ASSUME NEW svc \in Service, NEW believe \in Believe, NEW targets \in TargetLists,
             SubmitJob(svc, believe, targets)
      PROVE  Was(was)
  BY <1>4, SubmitJobStep, Submitted
<1>5. ASSUME NEW k \in DOMAIN jobs, UserCancelJob(k)
      PROVE  Was(was)
  <2>1. PICK target : jobs' = [jobs EXCEPT ![target] = Cancelled(@)]
    BY <1>5 DEF UserCancelJob, CancelJob
  <2> QED
    BY <1>1, <2>1 DEF Cancelled, Job
<1>6. ASSUME NEW g \in Host, ConfirmRestart(g) \/ AnnounceRestart(g) \/ ReportRestart(g)
      PROVE  Was(was)
  BY <1>2, <1>6, ConsumerCommand DEF Publish
<1>7. ASSUME NEW g \in Host, NEW k \in DOMAIN jobs, WorkerStep(g, k)
      PROVE  \/ Was(was)
             \/ jobs'[id].configuration[h] \in Outcome
             \/ Was("CONFIGURING") /\ AnnounceConfiguration(h, id)
  <2>1. CASE Configure(g, k)
    BY <2>1 DEF Configure
  <2>2. CASE AnnounceConfiguration(g, k) \/ ReportConfiguration(g, k)
    <3>1. PICK cmd \in Command :
             /\ cmd.id = k /\ cmd.kind = "configuration" /\ cmd.host = g
             /\ \/ AnnounceConfiguration(g, k) /\ cmd.report = "CONFIGURING"
                \/ ReportConfiguration(g, k) /\ cmd.report = worker[g][k]
             /\ Publish(cmd)
      BY <2>2, WorkerCommand
    <3>2. ReportConfiguration(g, k) => worker[g][k] \in Outcome
      BY DEF ReportConfiguration, Outcome
    <3> QED
      BY <1>2, <3>1, <3>2 DEF Publish
  <2> QED
    BY <1>7, <2>1, <2>2 DEF WorkerStep
<1>8. ASSUME \/ \E g \in Host : Take(g) \/ Deploy(g) \/ Crash(g)
             \/ UNCHANGED vars
      PROVE  Was(was)
  BY <1>8 DEF Take, Deploy, Crash, vars
<1> QED
  BY <1>3, <1>4, <1>5, <1>6, <1>7, <1>8 DEF SystemNext, ConsumerStep, Announced

\* The second part of JobWaits.
HostWaits(id, h) ==
    \/ jobs[id].configuration[h] \in Outcome
    \/ ~NoOutcome(h, id)
    \/ timeouts > 0 /\ jobs[id].configuration[h] = "CONFIGURING"

LEMMA HostWaitsStep ==
    ASSUME SystemInv, OutcomeInv, NotStarted, late # {} => timeouts > 0,
           [SystemNext]_vars, crashes' = 0,
           NEW id \in DOMAIN jobs, NEW h \in HostsOf(jobs[id]), HostWaits(id, h)
    PROVE  HostWaits(id, h)'
<1>1. h \in Host /\ id \in JobId
  BY HostsOfJob DEF SystemInv
<1>2. timeouts > 0 => timeouts' > 0
  BY CountersGrow
<1>3. CASE jobs'[id].configuration[h] \in Outcome
  BY <1>3 DEF HostWaits
<1>4. CASE jobs'[id].configuration[h] = "CONFIGURING" /\ Announced(h, id)
  <2>1. CASE AnnounceConfiguration(h, id)
    <3>1. worker'[h][id] = "installing"
      BY <1>1, <2>1 DEF AnnounceConfiguration, SystemInv, WorkerTyped
    <3> QED
      BY <3>1 DEF HostWaits, NoOutcome, WorkersFor
  <2>2. CASE late # {}
    BY <1>2, <1>4, <2>2 DEF HostWaits
  <2> QED
    BY <1>4, <2>1, <2>2 DEF Announced
<1>5. CASE jobs'[id].configuration[h] = jobs[id].configuration[h]
  <2>1. ~NoOutcome(h, id) => ~NoOutcome(h, id)' \/ jobs'[id].configuration[h] \in Outcome
    BY OutcomeComes
  <2> QED
    BY <1>2, <1>5, <2>1 DEF HostWaits
<1> QED
  BY <1>3, <1>4, <1>5, ConfigurationMoves

\* A new job waits for its hosts to be told of it.
LEMMA NewJobWaits ==
    ASSUME SystemInv, [SystemNext]_vars, crashes' = 0,
           NEW id \in DOMAIN jobs', id \notin DOMAIN jobs, NEW h \in HostsOf(jobs'[id])
    PROVE  HostWaits(id, h)'
<1>1. PICK svc \in Service, believe \in Believe, targets \in TargetLists :
         SubmitJob(svc, believe, targets)
  BY NoNewJob
<1>2. [Next]_jobs /\ IInv'
  BY <1>1, SubmitJobStep DEF SystemInv
<1>3. PICK e \in Event : e.kind = "JobCreated" /\ e.id = id /\ log' = Append(log, e)
  BY <1>1, <1>2, Submitted
<1>4. /\ log'[Len(log) + 1] = e /\ Len(log) + 1 \in DOMAIN log' /\ Len(log) \in Nat
  BY <1>3, Appended DEF SystemInv
<1>5. h \in Host
  <2>1. jobs' \in Seq(Job) /\ id \in DOMAIN jobs'
    BY <1>2 DEF IInv
  <2>2. jobs'[id] \in Job
    BY <2>1
  <2>3. jobs'[id].configuration \in HostMap(ConfigurationReport \cup {"PENDING"})
    BY <2>2 DEF Job
  <2> QED
    BY <2>3 DEF HostMap, HostsOf
<1>6. cursor'[h] < Len(log) + 1
  <2>1. cursor' = cursor
    BY <1>1 DEF SubmitJob, hostVars
  <2> QED
    BY <1>4, <1>5, <2>1 DEF SystemInv, ConsumerTyped
<1>7. CreatedFor(h, id)' # {}
  BY <1>3, <1>4, <1>6 DEF CreatedFor
<1> QED
  BY <1>7 DEF HostWaits, NoOutcome

-----------------------------------------------------------------------------
(* The jobs: what a command makes of a status.                             *)

Statuses == {"QUEUED", "CONFIGURED", "DEPLOYING", "DEPLOYED", "FAILED", "CANCELLED"}

StatusWaits(job) ==
    job.status \in Statuses /\ (job.status = "QUEUED" => ~AllConfigured(job))

\* The user says at the start whether a job is believed.
LEMMA StatusStep ==
    ASSUME IInv, \A id \in DOMAIN jobs : StatusWaits(jobs[id]), [Next]_jobs
    PROVE  /\ \A id \in DOMAIN jobs' : StatusWaits(jobs'[id])
           /\ \A id \in DOMAIN jobs : jobs'[id].believe = jobs[id].believe
<1> DEFINE Fine(job, new) == StatusWaits(new) /\ new.believe = job.believe
<1>1. \A id \in DOMAIN jobs : jobs[id] \in Job
  BY DEF IInv
<1>2. ASSUME NEW id \in DOMAIN jobs, NEW new, jobs' = [jobs EXCEPT ![id] = new],
             Fine(jobs[id], new)
      PROVE  /\ \A k \in DOMAIN jobs' : StatusWaits(jobs'[k])
             /\ \A k \in DOMAIN jobs : jobs'[k].believe = jobs[k].believe
  <2>1. DOMAIN jobs' = DOMAIN jobs
    BY <1>2
  <2>2. \A k \in DOMAIN jobs : jobs'[k] = IF k = id THEN new ELSE jobs[k]
    BY <1>2 DEF IInv
  <2> QED
    BY <1>2, <2>1, <2>2
<1>3. ASSUME NEW svc \in Service, NEW believe \in BOOLEAN, NEW targets \in TargetLists,
             UserSubmitJob(svc, believe, targets)
      PROVE  /\ \A k \in DOMAIN jobs' : StatusWaits(jobs'[k])
             /\ \A k \in DOMAIN jobs : jobs'[k].believe = jobs[k].believe
  <2> DEFINE new == NewJob(svc, believe, targets)
  <2>1. targets \in Seq(Target) /\ targets # <<>>
    BY <1>3, TargetListsAssumption DEF UserSubmitJob, AcceptsTargets
  <2>2. 1 \in DOMAIN targets
    BY <2>1
  <2>3. targets[1].host \in SeqHosts(OrderOf(targets))
    BY <2>2 DEF SeqHosts, OrderOf
  <2>4. StatusWaits(new)
    BY <2>3 DEF NewJob, StatusWaits, Statuses, AllConfigured, HostsOf
  <2>5. jobs' = Append(jobs, new) /\ jobs \in Seq(Job)
    BY <1>3 DEF UserSubmitJob, IInv
  <2> HIDE DEF new
  <2>6. /\ DOMAIN jobs' = DOMAIN jobs \cup {Len(jobs) + 1}
        /\ \A k \in DOMAIN jobs : jobs'[k] = jobs[k]
        /\ jobs'[Len(jobs) + 1] = new
    BY <2>5
  <2> QED
    BY <2>4, <2>6
<1>4. ASSUME NEW id \in DOMAIN jobs, CancelJob(id)
      PROVE  /\ \A k \in DOMAIN jobs' : StatusWaits(jobs'[k])
             /\ \A k \in DOMAIN jobs : jobs'[k].believe = jobs[k].believe
  <2>1. PICK target : jobs' = [jobs EXCEPT ![target] = Cancelled(@)]
    BY <1>4 DEF CancelJob
  <2>2. CASE target \in DOMAIN jobs
    <3>1. Fine(jobs[target], Cancelled(jobs[target]))
      BY <1>1, <2>2 DEF Cancelled, Job, StatusWaits, Statuses
    <3> QED
      BY <1>2, <2>1, <2>2, <3>1
  <2>3. CASE target \notin DOMAIN jobs
    BY <2>1, <2>3
  <2> QED
    BY <2>2, <2>3
<1>5. ASSUME NEW id \in DOMAIN jobs, NEW h \in Host, NEW report \in ConfigurationReport,
             HostConfigurationUpdate(id, h, report)
      PROVE  /\ \A k \in DOMAIN jobs' : StatusWaits(jobs'[k])
             /\ \A k \in DOMAIN jobs : jobs'[k].believe = jobs[k].believe
  <2> DEFINE new == ConfigurationUpdated(jobs[id], h, report)
             updated == [jobs[id] EXCEPT !.configuration[h] = report]
  <2>1. updated.believe = jobs[id].believe /\ updated.status = jobs[id].status
    BY <1>1 DEF Job
  <2>2. CASE AllConfigured(updated)
    <3>1. new = [updated EXCEPT !.status = "CONFIGURED"]
      BY <2>2 DEF ConfigurationUpdated
    <3>2. new.status = "CONFIGURED" /\ new.believe = jobs[id].believe
      BY <1>1, <3>1 DEF Job
    <3> HIDE DEF new
    <3> QED
      BY <1>2, <1>5, <3>2 DEF HostConfigurationUpdate, new, StatusWaits, Statuses
  <2>3. CASE ~AllConfigured(updated)
    <3>1. new = updated
      BY <2>3 DEF ConfigurationUpdated
    <3>2. Fine(jobs[id], new)
      BY <2>1, <2>3, <3>1 DEF StatusWaits
    <3> QED
      BY <1>2, <1>5, <3>2 DEF HostConfigurationUpdate
  <2> QED
    BY <2>2, <2>3
<1>6. ASSUME NEW id \in DOMAIN jobs, Restart(id)
      PROVE  /\ \A k \in DOMAIN jobs' : StatusWaits(jobs'[k])
             /\ \A k \in DOMAIN jobs : jobs'[k].believe = jobs[k].believe
  <2>1. Fine(jobs[id], Restarted(jobs[id]))
    BY <1>1 DEF Restarted, Job, StatusWaits, Statuses
  <2> QED
    BY <1>2, <1>6, <2>1 DEF Restart
<1>7. ASSUME NEW id \in DOMAIN jobs, NEW h \in Host, NEW report \in RestartReport,
             HostRestartServiceUpdate(id, h, report)
      PROVE  /\ \A k \in DOMAIN jobs' : StatusWaits(jobs'[k])
             /\ \A k \in DOMAIN jobs : jobs'[k].believe = jobs[k].believe
  <2> DEFINE new == RestartUpdated(jobs[id], h, report)
  <2>1. new.believe = jobs[id].believe /\ new.status \in {"DEPLOYING", "DEPLOYED", "FAILED"}
    BY <1>1, <1>7 DEF RestartUpdated, Job, HostRestartServiceUpdate, AcceptsRestartUpdate,
                      RestartReport
  <2> HIDE DEF new
  <2>2. Fine(jobs[id], new)
    BY <2>1 DEF StatusWaits, Statuses
  <2> QED
    BY <1>2, <1>7, <2>2 DEF HostRestartServiceUpdate, new
<1>8. CASE UNCHANGED jobs
  BY <1>8
<1> QED
  BY <1>3, <1>4, <1>5, <1>6, <1>7, <1>8 DEF Next

-----------------------------------------------------------------------------
(* The turn that leads on is never lost.                                   *)

\* What is logged is for a consumer still to take.
LEMMA EventComes ==
    ASSUME SystemInv, NEW e \in Event, log' = Append(log, e), e.kind # "JobCreated",
           cursor' = cursor, e.kind = "ServiceRestarted" => e.status # "DEPLOYED"
    PROVE  LeadsOn(e.id)'
<1>1. /\ log'[Len(log) + 1] = e /\ Len(log) + 1 \in DOMAIN log' /\ Len(log) \in Nat
  BY Appended DEF SystemInv
<1>2. cursor'[e.host] < Len(log) + 1
  BY <1>1 DEF SystemInv, ConsumerTyped, Event
<1>3. Len(log) + 1 \in TurnEvents(e.id)'
  BY <1>1, <1>2 DEF TurnEvents
<1> QED
  BY <1>1, <1>3 DEF LeadsOn

OnItsWay(id) == jobs[id].status \in {"CONFIGURED", "DEPLOYING"}

\* Confirming a restart, or reporting how it ended, leads on or ends the job.

LEMMA CommitLeads ==
    ASSUME SystemInv, NEW cmd \in Command, cmd.id \in DOMAIN jobs, Commit(cmd),
           cursor' = cursor, OnItsWay(cmd.id), [Next]_jobs,
           \/ cmd.kind = "restart"
           \/ /\ cmd.kind = "restarted" /\ cmd.report # "RESTARTING"
              /\ jobs[cmd.id].status = "DEPLOYING" /\ OnProgress(jobs[cmd.id]) = cmd.host
    PROVE  OnItsWay(cmd.id)' => LeadsOn(cmd.id)'
<1>1. PICK id \in DOMAIN jobs : id = cmd.id
  OBVIOUS
<1>2. Accepts(cmd)
  BY CommandKinds DEF Accepts, AcceptsRestart, AcceptsRestartUpdate, OnItsWay
<1>3. CASE cmd.kind = "restart"
  <2>1. CommitRestart(id)
    BY <1>1, <1>2, <1>3 DEF Commit
  <2>2. Logged("RestartConfirmed", id, OnProgress(jobs'[id]))
    BY <2>1, RestartCommitted DEF SystemInv
  <2>3. PICK e \in Event : e.kind = "RestartConfirmed" /\ e.id = id /\ log' = Append(log, e)
    BY <2>2 DEF Logged
  <2>4. LeadsOn(e.id)'
    BY <2>3, EventComes
  <2>5. PICK k : k = e.id
    OBVIOUS
  <2> QED
    BY <1>1, <2>3, <2>4
<1>4. CASE cmd.kind = "restarted"
  <2>1. PICK h, report : h = cmd.host /\ report = cmd.report
    OBVIOUS
  <2>2. h \in Host /\ report \in {"SUCCESS", "FAILED"} /\ CommitRestarted(id, h, report)
    BY <1>1, <1>2, <1>4, <2>1, CommandKinds DEF Commit, RestartReport
  <2>3. CASE report = "FAILED"
    <3>1. jobs'[id].status = "FAILED"
      BY <2>2, <2>3, RestartedCommitted DEF SystemInv, RestartReport
    <3> QED
      BY <1>1, <3>1 DEF OnItsWay
  <2>4. CASE report = "SUCCESS"
    <3>1. Logged("ServiceRestarted", id, h)
      BY <2>2, <2>4, RestartedCommitted DEF SystemInv, RestartReport
    <3>2. PICK e \in Event : e.kind = "ServiceRestarted" /\ e.id = id /\ log' = Append(log, e)
      BY <3>1 DEF Logged
    <3>3. e.status = jobs'[id].status
      <4>1. Broadcast("ServiceRestarted", id, h)
        BY <2>2, <2>4 DEF CommitRestarted
      <4>2. log \in Seq(Event)
        BY DEF SystemInv, LogTyped
      <4>3. PICK b : b = [kind |-> "ServiceRestarted", id |-> id, host |-> h,
                          status |-> jobs'[id].status]
        OBVIOUS
      <4>4. log' = Append(log, b)
        BY <4>1, <4>3 DEF Broadcast
      <4>5. b \in Event
        <5>1. IInv'
          BY NextInv DEF SystemInv
        <5>2. jobs' \in Seq(Job)
          BY <5>1 DEF IInv
        <5>3. id \in DOMAIN jobs'
          BY JobsKept DEF SystemInv
        <5>4. jobs'[id] \in Job
          BY <5>2, <5>3
        <5>5. jobs'[id].status \in JobStatus
          BY <5>4 DEF Job
        <5>6. id \in JobId
          BY JobIds DEF SystemInv
        <5> QED
          BY <2>2, <4>3, <5>5, <5>6 DEF Event, EventKind
      <4>6. log'[Len(log) + 1] = b
        BY <4>4, <4>5, Appended DEF SystemInv
      <4>7. log'[Len(log) + 1] = e
        BY <3>2, Appended DEF SystemInv
      <4> QED
        BY <4>3, <4>6, <4>7
    <3>4. OnItsWay(id)' => e.status # "DEPLOYED"
      BY <3>3 DEF OnItsWay
    <3>5. OnItsWay(id)' => LeadsOn(e.id)'
      BY <3>2, <3>4, EventComes
    <3> QED
      BY <1>1, <3>2, <3>5
  <2> QED
    BY <2>2, <2>3, <2>4
<1> QED
  BY <1>3, <1>4

\* An event is taken by the consumer it is meant for, which has the job in its
\* pool; a consumer confirms, restarts or reports; a late proposal waits.
LEMMA EventLeads ==
    ASSUME ClusterInv, [SystemNext]_vars, crashes' = 0, NEW id \in DOMAIN jobs,
           jobs[id].believe, NEW i \in TurnEvents(id),
           log[i].kind = "ServiceRestarted" => log[i].status # "DEPLOYED"
    PROVE  LeadsOn(id)'
<1>1. SystemInv /\ id \in JobId
  BY HostsOfJob DEF ClusterInv, ReportingInv, SystemInv
<1>2. PICK e : e = log[i]
  OBVIOUS
<1>3. /\ i \in DOMAIN log /\ e.kind # "JobCreated" /\ e.id = id /\ cursor[e.host] < i
  BY <1>2 DEF TurnEvents
<1>4. e \in Event
  BY <1>1, <1>2, <1>3 DEF SystemInv, LogTyped
<1>5. PICK h \in Host : h = e.host
  BY <1>4 DEF Event
<1>6. i \in DOMAIN log' /\ log'[i] = e
  BY <1>1, <1>2, <1>3, LogMoves
<1>7. cursor[h] \in Nat /\ i \in Nat
  BY <1>1, <1>3 DEF SystemInv, LogTyped, ConsumerTyped
<1>8. CASE cursor'[h] < i
  <2>1. i \in TurnEvents(id)'
    BY <1>3, <1>5, <1>6, <1>8 DEF TurnEvents
  <2> QED
    BY <1>2, <1>6, <2>1 DEF LeadsOn
<1>9. CASE ~(cursor'[h] < i)
  <2>1. Take(h) /\ i = cursor[h] + 1
    BY <1>1, <1>3, <1>5, <1>7, <1>9, CursorMoves
  <2>2. Next1(h) = e
    BY <1>2, <2>1 DEF Next1
  <2>3. CASE e.kind # "RestartConfirmed"
    <3>1. HandleConfirmable(h, e)
      BY <1>3, <2>1, <2>2, <2>3 DEF Take, HandleJobCreated, HandleRestartConfirmed
    <3>2. consumer' = [consumer EXCEPT ![h] = [at |-> "confirm", id |-> id]]
      BY <1>2, <1>3, <1>5, <3>1 DEF HandleConfirmable
    <3>3. consumer'[h] = [at |-> "confirm", id |-> id]
      BY <1>1, <3>2 DEF SystemInv, ConsumerTyped
    <3> QED
      BY <3>3 DEF LeadsOn, TurnConsumers, Idle
  <2>4. CASE e.kind = "RestartConfirmed"
    <3>1. HandleRestartConfirmed(h, e)
      BY <1>3, <2>1, <2>2, <2>4 DEF Take, HandleJobCreated, HandleConfirmable
    <3>2. RestartsAt(id, h)
      BY <1>2, <1>5, <2>4 DEF RestartsAt
    <3>3. WasConfigured(id) /\ h \in HostsOf(jobs[id])
      BY <3>2 DEF ClusterInv, TurnInv, OneTurn
    <3>4. Ready(h, id) /\ crashes = 0
      BY <1>1, <3>3, CountersGrow DEF ClusterInv, ReportingInv, ReadyInv
    <3>5. id \in Pool(h)
      BY <1>1, <3>4 DEF Ready, Pool
    <3>6. consumer' = [consumer EXCEPT ![h] = [at |-> "announce", id |-> id]]
      BY <1>3, <1>5, <3>1, <3>5 DEF HandleRestartConfirmed
    <3>7. consumer'[h] = [at |-> "announce", id |-> id]
      BY <1>1, <3>6 DEF SystemInv, ConsumerTyped
    <3> QED
      BY <3>7 DEF LeadsOn, TurnConsumers, Idle
  <2> QED
    BY <2>3, <2>4
<1> QED
  BY <1>8, <1>9

LEMMA ConsumerLeads ==
    ASSUME ClusterInv, [SystemNext]_vars, crashes' = 0, NEW id \in DOMAIN jobs,
           OnItsWay(id), NEW h \in TurnConsumers(id)
    PROVE  OnItsWay(id)' => LeadsOn(id)'
<1>1. SystemInv /\ [Next]_jobs
  BY SystemStep DEF ClusterInv, ReportingInv
<1>2. h \in Host /\ consumer[h] # Idle /\ consumer[h].id = id
  BY DEF TurnConsumers
<1>3. consumer \in [Host -> [at : ConsumerAt, id : JobId \cup {NoJobId}]]
  BY <1>1 DEF SystemInv, ConsumerTyped
<1>4. CASE consumer'[h] = consumer[h]
  BY <1>2, <1>4 DEF LeadsOn, TurnConsumers
<1>5. CASE Deploy(h)
  <2>1. PICK at \in {"SUCCESS", "FAILED"} : GoTo(h, at)
    BY <1>5 DEF Deploy
  <2>2. consumer'[h].at = at /\ consumer'[h].id = id
    BY <1>2, <1>3, <2>1 DEF GoTo
  <2> QED
    BY <1>2, <2>2 DEF LeadsOn, TurnConsumers, Idle
<1>6. CASE ConfirmRestart(h) \/ AnnounceRestart(h) \/ ReportRestart(h)
  <2>1. PICK cmd \in Command :
           /\ cmd.id = id /\ Publish(cmd)
           /\ \/ consumer[h].at = "confirm" /\ cmd.kind = "restart"
              \/ /\ consumer[h].at = "announce" /\ GoTo(h, "deploying")
              \/ /\ consumer[h].at \in {"SUCCESS", "FAILED"}
                 /\ cmd.kind = "restarted" /\ cmd.host = h /\ cmd.report = consumer[h].at
           /\ cursor' = cursor
    BY <1>1, <1>2, <1>6, ConsumerCommand
  <2>2. CASE consumer[h].at = "announce"
    <3>1. GoTo(h, "deploying")
      BY <2>1, <2>2
    <3>2. consumer'[h].at = "deploying" /\ consumer'[h].id = id
      BY <1>2, <1>3, <3>1 DEF GoTo
    <3> QED
      BY <1>2, <3>2 DEF LeadsOn, TurnConsumers, Idle
  <2>3. CASE consumer[h].at # "announce"
    <3>1. CASE Commit(cmd)
      <4>1. cmd.kind = "restarted" =>
               jobs[id].status = "DEPLOYING" /\ OnProgress(jobs[id]) = cmd.host
        <5>1. cmd.kind = "restarted" => RestartsAt(id, h) /\ cmd.host = h
          BY <1>2, <2>1, <2>3 DEF RestartsAt
        <5> QED
          BY <1>2, <5>1 DEF ClusterInv, TurnInv, OneTurn, OnItsWay
      <4>2. cmd.kind = "restarted" => cmd.report # "RESTARTING"
        BY <2>1, <2>3
      <4>3. cmd.kind \in {"restart", "restarted"}
        BY <2>1, <2>3
      <4>4. PICK c \in Command : c = cmd
        OBVIOUS
      <4>5. OnItsWay(c.id)' => LeadsOn(c.id)'
        BY <1>1, <2>1, <3>1, <4>1, <4>2, <4>3, <4>4, CommitLeads
      <4> QED
        BY <2>1, <4>4, <4>5
    <3>2. CASE late' = late \cup {[cmd EXCEPT !.n = timeouts]}
      <4>1. PICK c : c = [cmd EXCEPT !.n = timeouts]
        OBVIOUS
      <4>2. c \in late' /\ c.kind = cmd.kind /\ c.id = id
            /\ (cmd.kind = "restarted" => c.report = cmd.report)
        BY <2>1, <3>2, <4>1, SameContent
      <4> QED
        BY <2>1, <2>3, <4>2 DEF LeadsOn, TurnLate
    <3> QED
      BY <2>1, <3>1, <3>2 DEF Publish
  <2> QED
    BY <2>2, <2>3
<1>7. \/ consumer'[h] = consumer[h]
      \/ Deploy(h) \/ ConfirmRestart(h) \/ AnnounceRestart(h) \/ ReportRestart(h)
  <2>1. ~Take(h)
    BY <1>2 DEF Take
  <2>2. ASSUME NEW g \in Host, g # h, ConsumerStep(g)
        PROVE  consumer'[h] = consumer[h]
    BY <1>2, <1>3, <2>2
    DEF ConsumerStep, Take, HandleJobCreated, HandleConfirmable, HandleRestartConfirmed,
        ConfirmRestart, AnnounceRestart, Deploy, ReportRestart, GoTo, GoIdle
  <2>3. consumer' = consumer \/ \E g \in Host : ConsumerStep(g)
    BY <1>1, CrashCounts
    DEF SystemNext, SubmitJob, UserCancelJob, CommitLate, hostVars, WorkerStep,
        AnnounceConfiguration, Configure, ReportConfiguration, vars
  <2> QED
    BY <2>1, <2>2, <2>3 DEF ConsumerStep
<1> QED
  BY <1>4, <1>5, <1>6, <1>7

LEMMA LateLeads ==
    ASSUME ClusterInv, [SystemNext]_vars, NEW id \in DOMAIN jobs,
           OnItsWay(id), NEW cmd \in TurnLate(id)
    PROVE  OnItsWay(id)' => LeadsOn(id)'
<1>1. SystemInv /\ [Next]_jobs
  BY SystemStep DEF ClusterInv, ReportingInv
<1>2. /\ cmd \in late /\ cmd.id = id
      /\ \/ cmd.kind = "restart"
         \/ cmd.kind = "restarted" /\ cmd.report # "RESTARTING"
  BY DEF TurnLate
<1>3. cmd \in Command /\ (cmd.kind = "restarted" => cmd.host \in Host)
  BY <1>1, <1>2, CommandKinds DEF SystemInv, LateTyped
<1>4. CASE cmd \in late'
  BY <1>2, <1>4 DEF LeadsOn, TurnLate
<1>5. CASE Commit(cmd) /\ UNCHANGED hostVars
  <2>1. cmd.kind = "restarted" => RestartsAt(id, cmd.host)
    BY <1>2 DEF RestartsAt
  <2>2. cmd.kind = "restarted" =>
           jobs[id].status = "DEPLOYING" /\ OnProgress(jobs[id]) = cmd.host
    BY <1>3, <2>1 DEF ClusterInv, TurnInv, OneTurn, OnItsWay
  <2>3. PICK c \in Command : c = cmd
    BY <1>3
  <2>4. OnItsWay(c.id)' => LeadsOn(c.id)'
    BY <1>1, <1>2, <1>5, <2>2, <2>3, CommitLeads DEF hostVars
  <2> QED
    BY <1>2, <2>3, <2>4
<1> QED
  BY <1>1, <1>2, <1>4, <1>5, LateMoves

\* A job that is not on its way is on it once all its hosts are configured.
LEMMA TurnBegins ==
    ASSUME SystemInv, [SystemNext]_vars, NEW id \in DOMAIN jobs, ~OnItsWay(id), OnItsWay(id)'
    PROVE  LeadsOn(id)'
<1>1. \A k \in DOMAIN jobs : jobs[k] \in Job
  BY DEF SystemInv, IInv
<1>2. ASSUME NEW cmd \in Command, cmd.id \in DOMAIN jobs, Commit(cmd), cursor' = cursor
      PROVE  LeadsOn(id)'
  <2>1. CASE UNCHANGED jobs
    BY <2>1 DEF OnItsWay
  <2>2. CASE cmd.kind = "configuration" /\ CommitConfiguration(cmd.id, cmd.host, cmd.report)
    <3>1. PICK k, g, report : k = cmd.id /\ g = cmd.host /\ report = cmd.report
      OBVIOUS
    <3>2. k \in DOMAIN jobs /\ g \in Host /\ report \in ConfigurationReport
          /\ CommitConfiguration(k, g, report)
      BY <1>2, <2>2, <3>1, CommandKinds
    <3>3. /\ \A j \in DOMAIN jobs \ {k} : jobs'[j] = jobs[j]
          /\ jobs'[k].status = jobs[k].status \/ Logged("AllHostConfigured", k, g)
      BY <3>2, ConfigurationCommitted DEF SystemInv
    <3>4. k = id /\ Logged("AllHostConfigured", id, g)
      BY <3>3 DEF OnItsWay
    <3>5. PICK e \in Event : e.kind = "AllHostConfigured" /\ e.id = id /\ log' = Append(log, e)
      BY <3>4 DEF Logged
    <3>6. LeadsOn(e.id)'
      BY <1>2, <3>5, EventComes
    <3> QED
      BY <3>5, <3>6
  <2>3. CASE cmd.kind = "restart" /\ CommitRestart(cmd.id)
    <3>1. PICK k \in DOMAIN jobs : k = cmd.id
      BY <1>2
    <3>2. /\ \A j \in DOMAIN jobs \ {k} : jobs'[j] = jobs[j]
          /\ jobs[k].status \in {"CONFIGURED", "DEPLOYING"}
      BY <2>3, <3>1, RestartCommitted DEF SystemInv
    <3> QED
      BY <3>2 DEF OnItsWay
  <2>4. CASE cmd.kind = "restarted" /\ CommitRestarted(cmd.id, cmd.host, cmd.report)
    <3>1. PICK k, g, report : k = cmd.id /\ g = cmd.host /\ report = cmd.report
      OBVIOUS
    <3>2. k \in DOMAIN jobs /\ g \in Host /\ report \in RestartReport
          /\ CommitRestarted(k, g, report)
      BY <1>2, <2>4, <3>1, CommandKinds
    <3>3. /\ \A j \in DOMAIN jobs \ {k} : jobs'[j] = jobs[j]
          /\ jobs[k].status = "DEPLOYING"
      BY <3>2, RestartedCommitted DEF SystemInv
    <3> QED
      BY <3>3 DEF OnItsWay
  <2> QED
    BY <1>2, <2>1, <2>2, <2>3, <2>4 DEF Commit
<1>3. CASE CommitLate
  BY <1>2, <1>3 DEF CommitLate, hostVars, SystemInv, LateTyped
<1>4. ASSUME NEW svc \in Service, NEW believe \in Believe, NEW targets \in TargetLists,
             SubmitJob(svc, believe, targets)
      PROVE  FALSE
  BY <1>4, SubmitJobStep, Submitted DEF OnItsWay
<1>5. ASSUME NEW k \in DOMAIN jobs, UserCancelJob(k)
      PROVE  FALSE
  <2>1. PICK target : jobs' = [jobs EXCEPT ![target] = Cancelled(@)]
    BY <1>5 DEF UserCancelJob, CancelJob
  <2>2. jobs'[id].status \in {jobs[id].status, "CANCELLED"}
    BY <1>1, <2>1 DEF Cancelled, Job
  <2> QED
    BY <2>2 DEF OnItsWay
<1>6. ASSUME NEW g \in Host, ConfirmRestart(g) \/ AnnounceRestart(g) \/ ReportRestart(g)
      PROVE  LeadsOn(id)'
  <2>1. PICK cmd \in Command : cmd.id \in DOMAIN jobs /\ Publish(cmd) /\ cursor' = cursor
    BY <1>6, ConsumerCommand
  <2> QED
    BY <1>2, <2>1 DEF Publish, OnItsWay
<1>7. ASSUME NEW g \in Host, NEW k \in DOMAIN jobs, WorkerStep(g, k)
      PROVE  LeadsOn(id)'
  <2>1. CASE Configure(g, k)
    BY <2>1 DEF Configure, OnItsWay
  <2>2. CASE AnnounceConfiguration(g, k) \/ ReportConfiguration(g, k)
    <3>1. PICK cmd \in Command : cmd.id = k /\ Publish(cmd)
      BY <2>2, WorkerCommand
    <3>2. cursor' = cursor
      BY <2>2 DEF AnnounceConfiguration, ReportConfiguration
    <3> QED
      BY <1>2, <3>1, <3>2 DEF Publish, OnItsWay
  <2> QED
    BY <1>7, <2>1, <2>2 DEF WorkerStep
<1>8. ASSUME \/ \E g \in Host : Take(g) \/ Deploy(g) \/ Crash(g)
             \/ UNCHANGED vars
      PROVE  FALSE
  BY <1>8 DEF Take, Deploy, Crash, vars, OnItsWay
<1> QED
  BY <1>3, <1>4, <1>5, <1>6, <1>7, <1>8 DEF SystemNext, ConsumerStep

LEMMA LeadsStep ==
    ASSUME ClusterInv, [SystemNext]_vars, crashes' = 0, NEW id \in DOMAIN jobs,
           jobs[id].believe, OnItsWay(id) => LeadsOn(id)
    PROVE  OnItsWay(id)' => LeadsOn(id)'
<1>1. CASE ~OnItsWay(id)
  BY <1>1, TurnBegins DEF ClusterInv, ReportingInv
<1>2. CASE OnItsWay(id)
  BY <1>2, EventLeads, ConsumerLeads, LateLeads DEF LeadsOn
<1> QED
  BY <1>1, <1>2

-----------------------------------------------------------------------------
(* Nothing is forgotten: the invariant.                                    *)

LEMMA WaitsParts ==
    WaitsInv <=>
       /\ late # {} => timeouts > 0
       /\ crashes = 0 =>
             /\ NotStarted
             /\ \A id \in DOMAIN jobs :
                   /\ StatusWaits(jobs[id])
                   /\ \A h \in HostsOf(jobs[id]) : HostWaits(id, h)
                   /\ jobs[id].believe => (OnItsWay(id) => LeadsOn(id))
BY DEF WaitsInv, JobWaits, NotStarted, StatusWaits, Statuses, HostWaits, OnItsWay

LEMMA WaitsStep ==
    ASSUME ClusterInv, WaitsInv, [SystemNext]_vars
    PROVE  WaitsInv'
<1>1. SystemInv /\ OutcomeInv /\ [Next]_jobs /\ IInv
  BY SystemStep DEF ClusterInv, ReportingInv, SystemInv
<1>2. late # {} => timeouts > 0
  BY WaitsParts
<1>3. late' # {} => timeouts' > 0
  BY <1>1, <1>2, LateTimedOut
<1>4. ASSUME crashes' = 0
      PROVE  /\ NotStarted'
             /\ \A id \in DOMAIN jobs' :
                   /\ StatusWaits(jobs'[id])
                   /\ \A h \in HostsOf(jobs'[id]) : HostWaits(id, h)'
                   /\ jobs'[id].believe => (OnItsWay(id)' => LeadsOn(id)')
  <2>1. /\ NotStarted
        /\ \A id \in DOMAIN jobs :
              /\ StatusWaits(jobs[id])
              /\ \A h \in HostsOf(jobs[id]) : HostWaits(id, h)
              /\ jobs[id].believe => (OnItsWay(id) => LeadsOn(id))
    BY <1>1, <1>4, CountersGrow, WaitsParts
  <2>2. NotStarted'
    BY <1>1, <1>4, <2>1, NotStartedStep
  <2>3. /\ \A id \in DOMAIN jobs' : StatusWaits(jobs'[id])
        /\ \A id \in DOMAIN jobs : jobs'[id].believe = jobs[id].believe
    BY <1>1, <2>1, StatusStep
  <2>4. ASSUME NEW id \in DOMAIN jobs
        PROVE  /\ \A h \in HostsOf(jobs'[id]) : HostWaits(id, h)'
               /\ jobs'[id].believe => (OnItsWay(id)' => LeadsOn(id)')
    <3>1. HostsOf(jobs'[id]) = HostsOf(jobs[id])
      BY <1>1, JobsKept
    <3>2. \A h \in HostsOf(jobs[id]) : HostWaits(id, h)'
      BY <1>1, <1>2, <1>4, <2>1, HostWaitsStep
    <3>3. jobs[id].believe => (OnItsWay(id)' => LeadsOn(id)')
      BY <1>4, <2>1, LeadsStep
    <3> QED
      BY <2>3, <3>1, <3>2, <3>3
  <2>5. ASSUME NEW id \in DOMAIN jobs', id \notin DOMAIN jobs
        PROVE  /\ \A h \in HostsOf(jobs'[id]) : HostWaits(id, h)'
               /\ ~OnItsWay(id)'
    <3>1. \A h \in HostsOf(jobs'[id]) : HostWaits(id, h)'
      BY <1>1, <1>4, <2>5, NewJobWaits
    <3>2. PICK svc \in Service, believe \in Believe, targets \in TargetLists :
             SubmitJob(svc, believe, targets)
      BY <1>1, <2>5, NoNewJob
    <3>3. jobs'[id].status = "QUEUED"
      BY <1>1, <2>5, <3>2, Submitted
    <3> QED
      BY <3>1, <3>3 DEF OnItsWay
  <2> QED
    BY <2>2, <2>3, <2>4, <2>5
<1> QED
  BY <1>3, <1>4
  DEF WaitsInv, JobWaits, NotStarted, StatusWaits, Statuses, HostWaits, OnItsWay

\* Nothing is forgotten, in every behaviour of the cluster.
THEOREM WaitsInvariance == SystemSpec => [](ClusterInv /\ WaitsInv)
<1>1. SystemInit => WaitsInv
  BY DEF SystemInit, Init, WaitsInv, CreatedFor
<1>2. ClusterInv /\ WaitsInv /\ [SystemNext]_vars => (ClusterInv /\ WaitsInv)'
  BY ClusterStep, WaitsStep
<1> QED
  BY <1>1, <1>2, ClusterInit, PTL DEF SystemSpec

\* As long as no process crashes, a believed job that has not ended always has
\* somebody who goes on with it, whatever proposals time out, come late or never,
\* with the exception of an announcement that comes after the outcome it
\* announces (jobs_controller.go, job_deploy.go).
THEOREM NoJobIsForgotten == SystemSpec => []NoJobForgotten
<1>1. ClusterInv /\ WaitsInv => NoJobForgotten
  <2> SUFFICES ASSUME ClusterInv, WaitsInv, crashes = 0, NEW id \in DOMAIN jobs,
                      jobs[id].believe, ~Ended(jobs[id])
               PROVE  \/ \E h \in HostsOf(jobs[id]) : ~NoOutcome(h, id)
                      \/ ~NoTurn(id)
                      \/ Overtaken(id)
    BY DEF NoJobForgotten
  <2>1. /\ StatusWaits(jobs[id])
        /\ \A h \in HostsOf(jobs[id]) : HostWaits(id, h)
        /\ OnItsWay(id) => LeadsOn(id)
    BY WaitsParts
  <2>2. CASE OnItsWay(id)
    BY <2>1, <2>2 DEF LeadsOn, NoTurn
  <2>3. CASE jobs[id].status = "QUEUED"
    <3>1. PICK h \in HostsOf(jobs[id]) : jobs[id].configuration[h] # "SUCCESS"
      BY <2>1, <2>3 DEF StatusWaits, AllConfigured
    <3>2. jobs[id].configuration[h] \notin {"FAILED", "CANCELLED"}
      BY DEF Ended
    <3>3. ~NoOutcome(h, id) \/ (timeouts > 0 /\ jobs[id].configuration[h] = "CONFIGURING")
      BY <2>1, <3>1, <3>2 DEF HostWaits, Outcome
    <3> QED
      BY <3>3 DEF Overtaken
  <2>4. jobs[id].status \in {"QUEUED", "CONFIGURED", "DEPLOYING"}
    BY <2>1 DEF StatusWaits, Statuses, Ended
  <2> QED
    BY <2>2, <2>3, <2>4 DEF OnItsWay
<1> QED
  BY <1>1, WaitsInvariance, PTL
=============================================================================
