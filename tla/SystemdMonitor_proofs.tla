----------------------- MODULE SystemdMonitor_proofs -----------------------
(***************************************************************************)
(* Proofs about the systemd monitor, for any units, clients and number of  *)
(* changes: a client's snapshot is one of a single moment, and nothing     *)
(* falls between the snapshot and the stream.                              *)
(*                                                                         *)
(* The map is written before the change is broadcast, so that the last row *)
(* on its way to a subscriber is what the map says (UpToDate); the map is  *)
(* not written while someone reads it, so that what was sent and what is   *)
(* still to be sent agree with it.                                         *)
(***************************************************************************)
EXTENDS SystemdMonitor, WellFoundedInduction, TLAPS

-----------------------------------------------------------------------------
(* Types.                                                                  *)

LEMMA RowFields ==
    ASSUME NEW r \in Row
    PROVE  r.unit \in Unit /\ r.state \in State /\ r.state \in Known
BY DEF Row, Known

LEMMA RowsTyped ==
    ASSUME NEW f \in [Unit -> Known], NEW U \in SUBSET Unit
    PROVE  /\ Rows(U, f) \subseteq [unit : Unit, state : Known]
           /\ Rows(LoadedIn(f), f) \subseteq Row
BY DEF Rows, LoadedIn, Row, Known

LEMMA InitType == Init => TypeOK
BY MonitorAssumption
   DEF Init, TypeOK, Unknown, Known, NoRow, Registered, MonitorAssumption

LEMMA SystemdType ==
    ASSUME TypeOK,
           \/ UnitChanges
           \/ \E c \in Client : Command(c)
           \/ Interrupt \/ CloseServer \/ Exit
           \/ UNCHANGED vars
    PROVE  TypeOK'
<1>1. CASE UnitChanges \/ \E c \in Client : Command(c)
  <2>1. PICK u \in Unit, s \in Known : Change(u, s)
    BY <1>1 DEF UnitChanges, Command, Known
  <2>2. actual' \in [Unit -> Known] /\ changes' \in 0..MaxChanges
    BY <2>1, MonitorAssumption DEF Change, TypeOK, MonitorAssumption
  <2> QED
    BY <1>1, <2>2 DEF UnitChanges, Command, TypeOK, listenerVars, clientVars
<1>2. CASE Interrupt \/ CloseServer \/ Exit
  BY <1>2 DEF Interrupt, CloseServer, Exit, TypeOK, systemdVars, listenerVars, clientVars
<1>3. CASE UNCHANGED vars
  BY <1>3 DEF vars, TypeOK, systemdVars, listenerVars, clientVars
<1> QED
  BY <1>1, <1>2, <1>3

LEMMA ListenerType ==
    ASSUME TypeOK, listener \in {"save", "broadcast"} => row \in Row, Watch \/ ListenerStep
    PROVE  TypeOK' /\ (listener' \in {"save", "broadcast"} => row' \in Row)
<1> USE DEF TypeOK, systemdVars, clientVars
<1>1. CASE Watch
  <2>1. pending' \subseteq [unit : Unit, state : Known]
    BY <1>1, RowsTyped DEF Watch
  <2> QED
    BY <1>1, <2>1 DEF Watch
<1>2. CASE List
  <2>1. batch' \subseteq Row
    BY <1>2, RowsTyped DEF List
  <2> QED
    BY <1>2, <2>1 DEF List
<1>3. CASE Receive
  <2>1. batch' \subseteq Row
    BY <1>3 DEF Receive, Row, Known
  <2> QED
    BY <1>3, <2>1 DEF Receive
<1>4. CASE NextRow
  BY <1>4 DEF NextRow
<1>5. CASE Save
  <2>1. status' \in [Unit -> Known]
    BY <1>5, RowFields DEF Save
  <2> QED
    BY <1>5, <2>1 DEF Save
<1>6. CASE Broadcast
  <2>1. \A c \in Client : Append(inbox[c], row) \in Seq(Row)
    BY <1>6 DEF Broadcast
  <2>2. inbox' \in [Client -> Seq(Row)]
    BY <1>6, <2>1 DEF Broadcast
  <2> QED
    BY <1>6, <2>2 DEF Broadcast
<1>7. CASE StopListening
  BY <1>7 DEF StopListening
<1> QED
  BY <1>1, <1>2, <1>3, <1>4, <1>5, <1>6, <1>7 DEF ListenerStep

\* What the steps of a client leave alone.
LEMMA ClientFrame ==
    ASSUME NEW c \in Client, Accept(c) \/ ClientStep(c) \/ Leave(c)
    PROVE  UNCHANGED <<systemdVars, listenerVars, process>>
BY DEF Accept, ClientStep, Leave, Register, Subscribe, ReadLock, SendRow, ReadUnlock,
       Forward, EndStream, SayGoodbye

LEMMA ToldTyped ==
    ASSUME TypeOK, NEW c \in Client, NEW r \in Row, Told(c, r)
    PROVE  /\ view' \in [Client -> [Unit -> Known]]
           /\ view'[c] = [view[c] EXCEPT ![r.unit] = r.state]
           /\ \A d \in Client : d # c => view'[d] = view[d]
BY RowFields DEF Told, TypeOK

LEMMA ClientType ==
    ASSUME TypeOK, NEW c \in Client, Accept(c) \/ ClientStep(c) \/ Leave(c)
    PROVE  TypeOK'
<1>0. UNCHANGED <<systemdVars, listenerVars, process>>
  BY ClientFrame
<1>1. client' \in [Client -> Registered \cup {"off", "accepted", "goodbye", "closed"}]
  BY DEF TypeOK, Accept, ClientStep, Leave, Register, Subscribe, ReadLock, SendRow, ReadUnlock,
         Forward, EndStream, SayGoodbye, GoTo, Registered
<1>2. left' \subseteq Client
  BY DEF TypeOK, Accept, ClientStep, Leave, Register, Subscribe, ReadLock, SendRow, ReadUnlock,
         Forward, EndStream, SayGoodbye
<1>3. toSend' \in [Client -> SUBSET Row]
  <2>1. Rows(LoadedIn(status), status) \subseteq Row
    BY RowsTyped DEF TypeOK
  <2> QED
    BY <2>1 DEF TypeOK, Accept, ClientStep, Leave, Register, Subscribe, ReadLock, SendRow,
       ReadUnlock, Forward, EndStream, SayGoodbye
<1>4. inbox' \in [Client -> Seq(Row)]
  <2>1. inbox \in [Client -> Seq(Row)]
    BY DEF TypeOK
  <2>2. CASE Forward(c)
    <3>1. Tail(inbox[c]) \in Seq(Row)
      BY <2>1, <2>2 DEF Forward
    <3> QED
      BY <2>1, <2>2, <3>1 DEF Forward
  <2>3. CASE EndStream(c)
    BY <2>1, <2>3 DEF EndStream
  <2>4. CASE UNCHANGED inbox
    BY <2>1, <2>4
  <2> QED
    BY <2>2, <2>3, <2>4 DEF Accept, ClientStep, Leave, Register, Subscribe, ReadLock, SendRow,
       ReadUnlock, SayGoodbye
<1>5. view' \in [Client -> [Unit -> Known]]
  <2>1. CASE SendRow(c)
    <3>1. PICK r \in toSend[c] : Told(c, r)
      BY <2>1 DEF SendRow
    <3>2. r \in Row
      BY <3>1 DEF TypeOK
    <3> QED
      BY <3>1, <3>2, ToldTyped
  <2>2. CASE Forward(c)
    <3>1. Head(inbox[c]) \in Row /\ Told(c, Head(inbox[c]))
      BY <2>2 DEF Forward, TypeOK
    <3> QED
      BY <3>1, ToldTyped
  <2>3. CASE view' = view \/ view' = [view EXCEPT ![c] = Unknown]
    <3>1. view \in [Client -> [Unit -> Known]]
      BY DEF TypeOK
    <3>2. Unknown \in [Unit -> Known]
      BY DEF Unknown, Known
    <3> QED
      BY <2>3, <3>1, <3>2
  <2> QED
    BY <2>1, <2>2, <2>3 DEF Accept, ClientStep, Leave, Register, Subscribe, ReadLock,
       ReadUnlock, EndStream, SayGoodbye
<1> QED
  BY <1>0, <1>1, <1>2, <1>3, <1>4, <1>5 DEF TypeOK, systemdVars, listenerVars

-----------------------------------------------------------------------------
(* Rows on their way.                                                      *)

LEMMA ComingTyped ==
    ASSUME MonitorInv, NEW c \in Client
    PROVE  Coming(c) \in Seq(Row) /\ inbox[c] \in Seq(Row)
BY DEF MonitorInv, TypeOK, Coming

\* The sequence without its first row.
LEMMA TailRows ==
    ASSUME NEW rows \in Seq(Row), rows # <<>>
    PROVE  /\ Head(rows) \in Row /\ Head(rows) = rows[1]
           /\ UpToDate(rows) => UpToDate(Tail(rows))
           /\ \A u : NoRowOf(Tail(rows), u) =>
                 NoRowOf(rows, u) \/ (Head(rows).unit = u /\ LastRow(rows, 1))
<1>1. /\ Len(rows) \in Nat /\ Len(rows) >= 1 /\ DOMAIN rows = 1..Len(rows)
      /\ DOMAIN Tail(rows) = 1..(Len(rows) - 1)
      /\ \A i \in 1..(Len(rows) - 1) : Tail(rows)[i] = rows[i + 1]
      /\ Head(rows) \in Row /\ Head(rows) = rows[1]
  OBVIOUS
<1>2. ASSUME UpToDate(rows), NEW i \in DOMAIN Tail(rows), LastRow(Tail(rows), i)
      PROVE  Tail(rows)[i].state = status[Tail(rows)[i].unit]
  <2>1. i + 1 \in DOMAIN rows /\ Tail(rows)[i] = rows[i + 1]
    BY <1>1
  <2>2. ASSUME NEW k \in DOMAIN rows, i + 1 < k
        PROVE  rows[k].unit # rows[i + 1].unit
    <3>1. k - 1 \in DOMAIN Tail(rows) /\ i < k - 1 /\ Tail(rows)[k - 1] = rows[k]
      BY <1>1, <2>2
    <3> QED
      BY <1>2, <2>1, <3>1 DEF LastRow
  <2>3. LastRow(rows, i + 1)
    BY <2>1, <2>2 DEF LastRow
  <2> QED
    BY <1>2, <2>1, <2>3 DEF UpToDate
<1>3. ASSUME NEW u, NoRowOf(Tail(rows), u)
      PROVE  NoRowOf(rows, u) \/ (Head(rows).unit = u /\ LastRow(rows, 1))
  <2>1. \A k \in DOMAIN rows : 1 < k => rows[k].unit # u
    <3> SUFFICES ASSUME NEW k \in DOMAIN rows, 1 < k PROVE rows[k].unit # u
      OBVIOUS
    <3>1. k - 1 \in DOMAIN Tail(rows) /\ Tail(rows)[k - 1] = rows[k]
      BY <1>1
    <3> QED
      BY <1>3, <3>1 DEF NoRowOf
  <2>2. \A k \in DOMAIN rows : k = 1 \/ 1 < k
    BY <1>1
  <2> QED
    BY <1>1, <2>1, <2>2 DEF NoRowOf, LastRow
<1> QED
  BY <1>1, <1>2, <1>3 DEF UpToDate

\* The sequence with the row that was just saved.
LEMMA AppendRow ==
    ASSUME NEW rows \in Seq(Row), NEW r \in Row, status \in [Unit -> Known],
           status' = [status EXCEPT ![r.unit] = r.state]
    PROVE  /\ UpToDate(rows) =>
                 \A i \in DOMAIN Append(rows, r) :
                     LastRow(Append(rows, r), i)
                       => Append(rows, r)[i].state = status'[Append(rows, r)[i].unit]
           /\ \A u \in Unit : NoRowOf(Append(rows, r), u) =>
                 NoRowOf(rows, u) /\ status'[u] = status[u]
<1> DEFINE more == Append(rows, r)
<1>1. /\ Len(rows) \in Nat /\ DOMAIN rows = 1..Len(rows) /\ more \in Seq(Row)
      /\ DOMAIN more = 1..(Len(rows) + 1) /\ more[Len(rows) + 1] = r
      /\ \A i \in DOMAIN rows : more[i] = rows[i]
  OBVIOUS
<1>2. \A i \in DOMAIN more : more[i].unit \in Unit
  BY <1>1, RowFields
<1>3. \A i \in DOMAIN more : i = Len(rows) + 1 \/ (i \in DOMAIN rows /\ i < Len(rows) + 1)
  BY <1>1
<1> HIDE DEF more
<1>4. ASSUME UpToDate(rows), NEW i \in DOMAIN more, LastRow(more, i)
      PROVE  more[i].state = status'[more[i].unit]
  <2>1. CASE i = Len(rows) + 1
    BY <1>1, <1>2, <2>1
  <2>2. CASE i \in DOMAIN rows /\ i < Len(rows) + 1
    <3>1. more[i].unit # r.unit
      BY <1>1, <1>4, <2>2 DEF LastRow
    <3>2. LastRow(rows, i)
      BY <1>1, <1>4, <2>2 DEF LastRow
    <3>3. rows[i].state = status[rows[i].unit]
      BY <1>4, <2>2, <3>2 DEF UpToDate
    <3> QED
      BY <1>1, <1>2, <2>2, <3>1, <3>3
  <2> QED
    BY <1>3, <2>1, <2>2
<1>5. ASSUME NEW u \in Unit, NoRowOf(more, u)
      PROVE  NoRowOf(rows, u) /\ status'[u] = status[u]
  <2>1. r.unit # u
    BY <1>1, <1>5 DEF NoRowOf
  <2>2. NoRowOf(rows, u)
    BY <1>1, <1>5 DEF NoRowOf
  <2> QED
    BY <2>1, <2>2
<1> QED
  BY <1>4, <1>5 DEF more

-----------------------------------------------------------------------------
(* The steps.                                                              *)

LEMMA InitMonitorInv == Init => MonitorInv
<1> SUFFICES ASSUME Init PROVE MonitorInv
  OBVIOUS
<1>1. TypeOK
  BY InitType
<1>2. \A c \in Client : client[c] = "off" /\ inbox[c] = <<>> /\ view[c] = Unknown
  BY DEF Init
<1>3. listener = "list"
  BY DEF Init
<1> QED
  BY <1>1, <1>2, <1>3 DEF MonitorInv, ClientInv, Subscribed

\* A client of whom, and of what is on its way to whom, nothing changes.
LEMMA ClientStays ==
    ASSUME NEW c \in Client, ClientInv(c), status' = status,
           client'[c] = client[c], toSend'[c] = toSend[c], view'[c] = view[c],
           inbox'[c] = inbox[c], Coming(c)' = Coming(c)
    PROVE  ClientInv(c)'
<1>1. UpToDate(Coming(c))' <=> UpToDate(Coming(c))
  BY DEF UpToDate, LastRow
<1>2. \A u : NoRowOf(Coming(c), u)' <=> NoRowOf(Coming(c), u)
  BY DEF NoRowOf
<1> QED
  BY <1>1, <1>2 DEF ClientInv

\* Everything but Save, Broadcast and the clients.
LEMMA QuietInv ==
    ASSUME MonitorInv, UNCHANGED <<status, clientVars>>,
           \/ UNCHANGED <<listener, row>>
           \/ listener # "broadcast" /\ listener' # "broadcast"
    PROVE  \A c \in Client \ left' : ClientInv(c)'
<1> SUFFICES ASSUME NEW c \in Client, c \notin left' PROVE ClientInv(c)'
  OBVIOUS
<1>1. Coming(c)' = Coming(c)
  BY DEF Coming, clientVars
<1>2. ClientInv(c)
  BY DEF MonitorInv, clientVars
<1> QED
  BY <1>1, <1>2, ClientStays DEF clientVars

\* The map is written while nobody reads it, and the row is on its way.
LEMMA SaveInv ==
    ASSUME MonitorInv, Save
    PROVE  /\ \A c \in Client \ left' : ClientInv(c)'
           /\ status'[row'.unit] = row'.state
<1>1. /\ row \in Row /\ status \in [Unit -> Known] /\ row' = row
      /\ status' = [status EXCEPT ![row.unit] = row.state]
      /\ listener = "save" /\ listener' = "broadcast" /\ UNCHANGED clientVars
  BY DEF Save, MonitorInv, TypeOK
<1>2. status'[row'.unit] = row'.state
  BY <1>1, RowFields
<1>3. ASSUME NEW c \in Client, c \notin left'
      PROVE  ClientInv(c)'
  <2>1. /\ client'[c] = client[c] /\ inbox'[c] = inbox[c] /\ view'[c] = view[c]
        /\ client[c] # "snapshot" /\ ClientInv(c) /\ inbox[c] \in Seq(Row)
    BY <1>1, <1>3, ComingTyped DEF clientVars, Save, MonitorInv
  <2>2. Coming(c) = inbox[c] /\ Coming(c)' = Append(inbox[c], row)
    BY <1>1, <2>1 DEF Coming
  <2>3. ASSUME UpToDate(Coming(c))
        PROVE  UpToDate(Coming(c))'
    <3> DEFINE more == Append(inbox[c], row)
    <3>1. \A i \in DOMAIN more : LastRow(more, i) => more[i].state = status'[more[i].unit]
      BY <1>1, <2>1, <2>2, <2>3, AppendRow
    <3>2. Coming(c)' = more
      BY <2>2
    <3> HIDE DEF more
    <3> QED
      BY <3>1, <3>2 DEF UpToDate, LastRow
  <2>4. \A u \in Unit : NoRowOf(Coming(c), u)' =>
           NoRowOf(Coming(c), u) /\ status'[u] = status[u]
    <3> DEFINE more == Append(inbox[c], row)
    <3>1. \A u \in Unit : NoRowOf(more, u) =>
             NoRowOf(inbox[c], u) /\ status'[u] = status[u]
      BY <1>1, <2>1, AppendRow
    <3>2. \A u \in Unit : NoRowOf(Coming(c), u)' <=> NoRowOf(more, u)
      BY <2>2 DEF NoRowOf
    <3> HIDE DEF more
    <3> QED
      BY <2>2, <3>1, <3>2
  <2> QED
    BY <2>1, <2>3, <2>4 DEF ClientInv
<1> QED
  BY <1>2, <1>3

\* The row in hand becomes the last of every subscription.
LEMMA BroadcastInv ==
    ASSUME MonitorInv, Broadcast
    PROVE  \A c \in Client \ left' : ClientInv(c)'
<1> SUFFICES ASSUME NEW c \in Client, c \notin left' PROVE ClientInv(c)'
  OBVIOUS
<1>1. /\ listener = "broadcast" /\ listener' = "next"
      /\ UNCHANGED <<status, client, left, toSend, view>>
      /\ inbox'[c] = IF client[c] \in Subscribed THEN Append(inbox[c], row) ELSE inbox[c]
  BY DEF Broadcast
<1>2. ClientInv(c)
  BY <1>1 DEF MonitorInv
<1>3. Coming(c)' = inbox'[c]
  BY <1>1 DEF Coming
<1>4. CASE client[c] \in Subscribed
  <2>1. Coming(c)' = Coming(c)
    BY <1>1, <1>3, <1>4 DEF Coming
  <2>2. UpToDate(Coming(c))' <=> UpToDate(Coming(c))
    BY <1>1, <2>1 DEF UpToDate, LastRow
  <2>3. \A u : NoRowOf(Coming(c), u)' <=> NoRowOf(Coming(c), u)
    BY <2>1 DEF NoRowOf
  <2> QED
    BY <1>1, <1>2, <1>4, <2>2, <2>3 DEF ClientInv, Subscribed, Connecting
<1>5. CASE client[c] \notin Subscribed
  BY <1>1, <1>2, <1>5 DEF ClientInv, Subscribed
<1> QED
  BY <1>4, <1>5

LEMMA ListenerInv ==
    ASSUME MonitorInv, Watch \/ ListenerStep
    PROVE  MonitorInv'
<1>1. TypeOK' /\ (listener' \in {"save", "broadcast"} => row' \in Row)
  BY ListenerType DEF MonitorInv
<1>2. CASE Watch
  <2>1. UNCHANGED <<status, clientVars, listener, row>>
    BY <1>2 DEF Watch
  <2>2. \A c \in Client \ left' : ClientInv(c)'
    BY <2>1, QuietInv
  <2> QED
    BY <1>1, <2>1, <2>2 DEF MonitorInv
<1>3. CASE List \/ Receive \/ NextRow \/ StopListening
  <2>1. /\ UNCHANGED <<status, clientVars>>
        /\ listener # "broadcast" /\ listener' # "broadcast"
    BY <1>3 DEF List, Receive, NextRow, StopListening
  <2>2. \A c \in Client \ left' : ClientInv(c)'
    BY <2>1, QuietInv
  <2> QED
    BY <1>1, <2>1, <2>2 DEF MonitorInv
<1>4. CASE Save
  BY <1>1, <1>4, SaveInv DEF MonitorInv
<1>5. CASE Broadcast
  <2>1. listener' # "broadcast"
    BY <1>5 DEF Broadcast
  <2> QED
    BY <1>1, <1>5, <2>1, BroadcastInv DEF MonitorInv
<1> QED
  BY <1>2, <1>3, <1>4, <1>5 DEF ListenerStep

LEMMA SystemdInv ==
    ASSUME MonitorInv,
           \/ UnitChanges
           \/ \E c \in Client : Command(c)
           \/ Interrupt \/ CloseServer \/ Exit
           \/ UNCHANGED vars
    PROVE  MonitorInv'
<1>1. TypeOK'
  BY SystemdType DEF MonitorInv
<1>2. UNCHANGED <<status, clientVars, listener, row>>
  BY DEF UnitChanges, Command, Interrupt, CloseServer, Exit, vars, listenerVars
<1>3. \A c \in Client \ left' : ClientInv(c)'
  BY <1>2, QuietInv
<1> QED
  BY <1>1, <1>2, <1>3 DEF MonitorInv

-----------------------------------------------------------------------------
(* The steps of a client.                                                  *)

\* Another client's step is none of it.
LEMMA OthersStay ==
    ASSUME MonitorInv, NEW c \in Client, Accept(c) \/ ClientStep(c) \/ Leave(c),
           NEW d \in Client, d # c, d \notin left'
    PROVE  ClientInv(d)'
<1>1. UNCHANGED <<status, listener, row>>
  BY ClientFrame DEF listenerVars
<1>2. client'[d] = client[d] /\ toSend'[d] = toSend[d] /\ inbox'[d] = inbox[d] /\ d \notin left
  BY DEF MonitorInv, TypeOK, Accept, ClientStep, Leave, Register, Subscribe, ReadLock, SendRow,
         ReadUnlock, Forward, EndStream, SayGoodbye, GoTo
<1>3. view'[d] = view[d]
  BY DEF MonitorInv, TypeOK, Accept, ClientStep, Leave, Register, Subscribe, ReadLock, SendRow,
         ReadUnlock, Forward, EndStream, SayGoodbye, Told
<1>4. Coming(d)' = Coming(d)
  BY <1>1, <1>2 DEF Coming
<1>5. ClientInv(d)
  BY <1>2 DEF MonitorInv
<1> QED
  BY <1>1, <1>2, <1>3, <1>4, <1>5, ClientStays

\* A client connects: nothing is on its way to it before it subscribes, and then
\* nothing but the row in hand.
LEMMA ConnectInv ==
    ASSUME MonitorInv, NEW c \in Client, c \notin left,
           Accept(c) \/ Register(c) \/ Subscribe(c)
    PROVE  ClientInv(c)'
<1>1. /\ client[c] \in Connecting /\ client'[c] \in Connecting \cup {"subscribed", "closed"}
      /\ UNCHANGED <<status, listener, row, inbox, view>>
  BY DEF Accept, Register, Subscribe, GoTo, Connecting, listenerVars, MonitorInv, TypeOK
<1>2. inbox'[c] = <<>> /\ view'[c] = Unknown
  BY <1>1 DEF MonitorInv, ClientInv
<1>3. UpToDate(Coming(c))'
  <2>1. CASE listener' = "broadcast"
    <3>1. Coming(c)' = <<row'>> /\ status'[row'.unit] = row'.state
      BY <1>1, <1>2, <2>1 DEF Coming, MonitorInv
    <3> QED
      BY <3>1 DEF UpToDate
  <2>2. CASE listener' # "broadcast"
    <3>1. Coming(c)' = <<>>
      BY <1>2, <2>2 DEF Coming
    <3> QED
      BY <3>1 DEF UpToDate
  <2> QED
    BY <2>1, <2>2
<1> QED
  BY <1>1, <1>2, <1>3 DEF ClientInv, Connecting, Subscribed

\* The map is read: what is not in it is not known to the client either.
LEMMA ReadLockInv ==
    ASSUME MonitorInv, NEW c \in Client, c \notin left, ReadLock(c)
    PROVE  ClientInv(c)'
<1>1. /\ client[c] = "subscribed" /\ client'[c] = "snapshot"
      /\ toSend'[c] = Rows(LoadedIn(status), status)
      /\ UNCHANGED <<status, listener, row, inbox, view>>
  BY DEF ReadLock, GoTo, listenerVars, MonitorInv, TypeOK
<1>2. /\ ClientInv(c) /\ status \in [Unit -> Known]
      /\ Coming(c)' = Coming(c)
  BY <1>1 DEF MonitorInv, TypeOK, Coming
<1>3. UpToDate(Coming(c))'
  BY <1>1, <1>2 DEF ClientInv, Subscribed, UpToDate, LastRow
<1>4. \A r \in toSend'[c] : r.state = status'[r.unit]
  BY <1>1 DEF Rows
<1>5. ASSUME NEW u \in Unit, \A r \in toSend'[c] : r.unit # u
      PROVE  view'[c][u] = status'[u]
  <2>1. ASSUME u \in LoadedIn(status) PROVE FALSE
    <3>1. [unit |-> u, state |-> status[u]] \in toSend'[c]
      BY <1>1, <2>1 DEF Rows
    <3> QED
      BY <1>5, <3>1
  <2>2. status[u] = Gone
    BY <2>1 DEF LoadedIn
  <2>3. view'[c] = Unknown
    BY <1>1, <1>2 DEF ClientInv
  <2> QED
    BY <1>1, <2>2, <2>3 DEF Unknown
<1> QED
  BY <1>1, <1>3, <1>4, <1>5 DEF ClientInv, Connecting, Subscribed

LEMMA SendRowInv ==
    ASSUME MonitorInv, NEW c \in Client, c \notin left, SendRow(c)
    PROVE  ClientInv(c)'
<1>1. PICK r \in toSend[c] : Told(c, r) /\ toSend' = [toSend EXCEPT ![c] = @ \ {r}]
  BY DEF SendRow
<1>2. /\ client[c] = "snapshot" /\ client' = client
      /\ UNCHANGED <<status, listener, row, inbox>> /\ TypeOK /\ ClientInv(c)
  BY DEF SendRow, listenerVars, MonitorInv
<1>3. /\ r \in Row /\ toSend'[c] = toSend[c] \ {r} /\ view[c] \in [Unit -> Known]
      /\ \A q \in toSend[c] : q \in Row
      /\ Coming(c)' = Coming(c)
  BY <1>1, <1>2 DEF TypeOK, Coming
<1>4. view'[c] = [view[c] EXCEPT ![r.unit] = r.state]
  BY <1>1, <1>2, <1>3, ToldTyped
<1>5. UpToDate(Coming(c))'
  BY <1>2, <1>3 DEF ClientInv, Subscribed, UpToDate, LastRow
<1>6. \A q \in toSend'[c] : q.state = status'[q.unit]
  BY <1>2, <1>3 DEF ClientInv
<1>7. ASSUME NEW u \in Unit, \A q \in toSend'[c] : q.unit # u
      PROVE  view'[c][u] = status'[u]
  <2>1. CASE u = r.unit
    BY <1>1, <1>2, <1>3, <1>4, <2>1 DEF ClientInv
  <2>2. CASE u # r.unit
    <3>1. \A q \in toSend[c] : q.unit # u
      BY <1>3, <1>7, <2>2
    <3> QED
      BY <1>2, <1>3, <1>4, <2>2, <3>1 DEF ClientInv
  <2> QED
    BY <2>1, <2>2
<1> QED
  BY <1>2, <1>5, <1>6, <1>7 DEF ClientInv, Connecting, Subscribed

\* All is sent: the client was told the whole map.
LEMMA ReadUnlockInv ==
    ASSUME MonitorInv, NEW c \in Client, c \notin left, ReadUnlock(c)
    PROVE  ClientInv(c)'
<1>1. /\ client[c] = "snapshot" /\ client'[c] = "stream" /\ toSend[c] = {}
      /\ UNCHANGED <<status, listener, row, inbox, view>> /\ ClientInv(c)
  BY DEF ReadUnlock, GoTo, PublishDone, listenerVars, MonitorInv, TypeOK
<1>2. Coming(c)' = Coming(c)
  BY <1>1 DEF Coming
<1>3. UpToDate(Coming(c))'
  BY <1>1, <1>2 DEF ClientInv, Subscribed, UpToDate, LastRow
<1>4. \A u \in Unit : view'[c][u] = status'[u]
  BY <1>1 DEF ClientInv
<1> QED
  BY <1>1, <1>3, <1>4 DEF ClientInv, Connecting, Subscribed

\* The first row on its way is told; if it was the only one of its unit, it was
\* the last one, and is what the map says.
LEMMA ForwardInv ==
    ASSUME MonitorInv, NEW c \in Client, c \notin left, Forward(c)
    PROVE  ClientInv(c)'
<1> DEFINE rows == Coming(c)
           first == Head(inbox[c])
<1>1. /\ client[c] = "stream" /\ client' = client /\ inbox[c] # <<>>
      /\ Told(c, first) /\ inbox'[c] = Tail(inbox[c])
      /\ UNCHANGED <<status, listener, row>> /\ TypeOK /\ ClientInv(c)
  BY DEF Forward, listenerVars, MonitorInv, TypeOK
<1>2. inbox[c] \in Seq(Row) /\ rows \in Seq(Row) /\ (listener = "broadcast" => row \in Row)
  BY ComingTyped DEF MonitorInv
<1>3. rows # <<>> /\ Head(rows) = first /\ Coming(c)' = Tail(rows)
  <2>1. CASE listener = "broadcast"
    <3>1. rows = Append(inbox[c], row) /\ Coming(c)' = Append(Tail(inbox[c]), row)
      BY <1>1, <2>1 DEF Coming
    <3> HIDE DEF rows
    <3> QED
      BY <1>1, <1>2, <2>1, <3>1
  <2>2. CASE listener # "broadcast"
    BY <1>1, <2>2 DEF Coming
  <2> QED
    BY <2>1, <2>2
<1> HIDE DEF rows, first
<1>4. /\ first \in Row /\ first = rows[1] /\ UpToDate(Tail(rows)) /\ UpToDate(rows)
      /\ \A u : NoRowOf(Tail(rows), u) =>
            NoRowOf(rows, u) \/ (first.unit = u /\ LastRow(rows, 1))
  <2>1. UpToDate(rows)
    BY <1>1 DEF ClientInv, Subscribed, rows
  <2> QED
    BY <1>2, <1>3, <2>1, TailRows
<1>5. view'[c] = [view[c] EXCEPT ![first.unit] = first.state] /\ view[c] \in [Unit -> Known]
  <2>1. view'[c] = [view[c] EXCEPT ![first.unit] = first.state]
    BY <1>1, <1>4, ToldTyped
  <2>2. view[c] \in [Unit -> Known]
    BY <1>1 DEF TypeOK
  <2> QED
    BY <2>1, <2>2
<1>6. UpToDate(Coming(c))'
  BY <1>1, <1>3, <1>4 DEF UpToDate, LastRow
<1>7. ASSUME NEW u \in Unit, NoRowOf(Coming(c)', u)
      PROVE  view'[c][u] = status'[u]
  <2>1. NoRowOf(Tail(rows), u)
    BY <1>3, <1>7
  <2>2. CASE first.unit = u /\ LastRow(rows, 1)
    <3>1. first.state = status[u]
      BY <1>4, <2>2 DEF UpToDate, LastRow
    <3> QED
      BY <1>1, <1>5, <2>2, <3>1
  <2>3. CASE NoRowOf(rows, u)
    <3>1. first.unit # u
      BY <1>2, <1>3, <1>4, <2>3 DEF NoRowOf
    <3>2. view[c][u] = status[u]
      BY <1>1, <2>3 DEF ClientInv, rows
    <3> QED
      BY <1>1, <1>5, <3>1, <3>2
  <2> QED
    BY <1>4, <2>1, <2>2, <2>3
<1>8. \A u : NoRowOf(Coming(c), u)' <=> NoRowOf(Coming(c)', u)
  BY DEF NoRowOf
<1> QED
  BY <1>1, <1>6, <1>7, <1>8 DEF ClientInv, Connecting, Subscribed

LEMMA ClientStepInv ==
    ASSUME MonitorInv, NEW c \in Client, Accept(c) \/ ClientStep(c) \/ Leave(c)
    PROVE  MonitorInv'
<1>1. TypeOK' /\ UNCHANGED <<listener, row, status>>
  BY ClientType, ClientFrame DEF MonitorInv, listenerVars
<1>2. c \notin left' => c \notin left
  BY DEF Accept, ClientStep, Leave, Register, Subscribe, ReadLock, SendRow, ReadUnlock,
         Forward, EndStream, SayGoodbye
<1>3. ASSUME c \notin left'
      PROVE  ClientInv(c)'
  <2>1. ~Leave(c)
    BY <1>3 DEF Leave
  <2>2. CASE EndStream(c) \/ SayGoodbye(c)
    <3>1. client'[c] \in {"closed", "ending", "goodbye"}
      BY <2>2 DEF EndStream, SayGoodbye, GoTo, MonitorInv, TypeOK
    <3> QED
      BY <3>1 DEF ClientInv, Connecting, Subscribed
  <2> QED
    BY <1>2, <1>3, <2>1, <2>2, ConnectInv, ReadLockInv, SendRowInv, ReadUnlockInv, ForwardInv
       DEF ClientStep
<1>4. \A d \in Client \ left' : ClientInv(d)'
  BY <1>3, OthersStay
<1> QED
  BY <1>1, <1>4 DEF MonitorInv

LEMMA NextMonitorInv ==
    ASSUME MonitorInv, [Next]_vars
    PROVE  MonitorInv'
BY SystemdInv, ListenerInv, ClientStepInv DEF Next

-----------------------------------------------------------------------------
(* The theorems.                                                           *)

\* What a subscriber was told and what is on its way add up to the map.
THEOREM MonitorInvariance == Spec => []MonitorInv
BY InitMonitorInv, NextMonitorInv, PTL DEF Spec

\* The listener, the map and the clients are well formed.
THEOREM MonitorTypeCorrect == Spec => []TypeOK
<1>1. MonitorInv => TypeOK
  BY DEF MonitorInv
<1> QED
  BY <1>1, MonitorInvariance, PTL

\* The snapshot is of one moment, however long it takes to send it and whatever
\* changes meanwhile (systemd_http.go).
THEOREM SnapshotsOfOneMoment == Spec => []SnapshotOfOneMoment
<1>1. MonitorInv => SnapshotOfOneMoment
  <2> SUFFICES ASSUME MonitorInv, NEW c \in Client, c \notin left, client[c] = "snapshot",
                      NEW u \in Unit
               PROVE  status[u] = IF \E r \in toSend[c] : r.unit = u
                                  THEN (CHOOSE r \in toSend[c] : r.unit = u).state
                                  ELSE view[c][u]
    BY DEF SnapshotOfOneMoment
  <2>1. ClientInv(c)
    BY DEF MonitorInv
  <2>2. CASE \E r \in toSend[c] : r.unit = u
    <3>1. PICK r : r = CHOOSE q \in toSend[c] : q.unit = u
      OBVIOUS
    <3>2. r \in toSend[c] /\ r.unit = u
      BY <2>2, <3>1
    <3>3. r.state = status[u]
      BY <2>1, <3>2 DEF ClientInv
    <3> QED
      BY <2>2, <3>1, <3>3
  <2>3. CASE ~ \E r \in toSend[c] : r.unit = u
    BY <2>1, <2>3 DEF ClientInv
  <2> QED
    BY <2>2, <2>3
<1> QED
  BY <1>1, MonitorInvariance, PTL

\* A nonempty set of numbers of 1..n has a largest one.
LEMMA Largest ==
    ASSUME NEW n \in Nat, NEW S \in SUBSET (1..n), S # {}
    PROVE  \E m \in S : \A k \in S : k <= m
<1> DEFINE R == OpToRel(<, Nat)
           T == {n - k : k \in S}
<1>1. T \subseteq Nat /\ T # {}
  <2>1. \A k \in S : n - k \in Nat
    OBVIOUS
  <2>2. PICK k \in S : n - k \in T
    OBVIOUS
  <2> QED
    BY <2>1, <2>2
<1>2. PICK x \in T : \A y \in T : ~ (<<y, x>> \in R)
  <2> HIDE DEF R, T
  <2>1. IsWellFoundedOn(R, Nat)
    BY NatLessThanWellFounded DEF R
  <2> QED
    BY <1>1, <2>1, WFMin
<1>3. \A y \in T : ~ (y < x)
  BY <1>1, <1>2 DEF OpToRel
<1>4. PICK m \in S : x = n - m
  OBVIOUS
<1>5. ASSUME NEW k \in S PROVE k <= m
  <2>1. ~ (n - k < n - m)
    BY <1>3, <1>4
  <2>2. k \in Nat /\ m \in Nat
    OBVIOUS
  <2> HIDE DEF R, T
  <2> QED
    BY <2>1, <2>2, SMT
<1> QED
  BY <1>5

\* A client that connected at any time and stays misses no change
\* (systemd_http.go subscribes before it reads the map).
THEOREM NothingIsMissed == Spec => []NothingMissed
<1>1. MonitorInv => NothingMissed
  <2> SUFFICES ASSUME MonitorInv, NEW c \in Client, c \notin left, client[c] = "stream",
                      NEW u \in Unit
               PROVE  Expects(c, u) = status[u]
    BY DEF NothingMissed
  <2> DEFINE rows == Coming(c)
             about == {i \in DOMAIN rows : rows[i].unit = u}
             last == CHOOSE i \in about : \A k \in about : k <= i
  <2>1. ClientInv(c) /\ rows \in Seq(Row)
    BY ComingTyped DEF MonitorInv
  <2>2. Expects(c, u) = IF about = {} THEN view[c][u] ELSE rows[last].state
    BY DEF Expects
  <2>3. CASE about = {}
    <3>1. NoRowOf(rows, u)
      BY <2>3 DEF NoRowOf
    <3>2. view[c][u] = status[u]
      BY <2>1, <3>1 DEF ClientInv
    <3> QED
      BY <2>2, <2>3, <3>2
  <2>4. CASE about # {}
    <3>1. about \in SUBSET (1..Len(rows)) /\ Len(rows) \in Nat
      BY <2>1
    <3>2. last \in about /\ \A k \in about : k <= last
      <4> HIDE DEF about
      <4> QED
        BY <2>4, <3>1, Largest
    <3>3. LastRow(rows, last)
      <4>1. \A k \in DOMAIN rows : last < k => k \notin about
        BY <3>1, <3>2
      <4> HIDE DEF last
      <4> QED
        BY <3>2, <4>1 DEF LastRow
    <3>4. rows[last].state = status[u]
      <4> HIDE DEF last
      <4> QED
        BY <2>1, <3>2, <3>3 DEF ClientInv, UpToDate, Subscribed
    <3> QED
      BY <2>2, <2>4, <3>4
  <2> QED
    BY <2>3, <2>4
<1> QED
  BY <1>1, MonitorInvariance, PTL

-----------------------------------------------------------------------------
(* What the listener has not saved yet.                                    *)

\* The invariant of the listener's side: of what was reported, the part that is
\* not in the map is on its way to it.
SourceOf(u) ==
    IF Newest(u) = {} THEN status[u] = reported[u]
    ELSE \A r \in Newest(u) : r.state = reported[u]

LEMMA SourceParts ==
    SourceInv <=> /\ listener = "list" => reported = Unknown
                  /\ \A u \in LoadedIn(reported) : SourceOf(u)
BY DEF SourceInv, SourceOf

\* A report names every unit that changed since the last one.
LEMMA WatchSource ==
    ASSUME MonitorInv, SourceInv, Watch
    PROVE  SourceInv'
<1>1. /\ listener # "list" /\ pending = {} /\ reported' = actual
      /\ pending' = Rows({u \in Unit : actual[u] # reported[u]}, actual)
      /\ UNCHANGED <<listener, batch, row, status>>
  BY DEF Watch
<1>2. ASSUME NEW u \in LoadedIn(actual)
      PROVE  SourceOf(u)'
  <2>1. u \in Unit /\ actual[u] # Gone
    BY <1>2 DEF LoadedIn
  <2>2. CASE actual[u] # reported[u]
    <3>1. [unit |-> u, state |-> actual[u]] \in About(pending', u)
      BY <1>1, <2>1, <2>2 DEF Rows, About
    <3>2. \A r \in About(pending', u) : r.state = actual[u]
      BY <1>1 DEF Rows, About
    <3>3. Newest(u)' = About(pending', u)
      BY <3>1 DEF Newest, About
    <3> QED
      BY <1>1, <3>1, <3>2, <3>3 DEF SourceOf
  <2>3. CASE actual[u] = reported[u]
    <3>1. About(pending', u) = {} /\ About(pending, u) = {}
      BY <1>1, <2>3 DEF Rows, About
    <3>2. Newest(u)' = Newest(u)
      BY <1>1, <3>1 DEF Newest, About, InHand
    <3>3. SourceOf(u)
      BY <1>2, <2>1, <2>3, SourceParts DEF LoadedIn
    <3> QED
      BY <1>1, <2>3, <3>2, <3>3 DEF SourceOf
  <2> QED
    BY <2>2, <2>3
<1>3. LoadedIn(reported)' = LoadedIn(actual)
  BY <1>1 DEF LoadedIn
<1> QED
  BY <1>1, <1>2, <1>3 DEF SourceInv, SourceOf

\* The listener takes what was reported, row by row, into the map.
LEMMA ListenerSource ==
    ASSUME MonitorInv, SourceInv, ListenerStep
    PROVE  SourceInv'
<1>0. reported' = reported /\ LoadedIn(reported)' = LoadedIn(reported)
  BY DEF ListenerStep, List, Receive, NextRow, Save, Broadcast, StopListening, LoadedIn
<1> SUFFICES ASSUME NEW u \in LoadedIn(reported)
             PROVE  listener # "list" /\ SourceOf(u)' /\ listener' # "list"
  <2>1. ASSUME LoadedIn(reported) = {}
        PROVE  reported = Unknown
    BY <2>1 DEF LoadedIn, Unknown, MonitorInv, TypeOK
  <2>2. CASE LoadedIn(reported) = {}
    BY <1>0, <2>1, <2>2 DEF SourceInv
  <2>3. CASE LoadedIn(reported) # {}
    BY <1>0, <2>3 DEF SourceInv, SourceOf
  <2> QED
    BY <2>2, <2>3
<1>1. u \in Unit /\ reported[u] # Gone /\ listener # "list" /\ SourceOf(u)
  BY SourceParts DEF LoadedIn, SourceInv, Unknown
<1>2. CASE Receive
  <2>1. /\ listener = "next" /\ batch = {} /\ pending' = {} /\ UNCHANGED <<listener, status, row>>
        /\ batch' = {r \in pending : r.state # Gone}
    BY <1>2 DEF Receive
  <2>2. About(batch', u) = About(pending, u)
    <3>1. \A r \in About(pending, u) : r.state # Gone
      BY <1>1 DEF SourceOf, Newest
    <3> QED
      BY <2>1, <3>1 DEF About
  <2>3. About(batch, u) = {} /\ About(pending', u) = {}
    BY <2>1 DEF About
  <2>4. Newest(u)' = Newest(u)
    BY <2>1, <2>2, <2>3 DEF Newest, About, InHand
  <2> QED
    BY <1>0, <1>1, <2>1, <2>4 DEF SourceOf
<1>3. CASE NextRow
  <2>1. PICK r \in batch : row' = r /\ batch' = batch \ {r}
    BY <1>3 DEF NextRow
  <2>2. listener = "next" /\ listener' = "save" /\ UNCHANGED <<pending, status>>
    BY <1>3 DEF NextRow
  <2>3. CASE About(pending, u) # {}
    <3>1. Newest(u)' = Newest(u)
      BY <2>2, <2>3 DEF Newest, About
    <3> QED
      BY <1>0, <1>1, <2>2, <3>1 DEF SourceOf
  <2>4. CASE About(pending, u) = {} /\ About(batch, u) = {}
    <3>1. r.unit # u /\ About(batch', u) = {} /\ About(pending', u) = {}
      BY <2>1, <2>2, <2>4 DEF About
    <3>2. Newest(u) = {} /\ Newest(u)' = {}
      BY <2>1, <2>2, <2>4, <3>1 DEF Newest, About, InHand
    <3> QED
      BY <1>0, <1>1, <2>2, <3>2 DEF SourceOf
  <2>5. CASE About(pending, u) = {} /\ About(batch, u) # {}
    <3>1. \A q \in About(batch, u) : q.state = reported[u]
      BY <1>1, <2>5 DEF SourceOf, Newest
    <3>2. \A q \in Newest(u)' : q \in About(batch, u)
      BY <2>1, <2>2, <2>5 DEF Newest, About, InHand
    <3>3. Newest(u)' # {}
      <4>1. CASE r.unit = u
        BY <2>1, <2>2, <4>1 DEF Newest, About, InHand
      <4>2. CASE r.unit # u
        <5>1. About(batch', u) = About(batch, u)
          BY <2>1, <4>2 DEF About
        <5> QED
          BY <2>2, <2>5, <5>1 DEF Newest, About
      <4> QED
        BY <4>1, <4>2
    <3> QED
      BY <1>0, <1>1, <2>2, <3>1, <3>2, <3>3 DEF SourceOf
  <2> QED
    BY <2>3, <2>4, <2>5
<1>4. CASE Save
  <2>1. /\ row \in Row /\ status \in [Unit -> Known]
        /\ status' = [status EXCEPT ![row.unit] = row.state]
        /\ listener = "save" /\ listener' = "broadcast" /\ UNCHANGED <<pending, batch, row>>
    BY <1>4 DEF Save, MonitorInv, TypeOK
  <2>2. Newest(u)' = Newest(u)
    BY <2>1 DEF Newest, About, InHand
  <2>3. CASE Newest(u) = {}
    <3>1. row.unit # u
      BY <2>1, <2>3 DEF Newest, About, InHand
    <3> QED
      BY <1>0, <1>1, <2>1, <2>2, <2>3, <3>1 DEF SourceOf
  <2>4. CASE Newest(u) # {}
    BY <1>0, <1>1, <2>1, <2>2, <2>4 DEF SourceOf
  <2> QED
    BY <2>3, <2>4
<1>5. CASE Broadcast
  <2>1. /\ listener = "broadcast" /\ listener' = "next" /\ UNCHANGED <<pending, batch, status>>
        /\ status[row.unit] = row.state
    BY <1>5 DEF Broadcast, MonitorInv
  <2>2. InHand' = {} /\ InHand = {row}
    BY <2>1 DEF InHand
  <2>3. CASE About(pending, u) # {} \/ About(batch, u) # {}
    <3>1. Newest(u)' = Newest(u)
      BY <2>1, <2>3 DEF Newest, About
    <3> QED
      BY <1>0, <1>1, <2>1, <3>1 DEF SourceOf
  <2>4. CASE About(pending, u) = {} /\ About(batch, u) = {}
    <3>1. Newest(u)' = {} /\ Newest(u) = About({row}, u)
      BY <2>1, <2>2, <2>4 DEF Newest, About
    <3>2. CASE row.unit = u
      BY <1>0, <1>1, <2>1, <3>1, <3>2 DEF SourceOf, About
    <3>3. CASE row.unit # u
      BY <1>0, <1>1, <2>1, <3>1, <3>3 DEF SourceOf, About
    <3> QED
      BY <3>2, <3>3
  <2> QED
    BY <2>3, <2>4
<1>6. CASE StopListening
  <2>1. /\ listener = "next" /\ listener' = "stopped"
        /\ UNCHANGED <<pending, batch, row, status>>
    BY <1>6 DEF StopListening
  <2>2. Newest(u)' = Newest(u)
    BY <2>1 DEF Newest, About, InHand
  <2> QED
    BY <1>0, <1>1, <2>1, <2>2 DEF SourceOf
<1>7. ~List
  BY <1>1 DEF List
<1> QED
  BY <1>1, <1>2, <1>3, <1>4, <1>5, <1>6, <1>7 DEF ListenerStep, Receive, NextRow, Save, Broadcast,
     StopListening

LEMMA SourceStep ==
    ASSUME MonitorInv, SourceInv, [Next]_vars
    PROVE  SourceInv'
<1>1. CASE UNCHANGED listenerVars
  BY <1>1 DEF SourceInv, LoadedIn, Newest, About, InHand, listenerVars
<1>2. CASE Watch
  BY <1>2, WatchSource
<1>3. CASE ListenerStep
  BY <1>3, ListenerSource
<1> QED
  BY <1>1, <1>2, <1>3, ClientFrame
     DEF Next, vars, UnitChanges, Command, Interrupt, CloseServer, Exit

\* Whatever is reported of a loaded unit is in the map or on its way to it.
THEOREM SourceInvariance == Spec => [](MonitorInv /\ SourceInv)
<1>1. Init => SourceInv
  BY DEF Init, SourceInv, LoadedIn, Unknown
<1>2. MonitorInv /\ SourceInv /\ [Next]_vars => (MonitorInv /\ SourceInv)'
  BY NextMonitorInv, SourceStep
<1> QED
  BY <1>1, <1>2, InitMonitorInv, PTL DEF Spec

\* A client that has read everything a settled monitor sent it shows what runs:
\* the map says what was reported, and the client's view what the map says.
THEOREM SettledAlwaysShown == Spec => []SettledIsShown
<1>1. MonitorInv /\ SourceInv => SettledIsShown
  <2> SUFFICES ASSUME MonitorInv, SourceInv, Settled, NEW c \in Client, c \notin left,
                      client[c] = "stream", inbox[c] = <<>>, NEW u \in LoadedIn(actual)
               PROVE  view[c][u] = actual[u]
    BY DEF SettledIsShown
  <2>1. u \in Unit /\ reported = actual /\ LoadedIn(reported) = LoadedIn(actual)
    BY DEF Settled, LoadedIn
  <2>2. Newest(u) = {}
    BY DEF Settled, Newest, About, InHand
  <2>3. status[u] = actual[u]
    BY <2>1, <2>2 DEF SourceInv
  <2>4. ClientInv(c) /\ Coming(c) = <<>>
    BY DEF MonitorInv, Coming, Settled
  <2>5. NoRowOf(Coming(c), u)
    BY <2>4 DEF NoRowOf
  <2> QED
    BY <2>1, <2>3, <2>4, <2>5 DEF ClientInv
<1> QED
  BY <1>1, SourceInvariance, PTL
=============================================================================
