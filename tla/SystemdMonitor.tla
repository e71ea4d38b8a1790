--------------------------- MODULE SystemdMonitor ---------------------------
(***************************************************************************)
(* The systemd monitor, internal/src/systemd, and the shutdown of the      *)
(* server it runs in, startRouter of cmd/deployd/main.go.                  *)
(*                                                                         *)
(* One listener goroutine keeps the last known state of every unit in a    *)
(* map behind an RWMutex and broadcasts every change.  Each websocket      *)
(* client first subscribes, then gets the whole map, sent while the read   *)
(* lock is held, then the changes its subscription collected.  On SIGINT   *)
(* the contexts are cancelled, the clients are told goodbye, and the       *)
(* process ends when all of them are done.  No write to a client has a     *)
(* deadline: one that does not read can hold its handler, and whoever      *)
(* waits for that, for ever.                                               *)
(*                                                                         *)
(* go-systemd is external: its watcher reports the units that changed      *)
(* since its last report, in batches, over an unbuffered channel, and nil  *)
(* for a unit that is gone.  The topic is external: a subscription keeps   *)
(* what is broadcast, in order, until it is cancelled.                     *)
(***************************************************************************)
EXTENDS Naturals, Sequences

CONSTANTS
    Unit,           \* the .service units
    State,          \* the states of a unit that the monitor shows
    Client,         \* websocket connections
    Reader,         \* the clients that keep reading what they are sent, or leave
    Initial,        \* the states systemd may be in when the process starts
    MaxChanges      \* bound: how often units change

Gone == "gone"      \* not loaded; not known
Known == State \cup {Gone}

ASSUME MonitorAssumption ==
    /\ Gone \notin State
    /\ Reader \subseteq Client
    /\ Initial \subseteq [Unit -> Known]
    /\ MaxChanges \in Nat

VARIABLES
    actual,         \* actual[u]: the unit's state in systemd
    reported,       \* reported[u]: what the watcher compares with
    pending,        \* the batch it holds for the listener
    listener,       \* where the listener is
    batch, row,     \* the rows it has to save and broadcast, the one in hand
    status,         \* status[u]: the map behind the lock
    client,         \* client[c]: where the connection's handler is
    left,           \* the clients that closed their connection
    toSend,         \* toSend[c]: the rows of the map still to be sent
    inbox,          \* inbox[c]: what the subscription collected
    view,           \* view[c]: the units as the client was last told, until it is gone
    process,        \* serving, signalled, server closed, exited
    changes

systemdVars == <<actual, changes>>
listenerVars == <<reported, pending, listener, batch, row, status>>
clientVars == <<client, left, toSend, inbox, view>>
vars == <<systemdVars, listenerVars, clientVars, process>>

Row == [unit : Unit, state : State]
NoRow == <<>>
Unknown == [u \in Unit |-> Gone]

\* A client counts for the shutdown (wsWg) from registered on.
Registered == {"registered", "subscribed", "snapshot", "stream", "ending"}
Subscribed == {"subscribed", "snapshot", "stream"}

TypeOK ==
    /\ actual \in [Unit -> Known]
    /\ reported \in [Unit -> Known]
    /\ pending \subseteq [unit : Unit, state : Known]
    /\ listener \in {"list", "next", "save", "broadcast", "stopped"}
    /\ batch \subseteq Row
    /\ row \in Row \cup {NoRow}
    /\ status \in [Unit -> Known]
    /\ client \in [Client -> Registered \cup {"off", "accepted", "goodbye", "closed"}]
    /\ left \subseteq Client
    /\ toSend \in [Client -> SUBSET Row]
    /\ inbox \in [Client -> Seq(Row)]
    /\ view \in [Client -> [Unit -> Known]]
    /\ process \in {"serving", "signalled", "closed", "exited"}
    /\ changes \in 0..MaxChanges

Init ==
    /\ actual \in Initial
    /\ reported = Unknown /\ pending = {}
    /\ listener = "list" /\ batch = {} /\ row = NoRow
    /\ status = Unknown
    /\ client = [c \in Client |-> "off"]
    /\ left = {}
    /\ toSend = [c \in Client |-> {}]
    /\ inbox = [c \in Client |-> <<>>]
    /\ view = [c \in Client |-> Unknown]
    /\ process = "serving"
    /\ changes = 0

-----------------------------------------------------------------------------
(* systemd and the watcher.                                                *)

Change(u, s) ==
    /\ changes < MaxChanges /\ s # actual[u]
    /\ changes' = changes + 1
    /\ actual' = [actual EXCEPT ![u] = s]

UnitChanges ==
    /\ \E u \in Unit, s \in Known : Change(u, s)
    /\ UNCHANGED <<listenerVars, clientVars, process>>

\* The rows of the units in U, as states f has them.
Rows(U, f) == {[unit |-> u, state |-> f[u]] : u \in U}
LoadedIn(f) == {u \in Unit : f[u] # Gone}

\* The watcher runs from SubscribeUnits on.
Watch ==
    LET changed == {u \in Unit : actual[u] # reported[u]}
    IN  /\ listener # "list" /\ pending = {} /\ changed # {}
        /\ pending' = Rows(changed, actual)
        /\ reported' = actual
        /\ UNCHANGED <<systemdVars, listener, batch, row, status, clientVars, process>>

-----------------------------------------------------------------------------
(* initializeListener.                                                     *)

\* The initial list, before the units are watched.
List ==
    /\ listener = "list"
    /\ listener' = "next"
    /\ batch' = Rows(LoadedIn(actual), actual)
    /\ UNCHANGED <<systemdVars, reported, pending, row, status, clientVars, process>>

\* Fault: nil is not skipped.
ReceiveGone ==
    /\ listener = "next" /\ batch = {} /\ pending # {}
    /\ batch' = pending
    /\ pending' = {}
    /\ UNCHANGED <<systemdVars, reported, listener, row, status, clientVars, process>>

\* A unit that is gone comes as nil and is skipped.
Receive ==
    /\ listener = "next" /\ batch = {} /\ pending # {}
    /\ batch' = {r \in pending : r.state # Gone}
    /\ pending' = {}
    /\ UNCHANGED <<systemdVars, reported, listener, row, status, clientVars, process>>

NextRow ==
    /\ listener = "next"
    /\ \E r \in batch : row' = r /\ batch' = batch \ {r}
    /\ listener' = "save"
    /\ UNCHANGED <<systemdVars, reported, pending, status, clientVars, process>>

\* Fault: the map is written without waiting for its readers.
SaveUnlocked ==
    /\ listener = "save"
    /\ status' = [status EXCEPT ![row.unit] = row.state]
    /\ listener' = "broadcast"
    /\ UNCHANGED <<systemdVars, reported, pending, batch, row, clientVars, process>>

\* Fault: a unit that is known is not written again.
SaveOnce ==
    /\ listener = "save"
    /\ \A c \in Client : client[c] # "snapshot"
    /\ status' = [status EXCEPT ![row.unit] = IF @ = Gone THEN row.state ELSE @]
    /\ listener' = "broadcast"
    /\ UNCHANGED <<systemdVars, reported, pending, batch, row, clientVars, process>>

\* From "save" on the writer waits for the lock and keeps new readers out.
Save ==
    /\ listener = "save"
    /\ \A c \in Client : client[c] # "snapshot"
    /\ status' = [status EXCEPT ![row.unit] = row.state]
    /\ listener' = "broadcast"
    /\ UNCHANGED <<systemdVars, reported, pending, batch, row, clientVars, process>>

Broadcast ==
    /\ listener = "broadcast"
    /\ inbox' = [c \in Client |->
                    IF client[c] \in Subscribed THEN Append(inbox[c], row) ELSE inbox[c]]
    /\ listener' = "next" /\ row' = NoRow
    /\ UNCHANGED <<systemdVars, reported, pending, batch, status,
                   client, left, toSend, view, process>>

\* The context of the listener is done.
StopListening ==
    /\ listener = "next" /\ batch = {} /\ process # "serving"
    /\ listener' = "stopped"
    /\ UNCHANGED <<systemdVars, reported, pending, batch, row, status, clientVars, process>>

ListenerStep ==
    List \/ Receive \/ NextRow \/ Save \/ Broadcast \/ StopListening

-----------------------------------------------------------------------------
(* StreamUnit.                                                             *)

GoTo(c, step) == client' = [client EXCEPT ![c] = step]
Told(c, r) == view' = [view EXCEPT ![c][r.unit] = r.state]

\* Fault: the subscription follows pctx only.
ListenDoneByClient(c) == c \in left

\* lctx (and with it the subscription) is done; pctx is done.
ListenDone(c) == c \in left \/ process # "serving"
PublishDone(c) == c \in left

Accept(c) ==
    /\ client[c] = "off" /\ process \in {"serving", "signalled"}
    /\ GoTo(c, "accepted")
    /\ UNCHANGED <<systemdVars, listenerVars, left, toSend, inbox, view, process>>

Register(c) ==
    /\ client[c] = "accepted"
    /\ GoTo(c, "registered")
    /\ UNCHANGED <<systemdVars, listenerVars, left, toSend, inbox, view, process>>

\* "simple protection against quick open-close connection": after a pause the
\* contexts are looked at.  They may end between that and the subscription.
Subscribe(c) ==
    /\ client[c] = "registered"
    /\ \/ GoTo(c, "subscribed")
       \/ ListenDone(c) /\ GoTo(c, "closed")
    /\ UNCHANGED <<systemdVars, listenerVars, left, toSend, inbox, view, process>>

ReadLock(c) ==
    /\ client[c] = "subscribed" /\ listener # "save"
    /\ GoTo(c, "snapshot")
    /\ toSend' = [toSend EXCEPT ![c] = Rows(LoadedIn(status), status)]
    /\ UNCHANGED <<systemdVars, listenerVars, left, inbox, view, process>>

SendRow(c) ==
    /\ client[c] = "snapshot" /\ ~PublishDone(c)
    /\ \E r \in toSend[c] :
          /\ Told(c, r)
          /\ toSend' = [toSend EXCEPT ![c] = @ \ {r}]
    /\ UNCHANGED <<systemdVars, listenerVars, client, left, inbox, process>>

\* Fault: the lock is kept when sending fails.
ReadUnlockAtEnd(c) ==
    /\ client[c] = "snapshot" /\ toSend[c] = {}
    /\ GoTo(c, "stream")
    /\ UNCHANGED <<systemdVars, listenerVars, left, toSend, inbox, view, process>>

\* All is sent, or sending failed: the lock is released.
ReadUnlock(c) ==
    /\ client[c] = "snapshot"
    /\ toSend[c] = {} \/ PublishDone(c)
    /\ GoTo(c, "stream")
    /\ toSend' = [toSend EXCEPT ![c] = {}]
    /\ UNCHANGED <<systemdVars, listenerVars, left, inbox, view, process>>

Forward(c) ==
    /\ client[c] = "stream" /\ ~PublishDone(c) /\ inbox[c] # <<>>
    /\ Told(c, Head(inbox[c]))
    /\ inbox' = [inbox EXCEPT ![c] = Tail(@)]
    /\ UNCHANGED <<systemdVars, listenerVars, client, left, toSend, process>>

\* The subscription ends; what it still holds may be lost.
EndStream(c) ==
    /\ client[c] = "stream" /\ ListenDone(c)
    /\ GoTo(c, IF PublishDone(c) THEN "closed" ELSE "ending")
    /\ inbox' = [inbox EXCEPT ![c] = <<>>]
    /\ view' = [view EXCEPT ![c] = Unknown]
    /\ UNCHANGED <<systemdVars, listenerVars, left, toSend, process>>

\* Who is still there is told goodbye.
SayGoodbye(c) ==
    /\ client[c] = "ending"
    /\ GoTo(c, IF PublishDone(c) THEN "closed" ELSE "goodbye")
    /\ UNCHANGED <<systemdVars, listenerVars, left, toSend, inbox, view, process>>

\* Fault: the map is sent first, and the subscription starts after it.
SubscribeLast(c) ==
    \/ Register(c) \/ SendRow(c) \/ Forward(c) \/ EndStream(c) \/ SayGoodbye(c)
    \/ /\ client[c] = "registered" /\ listener # "save"
       /\ GoTo(c, "snapshot")
       /\ toSend' = [toSend EXCEPT ![c] = Rows(LoadedIn(status), status)]
       /\ UNCHANGED <<systemdVars, listenerVars, left, inbox, view, process>>
    \/ /\ client[c] = "snapshot" /\ toSend[c] = {}
       /\ GoTo(c, "subscribed")
       /\ UNCHANGED <<systemdVars, listenerVars, left, toSend, inbox, view, process>>
    \/ /\ client[c] = "subscribed"
       /\ GoTo(c, "stream")
       /\ inbox' = [inbox EXCEPT ![c] = <<>>]
       /\ UNCHANGED <<systemdVars, listenerVars, left, toSend, view, process>>

ClientStep(c) ==
    \/ Register(c) \/ Subscribe(c) \/ ReadLock(c) \/ SendRow(c)
    \/ ReadUnlock(c) \/ Forward(c) \/ EndStream(c) \/ SayGoodbye(c)

\* The client closes the connection; the reader goroutine cancels both contexts.
Leave(c) ==
    /\ client[c] \in Registered \cup {"accepted"} /\ c \notin left
    /\ left' = left \cup {c}
    /\ view' = [view EXCEPT ![c] = Unknown]
    /\ UNCHANGED <<systemdVars, listenerVars, client, toSend, inbox, process>>

\* handleDbusCommand: the client has a unit started or stopped.
Command(c) ==
    /\ client[c] \in Registered /\ c \notin left
    /\ \E u \in Unit, s \in State : Change(u, s)
    /\ UNCHANGED <<listenerVars, clientVars, process>>

-----------------------------------------------------------------------------
(* main, startRouter.                                                      *)

Interrupt ==
    /\ process = "serving"
    /\ process' = "signalled"
    /\ UNCHANGED <<systemdVars, listenerVars, clientVars>>

\* Shutdown does not wait for connections that became websockets.
CloseServer ==
    /\ process = "signalled"
    /\ process' = "closed"
    /\ UNCHANGED <<systemdVars, listenerVars, clientVars>>

\* Fault: main does not wait for wsWg.
ExitAtOnce ==
    /\ process = "closed"
    /\ process' = "exited"
    /\ UNCHANGED <<systemdVars, listenerVars, clientVars>>

\* wsWg.Wait returns, and main with it.
Exit ==
    /\ process = "closed"
    /\ \A c \in Client : client[c] \notin Registered
    /\ process' = "exited"
    /\ UNCHANGED <<systemdVars, listenerVars, clientVars>>

Next ==
    /\ process # "exited"
    /\ \/ UnitChanges \/ Watch \/ ListenerStep
       \/ \E c \in Client : Accept(c) \/ ClientStep(c) \/ Leave(c) \/ Command(c)
       \/ Interrupt \/ CloseServer \/ Exit

\* The handler may be in a write to the client, which is still there.
Writing(c) ==
    /\ c \notin left
    /\ \/ client[c] = "snapshot" /\ toSend[c] # {}
       \/ client[c] = "stream" /\ inbox[c] # <<>>
       \/ client[c] = "ending"

\* Goroutines are scheduled, but a write returns only when the client reads or
\* leaves, which is promised of the Readers only.
Spec == Init /\ [][Next]_vars
FairSpec ==
    /\ Spec
    /\ WF_vars(process # "exited" /\ Watch)
    /\ WF_vars(process # "exited" /\ ListenerStep)
    /\ \A c \in Client :
          WF_vars(process # "exited" /\ (c \in Reader \/ ~Writing(c)) /\ ClientStep(c))
    /\ WF_vars(CloseServer) /\ WF_vars(Exit)

-----------------------------------------------------------------------------
(* Properties.                                                             *)

\* What client c will believe of unit u when everything on its way has arrived:
\* the last row in its inbox, or the one about to be broadcast, or its view.
Coming(c) ==
    IF listener = "broadcast" THEN Append(inbox[c], row) ELSE inbox[c]
Expects(c, u) ==
    LET rows == Coming(c)
        about == {i \in DOMAIN rows : rows[i].unit = u}
    IN  IF about = {} THEN view[c][u]
        ELSE rows[CHOOSE i \in about : \A k \in about : k <= i].state

\* A client never misses a change, whenever it connects: it subscribes before it
\* reads the map, and the map is written before the change is broadcast, so that
\* its view and what is on its way always add up to the map.
NothingMissed ==
    \A c \in Client \ left : client[c] = "stream" =>
        \A u \in Unit : Expects(c, u) = status[u]

\* The rows sent under the read lock are those of one moment: all that was sent
\* and is to be sent agrees with the map until the lock is released.
SnapshotOfOneMoment ==
    \A c \in Client \ left : client[c] = "snapshot" =>
        \A u \in Unit :
            status[u] = IF \E r \in toSend[c] : r.unit = u
                        THEN (CHOOSE r \in toSend[c] : r.unit = u).state
                        ELSE view[c][u]

\* All that systemd did was reported, saved and broadcast.
Settled ==
    /\ reported = actual /\ pending = {}
    /\ listener = "next" /\ batch = {}

\* When the monitor has settled, a client that has read all it was sent shows
\* every loaded unit as it is, whether the client came before the list was
\* made, while a unit was changing or after it.
SettledIsShown ==
    Settled =>
        \A c \in Client \ left :
            client[c] = "stream" /\ inbox[c] = <<>> =>
                \A u \in LoadedIn(actual) : view[c][u] = actual[u]

\* The map is sent with the lock held: while a client that does not read is being
\* sent it, the listener waits.
LockHeld ==
    \E c \in Client \ Reader : client[c] = "snapshot" /\ toSend[c] # {} /\ c \notin left

\* Once systemd is quiet, every client that reads and stays is told the state of
\* every unit that is loaded; clients that leave in the middle of a snapshot or
\* come at any time hold nobody up for good, and one that does not read only does
\* in the middle of its snapshot.
ClientsCatchUp ==
    \/ <>[]LockHeld
    \/ \A c \in Reader :
          client[c] = "stream" ~>
              \/ \A u \in LoadedIn(actual) : view[c][u] = actual[u]
              \/ c \in left \/ process # "serving"

\* A client that is being served when SIGINT comes and reads is told goodbye, unless
\* it leaves by itself, whatever the others do: the process waits for it, though
\* Shutdown does not.
ToldGoodbye ==
    \A c \in Reader :
        client[c] = "stream" /\ process = "signalled" ~> client[c] = "goodbye" \/ c \in left

\* After SIGINT the process ends, unless a client that neither reads nor leaves
\* keeps the handler in a write: nothing else the clients do can hold it.
ShutdownEnds ==
    \/ <>[](\E c \in Client \ Reader : Writing(c))
    \/ process = "signalled" ~> process = "exited"

-----------------------------------------------------------------------------
(* The inductive invariant of SystemdMonitor_proofs.tla: from the moment a *)
(* client subscribes, the last row of a unit on its way to the client is   *)
(* what the map says of the unit; a unit without a row on its way is       *)
(* covered by what the client was told, or will be sent.                   *)

LastRow(rows, i) ==
    i \in DOMAIN rows /\ \A k \in DOMAIN rows : i < k => rows[k].unit # rows[i].unit
NoRowOf(rows, u) == \A k \in DOMAIN rows : rows[k].unit # u

UpToDate(rows) ==
    \A i \in DOMAIN rows : LastRow(rows, i) => rows[i].state = status[rows[i].unit]

Connecting == {"off", "accepted", "registered"}

ClientInv(c) ==
    /\ client[c] \in Connecting => inbox[c] = <<>>
    /\ client[c] \in Connecting \cup {"subscribed"} => view[c] = Unknown
    /\ client[c] \in Subscribed => UpToDate(Coming(c))
    /\ client[c] = "snapshot" =>
          /\ \A r \in toSend[c] : r.state = status[r.unit]
          /\ \A u \in Unit : (\A r \in toSend[c] : r.unit # u) => view[c][u] = status[u]
    /\ client[c] = "stream" =>
          \A u \in Unit : NoRowOf(Coming(c), u) => view[c][u] = status[u]

MonitorInv ==
    /\ TypeOK
    /\ listener \in {"save", "broadcast"} => row \in Row
    /\ listener = "broadcast" => status[row.unit] = row.state
    /\ \A c \in Client \ left : ClientInv(c)

\* What was reported of a loaded unit is in the batch held for the listener, or
\* else among the rows to be saved, or else in hand, or else in the map.
About(rows, u) == {r \in rows : r.unit = u}
InHand == IF listener \in {"save", "broadcast"} THEN {row} ELSE {}
Newest(u) ==
    IF About(pending, u) # {} THEN About(pending, u)
    ELSE IF About(batch, u) # {} THEN About(batch, u)
    ELSE About(InHand, u)

SourceInv ==
    /\ listener = "list" => reported = Unknown
    /\ \A u \in LoadedIn(reported) :
          IF Newest(u) = {} THEN status[u] = reported[u]
          ELSE \A r \in Newest(u) : r.state = reported[u]
=============================================================================
