---- MODULE Connection ----
(* The daemon's held connection (daemon/connection.py) and the part of serve()
   (daemon/server.py) that opens and closes it: the tick's sends and the battery
   reads of status requests take one lock in turn, a background task reconnects,
   and a shutdown cancels the tick, stills the robot and closes. The tasks are
   asyncio's, so a step is what one of them does between two awaits. The BLE
   client is external: its link goes up and down by itself, a call of it ends
   well, fails, or hangs to its timeout, and a connect that is cancelled may have
   brought its link up already. disconnect takes a link down. What the frames say
   and the backoff between connects are left out. *)
EXTENDS Integers, FiniteSets, SequencesExt

CONSTANTS
  Clients,       \* the client objects the factory hands out, used again when forgotten
  Readers,       \* connections that ask for the status
  Sender,        \* the tick; after it, the frame that stills the robot
  Chunks,        \* writes to a frame
  ReadTimeout, WriteTimeout,
  NoClient,
  MaxLost        \* bound: links given up while they are up

ASSUME ConnectionAssumption ==
  /\ NoClient \notin Clients /\ Sender \notin Readers
  /\ Chunks \in Nat \ {0} /\ ReadTimeout \in Nat /\ WriteTimeout \in Nat

VARIABLES
  serving,       \* where serve() is
  closed,
  client,        \* _client
  links,         \* the clients whose link is up
  task,          \* _reconnect_task
  trying,        \* the client it connects
  lock,          \* _lock: its holder, then those who wait, in order
  left,          \* GATT operations its holder has yet to do; 0 before the first
  opAge,         \* time in the one it does
  waited,        \* time since the sender called
  ahead,         \* history: the readers it found before it
  owed,          \* history: a caller found the link down since it was last connected
  lost           \* history: clients nobody holds whose link was left up

connection == <<serving, closed, client, links, task, trying, lock, left, opAge,
                waited, ahead, owed, lost>>
linkVars == <<client, links, task, trying, owed, lost>>
lockVars == <<lock, left, opAge, waited, ahead>>

IsConnected == client \in links

---------------------------------------------------------------------------
(* The reconnect task: it loops until it is connected, or closed.            *)

\* _schedule_reconnect: one task at a time, none once closed.
Scheduled == IF closed \/ task # "none" THEN task ELSE "ready"

\* The loop's test, and the next client.
Attempt ==
  /\ task = "ready"
  /\ \/ /\ closed \/ IsConnected
        /\ task' = "none" /\ trying' = trying
     \/ /\ ~closed /\ ~IsConnected
        /\ \E c \in Clients \ (links \cup {client}): trying' = c
        /\ task' = "connecting"
  /\ UNCHANGED <<serving, closed, client, links, owed, lost, lockVars>>

\* connect() returns; a connection closed meanwhile is not resurrected.
Connects ==
  /\ task = "connecting" /\ trying \in links
  /\ IF closed THEN task' = "undoing" /\ UNCHANGED <<client, trying, owed>>
     ELSE task' = "none" /\ client' = trying /\ trying' = NoClient /\ owed' = FALSE
  /\ UNCHANGED <<serving, closed, links, lost, lockVars>>

Undo ==
  /\ task = "undoing" /\ task' = "none"
  /\ links' = links \ {trying} /\ trying' = NoClient
  /\ UNCHANGED <<serving, closed, client, owed, lost, lockVars>>

\* connect() raises, and the backoff passes.
ConnectFails ==
  /\ task = "connecting" /\ task' = "ready"
  /\ links' = links \ {trying} /\ trying' = NoClient
  /\ UNCHANGED <<serving, closed, client, owed, lost, lockVars>>

---------------------------------------------------------------------------
(* The lock and the operations under it.                                     *)

Leave == lock' = Tail(lock) /\ left' = 0 /\ opAge' = 0

\* send_frame is called ...
SendFrame ==
  /\ serving \in {"running", "stopping"} /\ ~Contains(lock, Sender)
  /\ serving' = IF serving = "stopping" THEN "stilling" ELSE serving
  /\ lock' = Append(lock, Sender)
  /\ waited' = 0 /\ ahead' = Len(lock)
  /\ UNCHANGED <<closed, left, opAge, linkVars>>

\* ... or read_battery, for a status request, outside the server's own lock.
ReadBattery(r) ==
  /\ serving \notin {"starting", "ended"} /\ ~Contains(lock, r)
  /\ lock' = Append(lock, r)
  /\ UNCHANGED <<serving, closed, left, opAge, waited, ahead, linkVars>>

\* A plausible bug: a send on a link that is down only raises.
EnterUnscheduled ==
  /\ lock # <<>> /\ left = 0
  /\ IF IsConnected
     THEN left' = (IF Head(lock) = Sender THEN Chunks ELSE 1) /\ UNCHANGED <<lock, opAge>>
     ELSE Leave
  /\ owed' = (owed \/ (~IsConnected /\ Head(lock) = Sender))
  /\ UNCHANGED <<serving, closed, client, links, task, trying, lost, waited, ahead>>

\* The lock is its first one's. On a link that is down a read answers nothing,
\* a send schedules the reconnect and raises.
Enter ==
  /\ lock # <<>> /\ left = 0
  /\ IF IsConnected
     THEN /\ left' = (IF Head(lock) = Sender THEN Chunks ELSE 1)
          /\ UNCHANGED <<lock, opAge, task, owed>>
     ELSE /\ Leave
          /\ task' = IF Head(lock) = Sender THEN Scheduled ELSE task
          /\ owed' = (owed \/ Head(lock) = Sender)
  /\ UNCHANGED <<serving, closed, client, links, trying, lost, waited, ahead>>

\* A chunk is written, the last one ends the send.
WriteChunk ==
  /\ left > 0 /\ Head(lock) = Sender /\ IsConnected
  /\ IF left = 1 THEN Leave ELSE left' = left - 1 /\ opAge' = 0 /\ lock' = lock
  /\ UNCHANGED <<serving, closed, waited, ahead, linkVars>>

\* A chunk's write fails, or has hung to its timeout: the client is given up
\* without a disconnect, the link it may still have up with it.
WriteFails ==
  /\ left > 0 /\ Head(lock) = Sender
  /\ IsConnected => Cardinality(lost) < MaxLost
  /\ client' = NoClient /\ task' = Scheduled /\ owed' = TRUE
  /\ lost' = lost \cup ({client} \cap links)
  /\ Leave
  /\ UNCHANGED <<serving, closed, links, trying, waited, ahead>>

\* The reading, none, a failure or the timeout: to the connection all alike.
ReadEnds ==
  /\ left > 0 /\ Head(lock) # Sender /\ Leave
  /\ UNCHANGED <<serving, closed, waited, ahead, linkVars>>

\* ensure_reconnect: the engine's tick has found the link down.
EnsureReconnect ==
  /\ serving = "running" /\ ~Contains(lock, Sender) /\ ~IsConnected
  /\ task' = Scheduled /\ owed' = TRUE
  /\ UNCHANGED <<serving, closed, client, links, trying, lost, lockVars>>

Timeout == IF Head(lock) = Sender THEN WriteTimeout ELSE ReadTimeout

\* A plausible bug: a read is not bounded.
ElapseInRead ==
  /\ left > 0 /\ (Head(lock) = Sender => opAge < WriteTimeout)
  /\ waited < 1 + Cardinality(Readers) * ReadTimeout + Chunks * WriteTimeout
  /\ opAge' = IF opAge < Timeout THEN opAge + 1 ELSE opAge
  /\ waited' = IF Contains(lock, Sender) THEN waited + 1 ELSE waited
  /\ UNCHANGED <<serving, closed, lock, left, ahead, linkVars>>

\* Time passes in an operation, up to what wait_for allows it.
Elapse ==
  /\ left > 0 /\ opAge < Timeout
  /\ opAge' = opAge + 1
  /\ waited' = IF Contains(lock, Sender) THEN waited + 1 ELSE waited
  /\ UNCHANGED <<serving, closed, lock, left, ahead, linkVars>>

---------------------------------------------------------------------------
(* serve() from its first connect, and the close.                            *)

\* A failed first connect is not fatal.
Serve ==
  /\ serving = "starting" /\ serving' = "running"
  /\ \/ \E c \in Clients: client' = c /\ links' = {c}
     \/ UNCHANGED <<client, links>>
  /\ UNCHANGED <<closed, task, trying, owed, lost, lockVars>>

\* The tick task is cancelled and awaited, in its own send too: it leaves the lock.
StopServing ==
  /\ serving = "running" /\ serving' = "stopping"
  /\ \/ ~Contains(lock, Sender) /\ UNCHANGED <<lock, left, opAge>>
     \/ \E i \in DOMAIN lock:
          /\ lock[i] = Sender /\ lock' = RemoveAt(lock, i)
          /\ IF i = 1 THEN left' = 0 /\ opAge' = 0 ELSE UNCHANGED <<left, opAge>>
  /\ UNCHANGED <<closed, waited, ahead, linkVars>>

\* close(), once the stilling frame is through, has failed or was refused.
Close ==
  /\ serving = "stilling" /\ ~Contains(lock, Sender)
  /\ serving' = "closing" /\ closed' = TRUE
  /\ UNCHANGED <<linkVars, lockVars>>

\* The cancellation reaches the task, at its start, in the backoff, or in a
\* connect whose link may be up.
CancelLands ==
  /\ serving = "closing" /\ task \in {"ready", "connecting"}
  /\ task' = "none" /\ trying' = NoClient
  /\ lost' = lost \cup ({trying} \cap links)
  /\ UNCHANGED <<serving, closed, client, links, owed, lockVars>>

\* A plausible bug: the cancelled task is not awaited.
DisconnectAtOnce ==
  /\ serving = "closing"
  /\ serving' = "ended" /\ client' = NoClient /\ links' = links \ {client}
  /\ UNCHANGED <<closed, task, trying, owed, lost, lockVars>>

\* The task is over; a client that is there is disconnected, and serve ends.
Disconnect ==
  /\ serving = "closing" /\ task = "none"
  /\ serving' = "ended" /\ client' = NoClient /\ links' = links \ {client}
  /\ UNCHANGED <<closed, task, trying, owed, lost, lockVars>>

---------------------------------------------------------------------------
(* The links themselves.                                                     *)

LinkUp ==
  /\ task = "connecting" /\ trying \notin links /\ links' = links \cup {trying}
  /\ UNCHANGED <<serving, closed, client, task, trying, owed, lost, lockVars>>

LinkDown ==
  /\ \E c \in links: links' = links \ {c} /\ lost' = lost \ {c}
  /\ UNCHANGED <<serving, closed, client, task, trying, owed, lockVars>>

ConnectionInit ==
  /\ serving = "starting" /\ closed = FALSE /\ client = NoClient /\ links = {}
  /\ task = "none" /\ trying = NoClient
  /\ lock = <<>> /\ left = 0 /\ opAge = 0 /\ waited = 0 /\ ahead = 0
  /\ owed = FALSE /\ lost = {}

ConnectionNext ==
  \/ Attempt \/ Connects \/ Undo \/ ConnectFails
  \/ SendFrame \/ (\E r \in Readers: ReadBattery(r)) \/ Enter
  \/ WriteChunk \/ WriteFails \/ ReadEnds \/ EnsureReconnect \/ Elapse
  \/ Serve \/ StopServing \/ Close \/ CancelLands \/ Disconnect
  \/ LinkUp \/ LinkDown

ConnectionSpec == ConnectionInit /\ [][ConnectionNext]_connection

---------------------------------------------------------------------------
(* Properties.                                                               *)

\* A send's whole wait is bounded by the timeouts of the reads it found before
\* it and of its own writes: a read that comes later never delays it, and none
\* holds the lock for longer, so a robot that answers nothing cannot keep the
\* tick, and with it the heartbeat, from going on. (READ and WRITE_TIMEOUT)
SendBounded ==
  Contains(lock, Sender) => waited <= ahead * ReadTimeout + Chunks * WriteTimeout

\* Every link that is up is the current client's or that of the connect under
\* way, and after close() there is neither, nor a task to make one ("a stray
\* reconnect finishing after teardown would hold a robot no one is driving");
\* but for the two places that forget a client without a disconnect: a write
\* that failed on a link that was up, and a connect cancelled when its link was.
NoStrayLink ==
  /\ links \subseteq {client, trying} \cup lost
  /\ serving = "ended" => task = "none" /\ client = NoClient /\ links \subseteq lost

\* A caller that found the link down has a task at work on it until it is
\* connected again. (_schedule_reconnect's test of the task that is there)
ReconnectOwed == owed /\ ~closed => task # "none"

LinkKept == NoStrayLink /\ ReconnectOwed
====
