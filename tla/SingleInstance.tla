---------------------------- MODULE SingleInstance ----------------------------
(***************************************************************************)
(* The life of daemon processes over one lock file and one socket path     *)
(* (DaemonServer.serve, _acquire, _lock_holder_alive and _release of       *)
(* daemon/server.py).  Each system call is a step, since the processes     *)
(* share nothing but the file system; a process may be killed between two  *)
(* steps and leaves its files behind.                                      *)
(***************************************************************************)
EXTENDS Integers

CONSTANTS
  Pids,     \* the process identifiers
  None,     \* no process
  Overlap,  \* whether a start may begin while another is in _acquire
  PidReuse, \* whether a start may get a pid that a left-over lock names
  MaxKills  \* bound: how many processes are killed

ASSUME SingleInstanceAssumption ==
  /\ None \notin Pids
  /\ Overlap \in BOOLEAN /\ PidReuse \in BOOLEAN /\ MaxKills \in Nat

VARIABLES
  pc,     \* what each process is about to do, "off" when there is none
  lock,   \* the lock file: who created it, and whether its pid is written
  holder, \* the pid each starting process read from the lock file
  socket, \* the process whose socket is at the socket path
  kills   \* how many processes were killed

vars == <<pc, lock, holder, socket, kills>>

NoFile    == [by |-> None, written |-> FALSE]
Acquiring == {"open", "read", "probe", "unlink", "write", "unsock"}
Owning    == {"unsock", "connect", "serve", "still", "unbind", "unlock"}
Places    == Acquiring \cup Owning \cup {"off"}

TypeOK ==
  /\ pc \in [Pids -> Places]
  /\ lock \in [by: Pids, written: BOOLEAN] \cup {NoFile}
  /\ holder \in [Pids -> Pids \cup {None}]
  /\ \A p \in Pids : pc[p] = "probe" => holder[p] # None
  /\ socket \in Pids \cup {None} /\ kills \in 0..MaxKills

Init ==
  /\ pc = [p \in Pids |-> "off"] /\ lock = NoFile
  /\ holder = [p \in Pids |-> None] /\ socket = None /\ kills = 0

Go(p, place) == pc' = [pc EXCEPT ![p] = place]
Alive(p)     == pc[p] # "off"

Start(p) ==
  /\ pc[p] = "off"
  /\ Overlap \/ \A q \in Pids : pc[q] \notin Acquiring
  /\ PidReuse \/ lock.by # p
  /\ Go(p, "open")
  /\ UNCHANGED <<lock, holder, socket, kills>>

-----------------------------------------------------------------------------
(* _acquire.                                                               *)

OpenExclusive(p) ==
  /\ pc[p] = "open"
  /\ \/ /\ lock = NoFile /\ lock' = [by |-> p, written |-> FALSE]
        /\ Go(p, "write")
     \/ lock # NoFile /\ Go(p, "read") /\ UNCHANGED lock
  /\ UNCHANGED <<holder, socket, kills>>

\* A plausible bug: an unreadable lock file is not caught.
ReadUncaught(p) ==
  /\ pc[p] = "read"
  /\ holder' = [holder EXCEPT ![p] = lock.by] /\ Go(p, "probe")
  /\ UNCHANGED <<lock, socket, kills>>

(* No file, or no number in it: not alive, so stale.                       *)
ReadHolder(p) ==
  /\ pc[p] = "read"
  /\ \/ lock.written /\ holder' = [holder EXCEPT ![p] = lock.by] /\ Go(p, "probe")
     \/ ~lock.written /\ Go(p, "unlink") /\ UNCHANGED holder
  /\ UNCHANGED <<lock, socket, kills>>

\* Plausible bugs: the holder is live once it accepts connections; any pid
\* in the lock counts as live; a refused start runs serve's cleanup.
ProbeBySocket(p) ==
  /\ pc[p] = "probe"
  /\ \/ pc[holder[p]] = "serve" /\ Go(p, "off")
     \/ pc[holder[p]] # "serve" /\ Go(p, "unlink")
  /\ holder' = [holder EXCEPT ![p] = None]
  /\ UNCHANGED <<lock, socket, kills>>
ProbeTrusting(p) ==
  /\ pc[p] = "probe" /\ Go(p, "off")
  /\ holder' = [holder EXCEPT ![p] = None]
  /\ UNCHANGED <<lock, socket, kills>>
ProbeCleaning(p) ==
  /\ pc[p] = "probe"
  /\ \/ Alive(holder[p]) /\ Go(p, "unbind")
     \/ ~Alive(holder[p]) /\ Go(p, "unlink")
  /\ holder' = [holder EXCEPT ![p] = None]
  /\ UNCHANGED <<lock, socket, kills>>

ProbeHolder(p) ==
  /\ pc[p] = "probe"
  /\ \/ Alive(holder[p]) /\ Go(p, "off")  \* DaemonAlreadyRunning
     \/ ~Alive(holder[p]) /\ Go(p, "unlink")
  /\ holder' = [holder EXCEPT ![p] = None]
  /\ UNCHANGED <<lock, socket, kills>>

\* A plausible bug: the stale lock is left where it is.
UnlinkForgotten(p) ==
  /\ pc[p] = "unlink" /\ Go(p, "open")
  /\ UNCHANGED <<lock, holder, socket, kills>>

UnlinkStale(p) ==
  /\ pc[p] = "unlink"
  /\ lock' = NoFile /\ Go(p, "open")
  /\ UNCHANGED <<holder, socket, kills>>

(* The pid goes to the file that was created, unlinked since or not.       *)
WritePid(p) ==
  /\ pc[p] = "write"
  /\ lock' = [lock EXCEPT !.written = @ \/ lock.by = p]
  /\ Go(p, "unsock")
  /\ UNCHANGED <<holder, socket, kills>>

UnlinkSocket(p) ==
  /\ pc[p] = "unsock"
  /\ socket' = None /\ Go(p, "connect")
  /\ UNCHANGED <<lock, holder, kills>>

-----------------------------------------------------------------------------
(* serve: connect to the robot, bind the socket, run until the shutdown or *)
(* an interrupt, still the robot, release.                                 *)

Bind(p) ==
  /\ pc[p] = "connect"
  /\ \/ socket' = p /\ Go(p, "serve")
     \/ UNCHANGED socket /\ Go(p, "still")  \* interrupted, or the bind fails
  /\ UNCHANGED <<lock, holder, kills>>

Shutdown(p) ==
  /\ pc[p] = "serve" /\ Go(p, "still")
  /\ UNCHANGED <<lock, holder, socket, kills>>

StillRobot(p) ==
  /\ pc[p] = "still" /\ Go(p, "unbind")
  /\ UNCHANGED <<lock, holder, socket, kills>>

ReleaseSocket(p) ==
  /\ pc[p] = "unbind"
  /\ socket' = None /\ Go(p, "unlock")
  /\ UNCHANGED <<lock, holder, kills>>

ReleaseLock(p) ==
  /\ pc[p] = "unlock"
  /\ lock' = NoFile /\ Go(p, "off")
  /\ UNCHANGED <<holder, socket, kills>>

Kill(p) ==
  /\ Alive(p) /\ kills < MaxKills
  /\ kills' = kills + 1 /\ Go(p, "off")
  /\ holder' = [holder EXCEPT ![p] = None]
  /\ UNCHANGED <<lock, socket>>

-----------------------------------------------------------------------------
Acquire(p) ==
  \/ OpenExclusive(p) \/ ReadHolder(p) \/ ProbeHolder(p)
  \/ UnlinkStale(p) \/ WritePid(p) \/ UnlinkSocket(p)
Release(p) == StillRobot(p) \/ ReleaseSocket(p) \/ ReleaseLock(p)
Run(p)     == Acquire(p) \/ Bind(p) \/ Release(p)

Next == \E p \in Pids : Start(p) \/ Run(p) \/ Shutdown(p) \/ Kill(p)

(* A running process goes on; nobody has to start, stop or kill one.       *)
Fairness == \A p \in Pids : WF_vars(Run(p))

Spec == Init /\ [][Next]_vars /\ Fairness

-----------------------------------------------------------------------------
(* Properties.                                                             *)

Owner(p) == pc[p] \in Owning

(* At most one process is past _acquire ("A single instance is enforced",  *)
(* daemon/server.py): two would hold two engines on one robot.             *)
OneOwner == \A p, q \in Pids : Owner(p) /\ Owner(q) => p = q

(* Whatever other starts, shutdowns and kills do, a daemon past _acquire   *)
(* keeps the lock file that names it, and one that serves is the one       *)
(* clients reach: nobody else's cleanup removes the live holder's files.   *)
OwnerKeepsFiles ==
  \A p \in Pids :
    /\ Owner(p) => lock = [by |-> p, written |-> TRUE]
    /\ pc[p] \in {"serve", "still", "unbind"} => socket \in {p, None}
    /\ pc[p] = "serve" => socket = p

(* A start is refused only because of a daemon that is running: the lock   *)
(* of a killed one never blocks the next.                                  *)
RefusedByLive ==
  [][\A p \in Pids :
       pc[p] = "probe" /\ pc'[p] = "off" /\ kills' = kills
         => \E q \in Pids \ {p} : Owner(q)]_vars

(* A start is settled: it serves, or is refused, killed or interrupted.    *)
StartSettles ==
  \A p \in Pids : pc[p] = "open" ~> pc[p] \in {"serve", "off"}
=============================================================================
