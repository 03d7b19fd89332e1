------------------------- MODULE SingleInstanceProofs -------------------------
(***************************************************************************)
(* The single instance, for any number of processes, shutdowns and kills,  *)
(* as long as no two starts run through _acquire at the same time.         *)
(***************************************************************************)
EXTENDS SingleInstance, TLAPS

(* OneOwner is not inductive: it holds because an owner's lock names it,   *)
(* so that a start either reads the owner's pid or is alone.               *)
OneStarter ==
  \A p, q \in Pids : pc[p] \in Acquiring /\ pc[q] \in Acquiring => p = q
LockNamesOwner ==
  \A p \in Pids : /\ Owner(p) => lock = [by |-> p, written |-> TRUE]
                  /\ pc[p] = "write" => lock = [by |-> p, written |-> FALSE]
OwnerIsProbed ==
  \A p, q \in Pids : pc[p] = "probe" /\ Owner(q) => holder[p] = q
UnlinksAlone ==
  \A p, q \in Pids : pc[p] = "unlink" => ~Owner(q)

SoleInv == TypeOK /\ OneStarter /\ LockNamesOwner /\ OwnerIsProbed /\ UnlinksAlone

LEMMA SoleInit == Init => SoleInv
BY SingleInstanceAssumption
   DEF Init, SoleInv, TypeOK, OneStarter, LockNamesOwner, OwnerIsProbed,
       UnlinksAlone, Owner, NoFile, Acquiring, Owning, Places

LEMMA SoleStep ==
  ASSUME ~Overlap, SoleInv, [Next]_vars
  PROVE  SoleInv'
<1> USE SingleInstanceAssumption
        DEF SoleInv, TypeOK, OneStarter, LockNamesOwner, OwnerIsProbed,
            UnlinksAlone, Owner, Alive, Go, NoFile, Acquiring, Owning, Places
<1>1. CASE UNCHANGED vars
  BY <1>1 DEF vars
<1>2. ASSUME NEW p \in Pids, Start(p) PROVE SoleInv'
  BY <1>2 DEF Start
<1>3. ASSUME NEW p \in Pids, OpenExclusive(p) PROVE SoleInv'
  <2>1. CASE lock = NoFile /\ lock' = [by |-> p, written |-> FALSE]
    <3>1. pc' = [pc EXCEPT ![p] = "write"] /\ UNCHANGED <<holder, socket, kills>>
      BY <1>3, <2>1 DEF OpenExclusive
    <3>2. \A q \in Pids : ~Owner(q)
      BY <2>1
    <3>3. \A q \in Pids \ {p} : pc[q] \notin Acquiring
      BY <1>3 DEF OpenExclusive
    <3>4. TypeOK' /\ OneStarter'
      BY <1>3, <2>1, <3>1, <3>3 DEF OpenExclusive
    <3>5. LockNamesOwner'
      BY <2>1, <3>1, <3>2, <3>3
    <3>6. OwnerIsProbed' /\ UnlinksAlone'
      BY <3>1, <3>2, <3>3
    <3> QED BY <3>4, <3>5, <3>6
  <2>2. CASE lock # NoFile
    BY <1>3, <2>2 DEF OpenExclusive
  <2> QED BY <1>3, <2>1, <2>2 DEF OpenExclusive
<1>4. ASSUME NEW p \in Pids, ReadHolder(p) PROVE SoleInv'
  BY <1>4 DEF ReadHolder
<1>5. ASSUME NEW p \in Pids, ProbeHolder(p) PROVE SoleInv'
  BY <1>5 DEF ProbeHolder
<1>6. ASSUME NEW p \in Pids, UnlinkStale(p) PROVE SoleInv'
  BY <1>6 DEF UnlinkStale
<1>7. ASSUME NEW p \in Pids, WritePid(p) PROVE SoleInv'
  <2>1. lock = [by |-> p, written |-> FALSE]
    BY <1>7 DEF WritePid
  <2>2. /\ pc' = [pc EXCEPT ![p] = "unsock"] /\ UNCHANGED <<holder, socket, kills>>
        /\ lock' = [by |-> p, written |-> TRUE]
    BY <1>7, <2>1 DEF WritePid
  <2>3. \A q \in Pids \ {p} : ~Owner(q) /\ pc[q] \notin Acquiring
    BY <1>7, <2>1 DEF WritePid
  <2>4. TypeOK' /\ OneStarter'
    BY <2>2, <2>3
  <2>5. LockNamesOwner'
    BY <2>2, <2>3
  <2>6. OwnerIsProbed' /\ UnlinksAlone'
    BY <2>2, <2>3
  <2> QED BY <2>4, <2>5, <2>6
<1>8. ASSUME NEW p \in Pids, UnlinkSocket(p) PROVE SoleInv'
  BY <1>8 DEF UnlinkSocket
<1>9. ASSUME NEW p \in Pids, Bind(p) PROVE SoleInv'
  BY <1>9 DEF Bind
<1>10. ASSUME NEW p \in Pids, Shutdown(p) PROVE SoleInv'
  BY <1>10 DEF Shutdown
<1>11. ASSUME NEW p \in Pids, Release(p) PROVE SoleInv'
  <2>1. CASE StillRobot(p)
    BY <2>1 DEF StillRobot
  <2>2. CASE ReleaseSocket(p)
    BY <2>2 DEF ReleaseSocket
  <2>3. CASE ReleaseLock(p)
    <3>1. /\ pc' = [pc EXCEPT ![p] = "off"] /\ UNCHANGED holder
          /\ lock' = NoFile /\ pc[p] = "unlock"
      BY <2>3 DEF ReleaseLock
    <3>2. \A q \in Pids \ {p} : ~Owner(q) /\ pc[q] # "write"
      BY <3>1
    <3>3. TypeOK' /\ OneStarter'
      BY <2>3, <3>1 DEF ReleaseLock
    <3> QED BY <3>1, <3>2, <3>3
  <2> QED BY <1>11, <2>1, <2>2, <2>3 DEF Release
<1>12. ASSUME NEW p \in Pids, Kill(p) PROVE SoleInv'
  BY <1>12 DEF Kill
<1> QED
  BY <1>1, <1>2, <1>3, <1>4, <1>5, <1>6, <1>7, <1>8, <1>9, <1>10, <1>11, <1>12
     DEF Next, Run, Acquire

(* At most one daemon runs if starts never overlap, whatever shutdowns and *)
(* kills fall between a start's system calls.                              *)
THEOREM ExclusiveWhenSerial ==
  ASSUME ~Overlap
  PROVE  Spec => []OneOwner
<1>1. SoleInv => OneOwner
  BY SingleInstanceAssumption DEF SoleInv, LockNamesOwner, OneOwner
<1>2. SoleInv /\ [Next]_vars => SoleInv'
  BY SoleStep
<1> QED BY <1>1, <1>2, SoleInit, PTL DEF Spec

(* The variables keep their types, with overlapping starts or without.     *)
THEOREM TypeCorrect == Spec => []TypeOK
<1>1. Init => TypeOK
  BY SingleInstanceAssumption DEF Init, TypeOK, NoFile, Places
<1>2. TypeOK /\ [Next]_vars => TypeOK'
  <2> SUFFICES ASSUME TypeOK, [Next]_vars PROVE TypeOK'
    OBVIOUS
  <2> USE SingleInstanceAssumption
          DEF TypeOK, Go, Alive, NoFile, Acquiring, Owning, Places
  <2>1. CASE UNCHANGED vars
    BY <2>1 DEF vars
  <2>2. ASSUME NEW p \in Pids, Start(p) \/ Kill(p) PROVE TypeOK'
    BY <2>2 DEF Start, Kill
  <2>3. ASSUME NEW p \in Pids, OpenExclusive(p) PROVE TypeOK'
    <3>1. CASE lock' = [by |-> p, written |-> FALSE] /\ Go(p, "write")
      BY <2>3, <3>1 DEF OpenExclusive
    <3>2. CASE Go(p, "read") /\ UNCHANGED lock
      BY <2>3, <3>2 DEF OpenExclusive
    <3> QED BY <2>3, <3>1, <3>2 DEF OpenExclusive
  <2>8. ASSUME NEW p \in Pids, ReadHolder(p) PROVE TypeOK'
    BY <2>8 DEF ReadHolder
  <2>4. ASSUME NEW p \in Pids, ProbeHolder(p) \/ UnlinkStale(p) PROVE TypeOK'
    BY <2>4 DEF ProbeHolder, UnlinkStale
  <2>5. ASSUME NEW p \in Pids, WritePid(p) PROVE TypeOK'
    <3>1. lock' \in [by: Pids, written: BOOLEAN] \cup {NoFile}
      <4>1. CASE lock = NoFile
        BY <2>5, <4>1 DEF WritePid
      <4>2. CASE lock \in [by: Pids, written: BOOLEAN]
        <5>1. (lock.written \/ lock.by = p) \in BOOLEAN
          BY <4>2, Zenon
        <5> QED BY <2>5, <4>2, <5>1 DEF WritePid
      <4> QED BY <4>1, <4>2
    <3> QED BY <2>5, <3>1 DEF WritePid
  <2>6. ASSUME NEW p \in Pids, UnlinkSocket(p) \/ Bind(p) \/ Shutdown(p) PROVE TypeOK'
    BY <2>6 DEF UnlinkSocket, Bind, Shutdown
  <2>7. ASSUME NEW p \in Pids, Release(p) PROVE TypeOK'
    BY <2>7 DEF Release, StillRobot, ReleaseSocket, ReleaseLock
  <2> QED
    BY <2>1, <2>2, <2>3, <2>4, <2>5, <2>6, <2>7, <2>8 DEF Next, Run, Acquire
<1> QED BY <1>1, <1>2, PTL DEF Spec

-----------------------------------------------------------------------------
(* The files.  The socket path is an owner's from the moment it cleared it *)
(* until it clears it again: only owners touch it, and there is one.       *)
SocketInv ==
  \A p \in Pids :
    /\ pc[p] = "connect" => socket = None
    /\ pc[p] = "serve" => socket = p
    /\ pc[p] \in {"still", "unbind"} => socket \in {p, None}

LEMMA SocketStep ==
  ASSUME SoleInv, SocketInv, [Next]_vars
  PROVE  SocketInv'
<1>1. TypeOK /\ \A p, q \in Pids : Owner(p) /\ Owner(q) => p = q
  BY SingleInstanceAssumption DEF SoleInv, LockNamesOwner
<1> USE <1>1 DEF SocketInv, Go, TypeOK, Owner, Owning
<1>2. CASE UNCHANGED vars
  BY <1>2 DEF vars
<1>3. ASSUME NEW p \in Pids, Start(p) \/ Kill(p) PROVE SocketInv'
  BY <1>3 DEF Start, Kill
<1>4. ASSUME NEW p \in Pids, Acquire(p) PROVE SocketInv'
  BY <1>4 DEF Acquire, OpenExclusive, ReadHolder, ProbeHolder, UnlinkStale, WritePid, UnlinkSocket
<1>5. ASSUME NEW p \in Pids, Bind(p) \/ Shutdown(p) PROVE SocketInv'
  BY <1>5 DEF Bind, Shutdown
<1>6. ASSUME NEW p \in Pids, Release(p) PROVE SocketInv'
  BY <1>6 DEF Release, StillRobot, ReleaseSocket, ReleaseLock
<1> QED
  BY <1>2, <1>3, <1>4, <1>5, <1>6 DEF Next, Run

(* No other process's cleanup takes a daemon's lock file or its socket     *)
(* away, if starts never overlap. (_acquire, _release)                     *)
THEOREM FilesKept ==
  ASSUME ~Overlap
  PROVE  Spec => []OwnerKeepsFiles
<1>1. Init => SocketInv
  BY DEF Init, SocketInv
<1>2. SoleInv /\ [Next]_vars => SoleInv'
  BY SoleStep
<1>3. SoleInv /\ SocketInv /\ [Next]_vars => SocketInv'
  BY SocketStep
<1>4. SoleInv /\ SocketInv => OwnerKeepsFiles
  BY DEF SoleInv, LockNamesOwner, SocketInv, OwnerKeepsFiles
<1> QED BY <1>1, <1>2, <1>3, <1>4, SoleInit, PTL DEF Spec

-----------------------------------------------------------------------------
(* Refusals.  A start whose pid no left-over lock names never reads its    *)
(* own pid from one, so the holder it finds alive is another process, and  *)
(* one that is past _acquire.                                              *)
NotOwnPid ==
  \A p \in Pids : /\ pc[p] \in {"open", "read"} => lock.by # p
                  /\ pc[p] = "probe" => holder[p] # p

LEMMA NotOwnPidStep ==
  ASSUME ~PidReuse, TypeOK, NotOwnPid, [Next]_vars
  PROVE  NotOwnPid'
<1> USE SingleInstanceAssumption DEF NotOwnPid, Go, TypeOK, NoFile
<1>1. CASE UNCHANGED vars
  BY <1>1 DEF vars
<1>2. ASSUME NEW p \in Pids, Start(p) \/ Kill(p) PROVE NotOwnPid'
  BY <1>2 DEF Start, Kill
<1>3. ASSUME NEW p \in Pids, OpenExclusive(p) PROVE NotOwnPid'
  BY <1>3 DEF OpenExclusive
<1>4. ASSUME NEW p \in Pids, ReadHolder(p) \/ ProbeHolder(p) PROVE NotOwnPid'
  BY <1>4 DEF ReadHolder, ProbeHolder
<1>5. ASSUME NEW p \in Pids, UnlinkStale(p) \/ UnlinkSocket(p) PROVE NotOwnPid'
  BY <1>5 DEF UnlinkStale, UnlinkSocket
<1>6. ASSUME NEW p \in Pids, WritePid(p) PROVE NotOwnPid'
  BY <1>6 DEF WritePid
<1>7. ASSUME NEW p \in Pids, Bind(p) \/ Shutdown(p) \/ Release(p) PROVE NotOwnPid'
  BY <1>7 DEF Bind, Shutdown, Release, StillRobot, ReleaseSocket, ReleaseLock
<1> QED
  BY <1>1, <1>2, <1>3, <1>4, <1>5, <1>6, <1>7 DEF Next, Run, Acquire

(* A start is refused only by a daemon that runs, past _acquire, if starts *)
(* never overlap and no start has the pid of a left-over lock; what        *)
(* happens with such a pid is _lock_holder_alive's known gap.              *)
THEOREM OnlyLiveRefuse ==
  ASSUME ~Overlap, ~PidReuse
  PROVE  Spec => RefusedByLive
<1>1. Init => NotOwnPid
  BY DEF Init, NotOwnPid
<1>2. SoleInv /\ [Next]_vars => SoleInv'
  BY SoleStep
<1>3. SoleInv /\ NotOwnPid /\ [Next]_vars => NotOwnPid'
  BY NotOwnPidStep DEF SoleInv
<1>4. SoleInv /\ NotOwnPid /\ [Next]_vars =>
        [\A p \in Pids : pc[p] = "probe" /\ pc'[p] = "off" /\ kills' = kills
           => \E q \in Pids \ {p} : Owner(q)]_vars
  <2> SUFFICES ASSUME SoleInv, NotOwnPid, Next,
                      NEW p \in Pids, pc[p] = "probe", pc'[p] = "off", kills' = kills
               PROVE  \E q \in Pids \ {p} : Owner(q)
    OBVIOUS
  <2>1. TypeOK /\ OneStarter
    BY DEF SoleInv
  <2>2. PICK q \in Pids : Start(q) \/ Run(q) \/ Shutdown(q) \/ Kill(q)
    BY DEF Next
  <2>3. q = p
    BY <2>1, <2>2 DEF TypeOK, Go, Start, Run, Shutdown, Kill, Acquire, Bind, Release, OpenExclusive,
       ReadHolder, ProbeHolder, UnlinkStale, WritePid, UnlinkSocket, StillRobot, ReleaseSocket,
       ReleaseLock
  <2>4. Alive(holder[p])
    <3>1. ~Kill(p)
      BY <2>1 DEF Kill, TypeOK
    <3>2. ProbeHolder(p)
      BY <2>2, <2>3, <3>1 DEF Start, Run, Shutdown, Acquire, Bind, Release, OpenExclusive,
         ReadHolder, ProbeHolder, UnlinkStale, WritePid, UnlinkSocket, StillRobot, ReleaseSocket,
         ReleaseLock
    <3> QED BY <2>1, <3>2 DEF ProbeHolder, Go, TypeOK
  <2>5. holder[p] \in Pids \ {p}
    BY <2>1 DEF TypeOK, NotOwnPid
  <2>6. pc[holder[p]] \notin Acquiring
    BY <2>1, <2>5 DEF OneStarter, Acquiring
  <2>7. pc[holder[p]] \in Places
    BY <2>1, <2>5 DEF TypeOK
  <2>8. Owner(holder[p])
    BY <2>4, <2>6, <2>7 DEF Alive, Owner, Places
  <2> QED BY <2>5, <2>8
<1> QED BY <1>1, <1>2, <1>3, <1>4, SoleInit, PTL DEF Spec, RefusedByLive
=============================================================================
