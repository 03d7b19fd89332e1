---- MODULE ConnectionProofs ----
(* The links of the held connection and the turns at its lock, for any number of clients, readers and
   chunks and any timeouts. *)
EXTENDS Connection, TLAPS, SequenceTheorems

\* What makes LinkKept inductive: while the task is at work the current client is
\* down and is not the one being connected, so that a connect that succeeds
\* replaces a link that is gone, and the task never stops for a link that came
\* up behind it. Nothing is at work before serve's own connect; closed stays.
TaskInv ==
  /\ client \in Clients \cup {NoClient} /\ links \subseteq Clients
  /\ task \in {"none", "ready", "connecting", "undoing"}
  /\ task \in {"none", "ready"} => trying = NoClient
  /\ task = "connecting" => trying \in Clients /\ trying # client
  /\ task # "none" /\ ~closed => client \notin links
  /\ serving = "starting" => task = "none" /\ links = {} /\ ~owed /\ ~closed
                             /\ lock = <<>> /\ left = 0
  /\ serving \in {"closing", "ended"} \/ task = "undoing" => closed

LinkInv == TaskInv /\ LinkKept

LEMMA LinkStep == LinkInv /\ [ConnectionNext]_connection => LinkInv'
<1> SUFFICES ASSUME LinkInv, [ConnectionNext]_connection PROVE LinkInv'
  OBVIOUS
<1> USE ConnectionAssumption
    DEF LinkInv, TaskInv, LinkKept, NoStrayLink, ReconnectOwed, IsConnected
<1>1. CASE UNCHANGED connection
  BY <1>1 DEF connection
<1>2. CASE Attempt
  BY <1>2 DEF Attempt, lockVars
<1>3. CASE Connects
  BY <1>3 DEF Connects, lockVars
<1>4. CASE Undo
  BY <1>4 DEF Undo, lockVars
<1>5. CASE ConnectFails
  BY <1>5 DEF ConnectFails, lockVars
<1>6. CASE SendFrame
  BY <1>6 DEF SendFrame, linkVars
<1>7. CASE \E r \in Readers: ReadBattery(r)
  BY <1>7 DEF ReadBattery, linkVars
<1>8. CASE Enter
  BY <1>8 DEF Enter, Scheduled, Leave
<1>9. CASE WriteChunk
  BY <1>9 DEF WriteChunk, Leave, linkVars
<1>10. CASE WriteFails
  BY <1>10 DEF WriteFails, Scheduled, Leave
<1>11. CASE ReadEnds
  BY <1>11 DEF ReadEnds, Leave, linkVars
<1>12. CASE EnsureReconnect
  BY <1>12 DEF EnsureReconnect, Scheduled, lockVars
<1>13. CASE Elapse
  BY <1>13 DEF Elapse, linkVars
<1>14. CASE Serve
  BY <1>14 DEF Serve, lockVars
<1>15. CASE StopServing
  BY <1>15 DEF StopServing, linkVars
<1>16. CASE Close
  BY <1>16 DEF Close, linkVars, lockVars
<1>17. CASE CancelLands
  BY <1>17 DEF CancelLands, lockVars
<1>18. CASE Disconnect
  BY <1>18 DEF Disconnect, lockVars
<1>19. CASE LinkUp
  BY <1>19 DEF LinkUp, lockVars
<1>20. CASE LinkDown
  BY <1>20 DEF LinkDown, lockVars
<1> QED
  BY <1>1, <1>2, <1>3, <1>4, <1>5, <1>6, <1>7, <1>8, <1>9, <1>10, <1>11, <1>12, <1>13,
     <1>14, <1>15, <1>16, <1>17, <1>18, <1>19, <1>20 DEF ConnectionNext

\* No link outlives its holder, but for those given up in the two ways NoStrayLink
\* names, and a link that was found down is worked on until it is back.
\* (DaemonConnection's _reconnect, send_frame and close)
THEOREM LinkHeld == ConnectionSpec => []LinkKept
<1>1. ConnectionInit => LinkInv
  BY ConnectionAssumption
     DEF ConnectionInit, LinkInv, TaskInv, LinkKept, NoStrayLink, ReconnectOwed
<1>2. LinkInv => LinkKept
  BY DEF LinkInv
<1> QED BY <1>1, <1>2, LinkStep, PTL DEF ConnectionSpec

---------------------------------------------------------------------------

\* What the sender has waited, by its place: each turn before it took at most
\* ReadTimeout, each chunk of its own at most WriteTimeout, and the operation
\* under way has taken opAge so far.
Waits ==
  \A i \in 1..Len(lock): lock[i] = Sender =>
    /\ i - 1 <= ahead
    /\ i > 1 => waited <= (ahead - (i - 1)) * ReadTimeout + opAge
    /\ i = 1 /\ left = 0 => waited <= ahead * ReadTimeout
    /\ i = 1 /\ left > 0 => waited <= ahead * ReadTimeout + (Chunks - left) * WriteTimeout + opAge

TurnInv ==
  /\ lock \in Seq(Readers \cup {Sender})
  /\ left \in 0..Chunks /\ opAge \in Nat /\ waited \in Nat /\ ahead \in Nat
  /\ left = 0 => opAge = 0
  /\ left > 0 => lock # <<>> /\ opAge <= Timeout
  /\ left > 0 /\ Head(lock) # Sender => left = 1
  /\ \A i, j \in 1..Len(lock): lock[i] = Sender /\ lock[j] = Sender => i = j
  /\ Waits

\* One turn more is one timeout more; the products are not linear for the solver.
LEMMA OneMore == \A a, t \in Nat: a * t \in Nat /\ (a + 1) * t = a * t + t
  OBVIOUS

LEMMA Monotone ==
  ASSUME NEW a \in Nat, NEW b \in Nat, NEW t \in Nat, a <= b
  PROVE  a * t <= b * t
<1>1. b = a + (b - a) /\ b - a \in Nat
  OBVIOUS
<1>2. (b - a) * t \in Nat
  BY <1>1, OneMore
<1>3. b * t = a * t + (b - a) * t
  OBVIOUS
<1> QED BY <1>2, <1>3, OneMore

\* The bound, at every place in the line.
LEMMA InBound == TurnInv => SendBounded
<1> SUFFICES ASSUME TurnInv, NEW i \in 1..Len(lock), lock[i] = Sender
             PROVE  waited <= ahead * ReadTimeout + Chunks * WriteTimeout
  BY DEF SendBounded, Contains
<1> USE ConnectionAssumption DEF TurnInv, Waits
<1>0. ahead * ReadTimeout \in Nat /\ Chunks * WriteTimeout \in Nat
  BY OneMore
<1>1. CASE i > 1
  <2>1. lock[1] # Sender
    BY <1>1
  <2>2. opAge <= ReadTimeout
    BY <2>1 DEF Timeout
  <2>3. ahead - (i - 1) \in Nat
    OBVIOUS
  <2>4. (ahead - (i - 1)) * ReadTimeout + ReadTimeout = (ahead - (i - 1) + 1) * ReadTimeout
    BY <2>3, OneMore
  <2>5. (ahead - (i - 1) + 1) * ReadTimeout <= ahead * ReadTimeout
    BY <1>1, <2>3, Monotone
  <2>6. waited <= (ahead - (i - 1)) * ReadTimeout + opAge
    BY <1>1
  <2>7. (ahead - (i - 1)) * ReadTimeout \in Nat
    BY <2>3, OneMore
  <2> QED BY <1>0, <2>2, <2>4, <2>5, <2>6, <2>7
<1>2. CASE i = 1 /\ left = 0
  BY <1>0, <1>2
<1>3. CASE i = 1 /\ left > 0
  <2>1. opAge <= WriteTimeout
    BY <1>3 DEF Timeout
  <2>2. Chunks - left \in Nat
    OBVIOUS
  <2>3. (Chunks - left) * WriteTimeout + WriteTimeout = (Chunks - left + 1) * WriteTimeout
    BY <2>2, OneMore
  <2>4. (Chunks - left + 1) * WriteTimeout <= Chunks * WriteTimeout
    BY <1>3, <2>2, Monotone
  <2>5. waited <= ahead * ReadTimeout + (Chunks - left) * WriteTimeout + opAge
    BY <1>3
  <2>6. (Chunks - left) * WriteTimeout \in Nat
    BY <2>2, OneMore
  <2> QED BY <1>0, <2>1, <2>3, <2>4, <2>5, <2>6
<1> QED BY <1>1, <1>2, <1>3

\* When the first one leaves, everybody moves up, and a reader that leaves has
\* used at most its timeout.
LEMMA LeaveTurn ==
  ASSUME TurnInv, lock # <<>>, Leave, UNCHANGED <<waited, ahead>>
  PROVE  TurnInv'
<1> USE ConnectionAssumption DEF TurnInv, Leave
<1>1. /\ lock' \in Seq(Readers \cup {Sender}) /\ Len(lock') = Len(lock) - 1
      /\ \A i \in 1..Len(lock'): lock'[i] = lock[i + 1] /\ i + 1 \in 1..Len(lock)
  BY HeadTailProperties
<1>2. Waits'
  <2> SUFFICES ASSUME NEW i \in 1..Len(lock'), lock'[i] = Sender
               PROVE  /\ i - 1 <= ahead
                      /\ waited <= (ahead - (i - 1)) * ReadTimeout
    <3>1. ahead * ReadTimeout = (ahead - (1 - 1)) * ReadTimeout
      OBVIOUS
    <3> QED BY <1>1, <3>1 DEF Waits
  <2>1. lock[i + 1] = Sender /\ i + 1 \in 1..Len(lock) /\ i + 1 > 1
    BY <1>1
  <2>2. i <= ahead /\ waited <= (ahead - i) * ReadTimeout + opAge
    <3>1. (i + 1) - 1 = i
      BY <1>1
    <3> QED BY <2>1, <3>1 DEF Waits
  <2>3. Head(lock) # Sender
    BY <2>1
  <2>4. opAge <= ReadTimeout
    BY <2>3 DEF Timeout
  <2>5. /\ ahead - i \in Nat /\ (ahead - i) + 1 = ahead - (i - 1)
    BY <2>2
  <2>6. (ahead - i) * ReadTimeout + ReadTimeout = (ahead - (i - 1)) * ReadTimeout
    BY <2>5, OneMore
  <2>7. (ahead - i) * ReadTimeout \in Nat
    BY <2>5, OneMore
  <2> QED BY <2>2, <2>4, <2>6, <2>7
<1>3. \A i, j \in 1..Len(lock'): lock'[i] = Sender /\ lock'[j] = Sender => i = j
  BY <1>1
<1> QED BY <1>1, <1>2, <1>3

\* Someone joins behind everybody.
LEMMA JoinTurn ==
  ASSUME TurnInv, NEW p \in Readers \cup {Sender}, ~Contains(lock, p),
         lock' = Append(lock, p), UNCHANGED <<left, opAge>>,
         \/ p # Sender /\ UNCHANGED <<waited, ahead>>
         \/ p = Sender /\ waited' = 0 /\ ahead' = Len(lock)
  PROVE  TurnInv'
<1> USE ConnectionAssumption DEF TurnInv
<1>1. /\ lock' \in Seq(Readers \cup {Sender}) /\ Len(lock') = Len(lock) + 1
      /\ \A i \in 1..Len(lock): lock'[i] = lock[i]
      /\ lock'[Len(lock) + 1] = p
  BY AppendProperties
<1>2. \A i \in 1..Len(lock): lock[i] # p
  BY DEF Contains
<1>3. \A i, j \in 1..Len(lock'): lock'[i] = Sender /\ lock'[j] = Sender => i = j
  BY <1>1, <1>2
<1>4. lock # <<>> => Head(lock') = Head(lock)
  BY <1>1
<1>5. Waits'
  <2> SUFFICES ASSUME NEW i \in 1..Len(lock'), lock'[i] = Sender
               PROVE  /\ i - 1 <= ahead'
                      /\ i > 1 => waited' <= (ahead' - (i - 1)) * ReadTimeout + opAge'
                      /\ i = 1 /\ left' = 0 => waited' <= ahead' * ReadTimeout
                      /\ i = 1 /\ left' > 0 =>
                           waited' <= ahead' * ReadTimeout + (Chunks - left') * WriteTimeout + opAge'
    BY DEF Waits
  <2>1. CASE p # Sender
    <3>1. i \in 1..Len(lock) /\ lock[i] = Sender
      BY <1>1, <2>1
    <3> QED BY <2>1, <3>1 DEF Waits
  <2>2. CASE p = Sender
    <3>1. i = Len(lock) + 1
      BY <1>1, <1>2, <2>2
    <3>2. i - 1 = ahead' /\ ahead' - (i - 1) = 0 /\ waited' = 0 /\ ahead' \in Nat
      BY <2>2, <3>1
    <3>3. /\ waited' <= (ahead' - (i - 1)) * ReadTimeout + opAge'
          /\ waited' <= ahead' * ReadTimeout
      <4>1. (ahead' - (i - 1)) * ReadTimeout = 0 * ReadTimeout
        BY <3>2, Zenon
      <4>2. 0 * ReadTimeout = 0 /\ opAge' \in Nat
        OBVIOUS
      <4>3. ahead' * ReadTimeout \in Nat
        BY <3>2, OneMore
      <4>4. (ahead' - (i - 1)) * ReadTimeout = 0
        BY <4>1, <4>2, Zenon
      <4>5. waited' <= ahead' * ReadTimeout
        <5>1. \A x \in Nat: 0 <= x
          OBVIOUS
        <5> QED BY <3>2, <4>3, <5>1, Zenon
      <4>6. waited' <= 0 + opAge'
        BY <3>2, <4>2
      <4> QED BY <4>4, <4>5, <4>6, Zenon
    <3>4. i = 1 => left' = 0
      BY <3>1
    <3>5. i - 1 <= ahead'
      BY <3>2
    <3> HIDE DEF TurnInv
    <3> QED BY <3>3, <3>4, <3>5
  <2> QED BY <2>1, <2>2
<1>6. (left > 0 => lock' # <<>> /\ opAge <= Timeout') /\ (left > 0 /\ Head(lock') # Sender => left = 1)
  BY <1>1, <1>4 DEF Timeout
<1> QED
  <2>1. CASE p # Sender
    BY <1>1, <1>3, <1>5, <1>6, <2>1
  <2>2. CASE p = Sender
    <3>1. Len(lock) \in Nat
      OBVIOUS
    <3> QED BY <1>1, <1>3, <1>5, <1>6, <2>2, <3>1
  <2> QED BY <2>1, <2>2

\* The holder begins: nobody's place changes, and no time has passed in its turn.
LEMMA BeginTurn ==
  ASSUME TurnInv, lock # <<>>, left = 0,
         left' = (IF Head(lock) = Sender THEN Chunks ELSE 1),
         UNCHANGED <<lock, opAge, waited, ahead>>
  PROVE  TurnInv'
<1> USE ConnectionAssumption DEF TurnInv
<1>1. left' \in 1..Chunks /\ opAge' = 0 /\ Timeout' \in Nat
  BY DEF Timeout
<1>2. Waits'
  <2> SUFFICES ASSUME NEW i \in 1..Len(lock), lock[i] = Sender
               PROVE  /\ i - 1 <= ahead
                      /\ i > 1 => waited <= (ahead - (i - 1)) * ReadTimeout + opAge
                      /\ i = 1 => waited <= ahead * ReadTimeout + (Chunks - left') * WriteTimeout + opAge
    BY <1>1 DEF Waits
  <2>1. CASE i > 1
    BY <2>1 DEF Waits
  <2>2. CASE i = 1
    <3>1. waited <= ahead * ReadTimeout /\ ahead * ReadTimeout \in Nat /\ i - 1 <= ahead
      BY <2>2, OneMore DEF Waits
    <3>2. Chunks - left' = 0
      BY <2>2
    <3>3. (Chunks - left') * WriteTimeout = 0 * WriteTimeout
      BY <3>2, Zenon
    <3>4. 0 * WriteTimeout = 0
      OBVIOUS
    <3>5. waited <= ahead * ReadTimeout + 0 + opAge
      BY <3>1
    <3>6. waited <= ahead * ReadTimeout + (Chunks - left') * WriteTimeout + opAge
      BY <3>3, <3>4, <3>5, Zenon
    <3> QED BY <2>2, <3>1, <3>6
  <2> QED BY <2>1, <2>2
<1> QED BY <1>1, <1>2

\* The sender's next chunk: the one before took at most WriteTimeout.
LEMMA ChunkTurn ==
  ASSUME TurnInv, left > 1, Head(lock) = Sender, left' = left - 1, opAge' = 0,
         UNCHANGED <<lock, waited, ahead>>
  PROVE  TurnInv'
<1> USE ConnectionAssumption DEF TurnInv
<1>1. lock # <<>> /\ lock[1] = Sender /\ left' \in 1..Chunks /\ 0 <= Timeout'
  BY DEF Timeout
<1>2. Waits'
  <2> SUFFICES waited <= ahead * ReadTimeout + (Chunks - left') * WriteTimeout + opAge'
    BY <1>1 DEF Waits
  <2>1. waited <= ahead * ReadTimeout + (Chunks - left) * WriteTimeout + opAge
    BY <1>1 DEF Waits
  <2>2. opAge <= WriteTimeout
    BY DEF Timeout
  <2>3. Chunks - left \in Nat /\ Chunks - left' = (Chunks - left) + 1
    OBVIOUS
  <2>4. /\ (Chunks - left) * WriteTimeout \in Nat
        /\ ((Chunks - left) + 1) * WriteTimeout = (Chunks - left) * WriteTimeout + WriteTimeout
    BY <2>3, OneMore
  <2>5. (Chunks - left') * WriteTimeout = (Chunks - left) * WriteTimeout + WriteTimeout
    BY <2>3, <2>4, Zenon
  <2>6. ahead * ReadTimeout \in Nat
    BY OneMore
  <2> QED BY <2>1, <2>2, <2>4, <2>5, <2>6
<1> QED BY <1>1, <1>2

\* The clock.
LEMMA ClockTurn == TurnInv /\ Elapse => TurnInv'
<1> SUFFICES ASSUME TurnInv, Elapse PROVE TurnInv'
  OBVIOUS
<1> USE ConnectionAssumption DEF TurnInv, Elapse
<1>1. opAge' \in Nat /\ waited' \in Nat /\ opAge' <= Timeout' /\ waited' <= waited + 1
  BY DEF Timeout
<1>2. Waits'
  <2> SUFFICES ASSUME NEW i \in 1..Len(lock), lock[i] = Sender
               PROVE  /\ i - 1 <= ahead
                      /\ i > 1 => waited' <= (ahead - (i - 1)) * ReadTimeout + (opAge + 1)
                      /\ i = 1 => waited' <= ahead * ReadTimeout + (Chunks - left) * WriteTimeout + (opAge + 1)
    BY DEF Waits
  <2>1. i - 1 <= ahead /\ ahead - (i - 1) \in Nat /\ Chunks - left \in Nat
    BY DEF Waits
  <2>2. /\ (ahead - (i - 1)) * ReadTimeout \in Nat /\ ahead * ReadTimeout \in Nat
        /\ (Chunks - left) * WriteTimeout \in Nat
    BY <2>1, OneMore
  <2>3. /\ i > 1 => waited <= (ahead - (i - 1)) * ReadTimeout + opAge
        /\ i = 1 => waited <= ahead * ReadTimeout + (Chunks - left) * WriteTimeout + opAge
    BY DEF Waits
  <2> QED BY <1>1, <2>1, <2>2, <2>3
<1> QED BY <1>1, <1>2

\* The cancelled sender leaves from wherever it is, and then it is not there.
LEMMA CancelTurn ==
  ASSUME TurnInv, NEW i \in DOMAIN lock, lock[i] = Sender, lock' = RemoveAt(lock, i),
         IF i = 1 THEN left' = 0 /\ opAge' = 0 ELSE UNCHANGED <<left, opAge>>,
         UNCHANGED <<waited, ahead>>
  PROVE  TurnInv'
<1> USE ConnectionAssumption DEF TurnInv
<1>1. i \in 1..Len(lock)
  OBVIOUS
<1>2. /\ lock' \in Seq(Readers \cup {Sender}) /\ Len(lock') = Len(lock) - 1
      /\ \A j \in 1..Len(lock'): lock'[j] = (IF j < i THEN lock[j] ELSE lock[j + 1])
  <2> DEFINE front == SubSeq(lock, 1, i - 1)  back == SubSeq(lock, i + 1, Len(lock))
  <2>1. /\ front \in Seq(Readers \cup {Sender}) /\ Len(front) = i - 1
        /\ \A j \in 1..(i - 1): front[j] = lock[j]
    BY <1>1
  <2>2. /\ back \in Seq(Readers \cup {Sender}) /\ Len(back) = Len(lock) - i
        /\ \A j \in 1..(Len(lock) - i): back[j] = lock[j + i]
    BY <1>1
  <2>3. lock' = front \o back
    BY DEF RemoveAt
  <2> HIDE DEF front, back
  <2>4. Len(front) + Len(back) = Len(lock) - 1
    BY <1>1, <2>1, <2>2
  <2>5. /\ lock' \in Seq(Readers \cup {Sender}) /\ Len(lock') = Len(front) + Len(back)
        /\ \A j \in 1..(Len(front) + Len(back)):
             lock'[j] = IF j <= Len(front) THEN front[j] ELSE back[j - Len(front)]
    <3>1. front \in Seq(Readers \cup {Sender}) /\ back \in Seq(Readers \cup {Sender})
      BY <2>1, <2>2
    <3>2. /\ front \o back \in Seq(Readers \cup {Sender})
          /\ Len(front \o back) = Len(front) + Len(back)
          /\ \A j \in 1..(Len(front) + Len(back)):
               (front \o back)[j] = IF j <= Len(front) THEN front[j] ELSE back[j - Len(front)]
      <4> DEFINE T == Readers \cup {Sender}
      <4>1. front \in Seq(T) /\ back \in Seq(T)
        BY <3>1
      <4> HIDE DEF T
      <4>2. front \o back \in Seq(T) /\ Len(front \o back) = Len(front) + Len(back)
        BY <4>1
      <4>3. \A j \in 1..(Len(front) + Len(back)):
              (front \o back)[j] = IF j <= Len(front) THEN front[j] ELSE back[j - Len(front)]
        BY <4>1
      <4> QED BY <4>2, <4>3 DEF T
    <3> QED BY <2>3, <3>2, Zenon
  <2>6. ASSUME NEW j \in 1..(Len(lock) - 1)
        PROVE  lock'[j] = (IF j < i THEN lock[j] ELSE lock[j + 1])
    <3>1. CASE j < i
      BY <1>1, <2>1, <2>4, <2>5, <3>1
    <3>2. CASE ~(j < i)
      <4>1. j - (i - 1) \in 1..(Len(lock) - i) /\ (j - (i - 1)) + i = j + 1
        BY <1>1, <3>2
      <4>2. lock'[j] = back[j - (i - 1)]
        BY <1>1, <2>1, <2>4, <2>5, <3>2
      <4> QED BY <2>2, <3>2, <4>1, <4>2
    <3> QED BY <3>1, <3>2
  <2> QED BY <2>4, <2>5, <2>6
<1>3. \A j \in 1..Len(lock'): lock'[j] # Sender
  BY <1>1, <1>2
<1>4. Waits'
  BY <1>3 DEF Waits
<1>5. left' > 0 => left = left' /\ opAge = opAge' /\ i > 1 /\ Head(lock') = Head(lock) /\ lock' # <<>>
  BY <1>1, <1>2
<1> QED BY <1>2, <1>3, <1>4, <1>5 DEF Timeout

LEMMA TurnStep == TurnInv /\ [ConnectionNext]_connection => TurnInv'
<1> SUFFICES ASSUME TurnInv, [ConnectionNext]_connection PROVE TurnInv'
  OBVIOUS
<1>1. CASE UNCHANGED lockVars
  BY <1>1 DEF lockVars, TurnInv, Waits, Timeout
<1>2. CASE SendFrame
  BY <1>2, JoinTurn DEF SendFrame, TurnInv
<1>3. CASE \E r \in Readers: ReadBattery(r)
  BY <1>3, JoinTurn, ConnectionAssumption DEF ReadBattery
<1>4. CASE Enter
  <2>1. CASE IsConnected
    BY <1>4, <2>1, BeginTurn DEF Enter
  <2>2. CASE ~IsConnected
    BY <1>4, <2>2, LeaveTurn DEF Enter
  <2> QED BY <2>1, <2>2
<1>5. CASE WriteChunk
  <2>1. left = 1 \/ left > 1
    BY <1>5 DEF WriteChunk, TurnInv
  <2>2. left > 0 => lock # <<>>
    BY DEF TurnInv
  <2> QED BY <1>5, <2>1, <2>2, LeaveTurn, ChunkTurn DEF WriteChunk
<1>6. CASE WriteFails
  BY <1>6, LeaveTurn DEF WriteFails, TurnInv
<1>7. CASE ReadEnds
  BY <1>7, LeaveTurn DEF ReadEnds, TurnInv
<1>8. CASE Elapse
  BY <1>8, ClockTurn
<1>9. CASE StopServing
  <2>1. CASE UNCHANGED <<lock, left, opAge>>
    BY <1>1, <1>9, <2>1 DEF StopServing, lockVars
  <2>2. CASE ~UNCHANGED <<lock, left, opAge>>
    BY <1>9, <2>2, CancelTurn DEF StopServing
  <2> QED BY <2>1, <2>2
<1> QED
  BY <1>1, <1>2, <1>3, <1>4, <1>5, <1>6, <1>7, <1>8, <1>9
     DEF ConnectionNext, connection, lockVars, Attempt, Connects, Undo, ConnectFails,
         EnsureReconnect, Serve, Close, CancelLands, Disconnect, LinkUp, LinkDown

\* However many status requests read the battery, a send waits for those before
\* it and no longer than their timeouts and its own. (send_frame, read_battery)
THEOREM SendsBounded == ConnectionSpec => []SendBounded
<1>1. ConnectionInit => TurnInv
  BY ConnectionAssumption DEF ConnectionInit, TurnInv, Waits
<1> QED BY <1>1, TurnStep, InBound, PTL DEF ConnectionSpec
====
