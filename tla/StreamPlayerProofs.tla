-------------------------- MODULE StreamPlayerProofs --------------------------
(***************************************************************************)
(* One stream player, for any number of blocks and any bounds: its outcome *)
(* is set once and true, and a stop leaves nothing behind.                 *)
(***************************************************************************)
EXTENDS StreamPlayer, TLAPS, SequenceTheorems

(* The outcome never changes once it is set. (_finished)                   *)
THEOREM OutcomeOnce == Spec => ResolvedOnce
<1>1. [Next]_vars => [outcome # None => outcome' = outcome]_vars
  BY DEF Next, Produce, Start, Callback, Stop, ReadSource, SourceFails, CheckPlayer, PutItem,
     PutTimesOut, CountBlock, Preroll, OpenStream, Publish, Discard, RunStream, PlayBlock,
     ReachSentinel, LoseDevice, StreamEnds, CallStop, RaiseFlag, Halt, Close, DrainQueue,
     Resolve, EndActive, Finished, vars
<1> QED BY <1>1, PTL DEF Spec, ResolvedOnce

-----------------------------------------------------------------------------
(* Threads and device.  A player is Dead when no stream runs and none can  *)
(* be started any more: what a stop makes sure of before it drains, by     *)
(* closing a published stream or by a flag that start() will see.          *)

Dead ==
  /\ ~Active /\ ~(starter = "start" /\ device = "open")
  /\ starter \in {"preroll", "open", "publish"} => stopping

ThreadType ==
  /\ starter \in {"preroll", "open", "publish", "start", "discard", "wait", "failed"}
  /\ device \in {"none", "open", "running", "draining", "aborting", "ended", "closed"}
  /\ producer \in {"read", "check", "put", "count", "over"}
  /\ stopper \in [Stoppers -> {"off", "flag", "halt", "close", "drain", "resolve", "done"}]
  /\ published \in BOOLEAN /\ preroll \in BOOLEAN /\ lost \in BOOLEAN /\ stopping \in BOOLEAN
  /\ outcome \in Outcomes \cup {None}

ThreadInv ==
  /\ ThreadType
  /\ \A s \in Stoppers : stopper[s] \notin {"off", "flag"} => stopping
  /\ starter = "discard" => stopping
  /\ published => starter \in {"start", "wait", "failed"}
  /\ starter = "start" => published
  /\ starter \in {"preroll", "open"} => device = "none"
  /\ Active => published
  /\ device = "aborting" => lost
  /\ lost => device \in {"aborting", "ended", "closed"}
  /\ outcome # None => Dead /\ (lost => outcome = "died")
  /\ \A s \in Stoppers : stopper[s] \in {"halt", "close"} => published
  /\ \A s \in Stoppers : stopper[s] \in {"drain", "resolve", "done"} => Dead
  /\ \A s \in Stoppers : stopper[s] = "done" => outcome # None
  /\ producer # "over" => stopper["producer"] = "off"

LEMMA ThreadStep == ThreadInv /\ [Next]_vars => ThreadInv'
<1> SUFFICES ASSUME ThreadInv, [Next]_vars PROVE ThreadInv'
  OBVIOUS
<1> USE StreamPlayerAssumption
    DEF ThreadInv, ThreadType, Dead, Active, Stoppers, Outcomes, producerVars, starterVars, stopVars
<1>1. CASE UNCHANGED vars
  BY <1>1 DEF vars
<1>2. CASE ReadSource
  BY <1>2 DEF ReadSource
<1>3. CASE SourceFails
  BY <1>3 DEF SourceFails
<1>4. CASE CheckPlayer
  BY <1>4 DEF CheckPlayer
<1>5. CASE PutItem
  BY <1>5 DEF PutItem
<1>6. CASE PutTimesOut
  BY <1>6 DEF PutTimesOut
<1>7. CASE CountBlock
  BY <1>7 DEF CountBlock
<1>8. CASE Preroll
  BY <1>8 DEF Preroll
<1>9. CASE OpenStream
  BY <1>9 DEF OpenStream
<1>10. CASE Publish
  BY <1>10 DEF Publish
<1>11. CASE Discard
  BY <1>11 DEF Discard, Finished
<1>12. CASE RunStream
  BY <1>12 DEF RunStream
<1>13. CASE PlayBlock
  BY <1>13 DEF PlayBlock
<1>14. CASE ReachSentinel
  BY <1>14 DEF ReachSentinel
<1>15. CASE LoseDevice
  BY <1>15 DEF LoseDevice
<1>16. CASE StreamEnds
  BY <1>16 DEF StreamEnds, Finished
<1>17. ASSUME NEW s \in Stoppers, CallStop(s) PROVE ThreadInv'
  BY <1>17 DEF CallStop, StopsTo
<1>18. ASSUME NEW s \in Stoppers, RaiseFlag(s) PROVE ThreadInv'
  BY <1>18 DEF RaiseFlag, StopsTo
<1>19. ASSUME NEW s \in Stoppers, Halt(s) PROVE ThreadInv'
  BY <1>19 DEF Halt, StopsTo, EndActive, Finished
<1>20. ASSUME NEW s \in Stoppers, Close(s) PROVE ThreadInv'
  BY <1>20 DEF Close, StopsTo, EndActive, Finished
<1>21. ASSUME NEW s \in Stoppers, DrainQueue(s) PROVE ThreadInv'
  BY <1>21 DEF DrainQueue, StopsTo
<1>22. ASSUME NEW s \in Stoppers, Resolve(s) PROVE ThreadInv'
  BY <1>22 DEF Resolve, StopsTo, Finished
<1> HIDE DEF ThreadInv
<1> QED
  BY <1>1, <1>2, <1>3, <1>4, <1>5, <1>6, <1>7, <1>8, <1>9, <1>10, <1>11, <1>12, <1>13, <1>14,
     <1>15, <1>16, <1>17, <1>18, <1>19, <1>20, <1>21, <1>22
     DEF Next, Produce, Start, Callback, Stop

LEMMA ThreadInit == Init => ThreadInv
  BY StreamPlayerAssumption
  DEF Init, ThreadInv, ThreadType, Dead, Active, Stoppers, Outcomes

-----------------------------------------------------------------------------
(* Blocks.  The queue holds blocks and, last, the sentinel that the        *)
(* producer puts when it is over.  A block is played, queued, or on its    *)
(* way to be counted; none is missing while nobody stopped the player and  *)
(* the device is there, so a drained stream has played them all.           *)

InFlight == given + (IF producer = "count" THEN 1 ELSE 0)
Marked   == queue # <<>> /\ queue[Len(queue)] = "sentinel"
Waiting  == Len(queue) - (IF Marked THEN 1 ELSE 0)
ToPut    == IF producer = "put" THEN 1 ELSE 0

QueueType ==
  /\ queue \in Seq(Items) /\ Len(queue) <= MaxBlocks
  /\ given \in 0..Blocks /\ played \in Nat
  /\ producer = "count" => given < Blocks

SentinelLast ==
  \A i \in 1..Len(queue) : queue[i] = "sentinel" =>
    i = Len(queue) /\ producer = "over" /\ given = Blocks

Counted ==
  /\ played + Waiting <= InFlight
  /\ ~Terminal /\ ~lost => played + Waiting = InFlight

AllPlayed == played = Blocks /\ queue = <<>> /\ ~lost /\ producer = "over"

Drained ==
  /\ device = "draining" => queue = <<>> /\ producer = "over" /\ (~stopping => AllPlayed)
  /\ outcome = "completed" => AllPlayed

Leftover ==
  (\E s \in Stoppers : stopper[s] \in {"resolve", "done"}) => Len(queue) + ToPut <= 1

QueueInv == QueueType /\ SentinelLast /\ Counted /\ Drained /\ Leftover

LEMMA QueueInit == Init => QueueInv
  BY StreamPlayerAssumption
  DEF Init, QueueInv, QueueType, SentinelLast, Counted, Drained, Leftover, AllPlayed, InFlight,
      Marked, Waiting, ToPut, Stoppers, Terminal

(* What taking the head of the queue does to the blocks that wait.         *)
LEMMA TailWaits ==
  ASSUME NEW q \in Seq(Items), q # <<>>
  PROVE  /\ Tail(q) \in Seq(Items) /\ Len(Tail(q)) = Len(q) - 1 /\ Len(q) \in Nat /\ Len(q) >= 1
         /\ Head(q) = q[1]
         /\ \A i \in 1..Len(Tail(q)) : Tail(q)[i] = q[i + 1] /\ i + 1 \in 1..Len(q)
         /\ Tail(q) # <<>> => Tail(q)[Len(Tail(q))] = q[Len(q)]
         /\ Tail(q) # <<>> <=> Len(q) > 1
<1>1. Tail(q) \in Seq(Items) /\ Len(Tail(q)) = Len(q) - 1
      /\ \A i \in 1..Len(Tail(q)) : Tail(q)[i] = q[i + 1]
  BY HeadTailProperties
<1>2. Len(q) \in Nat /\ Len(q) >= 1 /\ Head(q) = q[1]
  <2>1. Len(q) \in Nat /\ Len(q) # 0
    BY EmptySeq
  <2>2. Head(q) = q[1]
    OBVIOUS
  <2> QED BY <2>1, <2>2
<1>3. Tail(q) # <<>> <=> Len(q) > 1
  <2>1. Tail(q) # <<>> => Len(Tail(q)) \in Nat \ {0}
    BY <1>1, EmptySeq
  <2>2. Len(q) > 1 => Len(Tail(q)) # 0
    BY <1>1, <1>2
  <2>3. Len(q) > 1 => Tail(q) # <<>>
    BY <2>2, EmptySeq
  <2> QED BY <2>1, <2>3, <1>1, <1>2
<1> QED BY <1>1, <1>2, <1>3

(* Dropping the head keeps the rest of the queue in order.                 *)
LEMMA TakeHead ==
  ASSUME QueueInv, queue # <<>>, queue' = Tail(queue),
         UNCHANGED <<producer, given>>
  PROVE  /\ queue' \in Seq(Items) /\ Len(queue') = Len(queue) - 1
         /\ SentinelLast'
         /\ Head(queue) = "sentinel" =>
              queue' = <<>> /\ producer = "over" /\ given = Blocks /\ Waiting = 0 /\ Waiting' = 0
         /\ Head(queue) = "block" => Waiting' = Waiting - 1
         /\ Waiting' <= Waiting /\ Waiting \in Nat /\ Waiting' \in Nat
<1> USE DEF QueueInv, QueueType, Items
<1>1. queue \in Seq(Items) /\ queue # <<>>
  OBVIOUS
<1>2. /\ queue' \in Seq(Items) /\ Len(queue') = Len(queue) - 1 /\ Len(queue) \in Nat
      /\ Len(queue) >= 1 /\ Head(queue) = queue[1]
      /\ \A i \in 1..Len(queue') : queue'[i] = queue[i + 1] /\ i + 1 \in 1..Len(queue)
      /\ queue' # <<>> => queue'[Len(queue')] = queue[Len(queue)]
      /\ queue' # <<>> <=> Len(queue) > 1
  BY <1>1, TailWaits
<1>3. SentinelLast'
  <2> SUFFICES ASSUME NEW i \in 1..Len(queue'), queue'[i] = "sentinel"
               PROVE  i = Len(queue') /\ producer = "over" /\ given = Blocks
    BY DEF SentinelLast
  <2>1. i + 1 \in 1..Len(queue) /\ queue[i + 1] = "sentinel"
    BY <1>2
  <2>2. i + 1 = Len(queue) /\ producer = "over" /\ given = Blocks
    BY <2>1 DEF SentinelLast
  <2> QED BY <2>2, <1>2
<1>4. ASSUME Head(queue) = "sentinel"
      PROVE  queue' = <<>> /\ producer = "over" /\ given = Blocks /\ Waiting = 0 /\ Waiting' = 0
  <2>1. Len(queue) = 1 /\ producer = "over" /\ given = Blocks
    <3>1. 1 \in 1..Len(queue) /\ queue[1] = "sentinel"
      BY <1>2, <1>4
    <3> QED BY <3>1 DEF SentinelLast
  <2>2. queue' = <<>>
    BY <2>1, <1>2
  <2> QED BY <2>1, <2>2, <1>2, <1>4, <1>1 DEF Waiting, Marked
<1>5. ASSUME Head(queue) = "block"
      PROVE  Waiting' = Waiting - 1
  <2>1. Marked' <=> Marked
    BY <1>2, <1>5, <1>1 DEF Marked
  <2> QED BY <2>1, <1>2 DEF Waiting
<1>6. Waiting \in Nat /\ Waiting' \in Nat
  BY <1>1, <1>2 DEF Waiting, Marked
<1>7. Head(queue) \in {"block", "sentinel"}
  BY <1>1, HeadTailProperties
<1> QED BY <1>2, <1>3, <1>4, <1>5, <1>6, <1>7

(* The blocks that wait are at least none.                                 *)
LEMMA WaitingNat ==
  ASSUME queue \in Seq(Items) PROVE Waiting \in Nat /\ (queue = <<>> => Waiting = 0)
  BY EmptySeq, Len(queue) \in Nat DEF Waiting, Marked

LEMMA QueueStep == ThreadInv /\ QueueInv /\ [Next]_vars => QueueInv'
<1> SUFFICES ASSUME ThreadInv, QueueInv, [Next]_vars PROVE QueueInv'
  OBVIOUS
<1>w. Len(queue) \in Nat /\ Waiting \in Nat /\ (queue = <<>> => Waiting = 0)
  BY WaitingNat DEF QueueInv, QueueType
<1>k. ASSUME queue' = queue PROVE Waiting' = Waiting
  BY <1>k DEF Waiting, Marked
<1>d. Active => outcome = None
  BY DEF ThreadInv, Dead
<1> USE StreamPlayerAssumption, <1>w, <1>k, <1>d
    DEF ThreadInv, ThreadType, QueueInv, QueueType, SentinelLast, Counted, Drained, Leftover,
        AllPlayed, InFlight, ToPut, Terminal, Dead, Active, Stoppers, Outcomes, Items,
        producerVars, starterVars, stopVars
<1>1. CASE UNCHANGED vars
  BY <1>1 DEF vars
<1>2. CASE ReadSource
  BY <1>2 DEF ReadSource
<1>3. CASE SourceFails
  BY <1>3 DEF SourceFails
<1>4. CASE CheckPlayer
  BY <1>4 DEF CheckPlayer
<1>5. CASE PutItem
  <2>1. /\ Item \in Items /\ queue' = Append(queue, Item) /\ Len(queue) < MaxBlocks
        /\ queue' \in Seq(Items) /\ Len(queue') = Len(queue) + 1 /\ Len(queue) \in Nat
        /\ queue' # <<>> /\ queue'[Len(queue) + 1] = Item
        /\ \A i \in 1..Len(queue) : queue'[i] = queue[i]
    BY <1>5, AppendProperties DEF PutItem, Item
  <2>2. \A i \in 1..Len(queue) : queue[i] # "sentinel"
    BY <1>5 DEF PutItem
  <2>3. Waiting = Len(queue)
    BY <2>1, <2>2 DEF Waiting, Marked
  <2>4. Waiting' = Len(queue) + (IF Item = "block" THEN 1 ELSE 0)
    <3>1. queue'[Len(queue')] = Item
      BY <2>1
    <3>2. Marked' <=> Item = "sentinel"
      BY <2>1, <3>1 DEF Marked
    <3>3. Item \in {"block", "sentinel"}
      BY DEF Item
    <3>4. Waiting' = (Len(queue) + 1) - (IF Item = "sentinel" THEN 1 ELSE 0)
      BY <2>1, <3>2 DEF Waiting
    <3>5. CASE Item = "block"
      BY <2>1, <3>4, <3>5
    <3>6. CASE Item = "sentinel"
      BY <2>1, <3>4, <3>6
    <3> QED BY <3>3, <3>5, <3>6
  <2>5. SentinelLast'
    BY <1>5, <2>1, <2>2 DEF PutItem, Item
  <2>6. QueueType' /\ Counted'
    BY <1>5, <2>1, <2>3, <2>4 DEF PutItem, Item
  <2>7. Drained' /\ Leftover'
    BY <1>5, <2>1 DEF PutItem, Item
  <2> QED BY <2>5, <2>6, <2>7
<1>6. CASE PutTimesOut
  BY <1>6 DEF PutTimesOut
<1>7. CASE CountBlock
  BY <1>7 DEF CountBlock
<1>8. CASE Preroll
  BY <1>8 DEF Preroll
<1>9. CASE OpenStream
  BY <1>9 DEF OpenStream
<1>10. CASE Publish
  BY <1>10 DEF Publish
<1>11. CASE Discard
  BY <1>11 DEF Discard, Finished
<1>12. CASE RunStream
  BY <1>12 DEF RunStream
<1>13. CASE PlayBlock
  <2>1. /\ queue' \in Seq(Items) /\ Len(queue') = Len(queue) - 1 /\ SentinelLast'
        /\ Waiting' = Waiting - 1 /\ Waiting' \in Nat
    BY <1>13, TakeHead DEF PlayBlock
  <2>2. played' = played + 1 /\ UNCHANGED <<given, producer, lost, outcome, stopping>>
    BY <1>13 DEF PlayBlock
  <2>3. QueueType'
    BY <2>1, <2>2
  <2>4. Counted'
    BY <2>1, <2>2
  <2>5. Drained' /\ Leftover'
    BY <1>13, <2>1 DEF PlayBlock
  <2> QED BY <2>1, <2>3, <2>4, <2>5
<1>14. CASE ReachSentinel
  <2>1. /\ queue' \in Seq(Items) /\ Len(queue') = Len(queue) - 1 /\ SentinelLast'
        /\ queue' = <<>> /\ producer = "over" /\ given = Blocks /\ Waiting = 0 /\ Waiting' = 0
    BY <1>14, TakeHead DEF ReachSentinel
  <2>2. UNCHANGED <<given, producer, played, lost, outcome, stopping>>
    BY <1>14 DEF ReachSentinel
  <2>3. QueueType'
    BY <2>1, <2>2
  <2>4. Counted'
    BY <2>1, <2>2
  <2>5. ~lost /\ outcome = None
    BY <1>14 DEF ReachSentinel
  <2>6. ~stopping => played = Blocks
    BY <2>1, <2>5
  <2>7. \A s \in Stoppers : stopper'[s] \notin {"resolve", "done"}
    BY <1>14 DEF ReachSentinel
  <2>8. Drained'
    BY <2>1, <2>2, <2>5, <2>6
  <2>9. Drained' /\ Leftover'
    BY <2>7, <2>8
  <2> QED BY <2>1, <2>9, <2>3, <2>4
<1>15. CASE LoseDevice
  <2>1. CASE queue = <<>>
    BY <1>15, <2>1 DEF LoseDevice
  <2>2. CASE queue # <<>>
    <3>1. /\ queue' \in Seq(Items) /\ Len(queue') = Len(queue) - 1 /\ SentinelLast'
          /\ Waiting' <= Waiting /\ Waiting' \in Nat
      BY <1>15, <2>2, TakeHead DEF LoseDevice
    <3>2. lost' = TRUE /\ UNCHANGED <<given, producer, played, outcome, stopping>> /\ device' = "aborting"
      BY <1>15 DEF LoseDevice
    <3>3. \A s \in Stoppers : stopper'[s] \notin {"resolve", "done"}
      BY <1>15 DEF LoseDevice
    <3>4. QueueType'
      BY <3>1, <3>2
    <3>5. Counted'
      <4>1. played \in Nat /\ InFlight \in Nat /\ played + Waiting <= InFlight
        OBVIOUS
      <4>2. played + Waiting' <= InFlight
        <5>1. Waiting' \in Nat /\ Waiting' <= Waiting
          BY <3>1
        <5>2. \A p, w, v, n \in Nat : v <= w /\ p + w <= n => p + v <= n
          OBVIOUS
        <5> HIDE DEF InFlight, QueueInv, ThreadInv
        <5> QED BY <5>1, <5>2, <4>1, <1>w
      <4> QED BY <4>2, <3>2
    <3>6. outcome = None
      BY <1>15 DEF LoseDevice
    <3>7. Drained' /\ Leftover'
      BY <3>2, <3>3, <3>6
    <3> QED BY <3>1, <3>4, <3>5, <3>7
  <2> QED BY <2>1, <2>2
<1>16. CASE StreamEnds
  BY <1>16 DEF StreamEnds, Finished
<1>17. ASSUME NEW s \in Stoppers, CallStop(s) PROVE QueueInv'
  BY <1>17 DEF CallStop, StopsTo
<1>18. ASSUME NEW s \in Stoppers, RaiseFlag(s) PROVE QueueInv'
  BY <1>18 DEF RaiseFlag, StopsTo
<1>19. ASSUME NEW s \in Stoppers, Halt(s) PROVE QueueInv'
  BY <1>19 DEF Halt, StopsTo, EndActive, Finished
<1>20. ASSUME NEW s \in Stoppers, Close(s) PROVE QueueInv'
  BY <1>20 DEF Close, StopsTo, EndActive, Finished
<1>21. ASSUME NEW s \in Stoppers, DrainQueue(s) PROVE QueueInv'
  <2>1. Waiting' = 0 /\ Len(queue') = 0 /\ queue' = <<>> /\ queue' \in Seq(Items)
    BY <1>21 DEF DrainQueue, Waiting, Marked
  <2>2. stopping /\ stopping'
    BY <1>21 DEF DrainQueue
  <2> QED BY <1>21, <2>1, <2>2 DEF DrainQueue, StopsTo
<1>22. ASSUME NEW s \in Stoppers, Resolve(s) PROVE QueueInv'
  BY <1>22 DEF Resolve, StopsTo, Finished
<1> HIDE DEF ThreadInv, QueueInv
<1> QED
  BY <1>1, <1>2, <1>3, <1>4, <1>5, <1>6, <1>7, <1>8, <1>9, <1>10, <1>11, <1>12, <1>13, <1>14,
     <1>15, <1>16, <1>17, <1>18, <1>19, <1>20, <1>21, <1>22
     DEF Next, Produce, Start, Callback, Stop

-----------------------------------------------------------------------------
(* The theorems.                                                           *)

LEMMA PlayerHolds == Spec => [](ThreadInv /\ QueueInv)
<1>1. Init => ThreadInv /\ QueueInv
  BY ThreadInit, QueueInit
<1>2. ThreadInv /\ QueueInv /\ [Next]_vars => (ThreadInv /\ QueueInv)'
  BY ThreadStep, QueueStep
<1> QED BY <1>1, <1>2, PTL DEF Spec

(* The variables of a player keep their types; in particular no more       *)
(* blocks are played than the source has.                                  *)
THEOREM TypeCorrect == Spec => []TypeOK
<1>1. ThreadInv /\ QueueInv => TypeOK
  <2> SUFFICES ASSUME ThreadInv, QueueInv PROVE TypeOK
    OBVIOUS
  <2>1. Waiting \in Nat /\ played + Waiting <= InFlight /\ played \in Nat
    BY WaitingNat DEF QueueInv, QueueType, Counted
  <2>2. InFlight \in Nat /\ InFlight <= Blocks
    BY StreamPlayerAssumption DEF QueueInv, QueueType, InFlight
  <2>3. played \in 0..Blocks
    <3> HIDE DEF InFlight
    <3> QED BY <2>1, <2>2, StreamPlayerAssumption
  <2> QED BY <2>3 DEF ThreadInv, ThreadType, QueueInv, QueueType, TypeOK
<1> QED BY <1>1, PlayerHolds, PTL

(* A playback that says completed has played every block and kept none,    *)
(* and one whose device was lost says died. (_finished, the callback)      *)
THEOREM OutcomeIsTrue == Spec => []OutcomeTrue
<1>1. ThreadInv /\ QueueInv => OutcomeTrue
  BY DEF ThreadInv, QueueInv, Drained, AllPlayed, OutcomeTrue
<1> QED BY <1>1, PlayerHolds, PTL

(* Once a stop returned no device stream runs, the outcome is set and at   *)
(* most the item the producer was putting is left. (stop against start,    *)
(* enqueue and the callback)                                               *)
THEOREM NothingOrphaned == Spec => []NoOrphan
<1>1. ThreadInv /\ QueueInv => NoOrphan
  <2> SUFFICES ASSUME ThreadInv, QueueInv, NEW s \in Stoppers, stopper[s] = "done"
               PROVE  ~Active /\ outcome # None /\ Len(queue) <= 1
    BY DEF NoOrphan, LeftoverBounded
  <2>1. ~Active /\ outcome # None
    BY DEF ThreadInv, Dead
  <2>2. Len(queue) + ToPut <= 1 /\ Len(queue) \in Nat /\ ToPut \in {0, 1}
    BY DEF QueueInv, Leftover, QueueType, ToPut
  <2> QED BY <2>1, <2>2
<1> QED BY <1>1, PlayerHolds, PTL
=============================================================================
