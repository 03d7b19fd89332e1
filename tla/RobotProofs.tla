----------------------------- MODULE RobotProofs -----------------------------
(***************************************************************************)
(* Proofs about the engine together with the robot it commands: what the   *)
(* servos see of the joint guard, how long the robot can be left without a *)
(* frame, and that a stop brings the arms down, for every value of the     *)
(* constants the theorems name.                                            *)
(***************************************************************************)
EXTENDS EngineRobot, QueueProofs

-----------------------------------------------------------------------------
(* Every step here is a step of the engine, and moves its loop like this.  *)

LEMMA RobotIsEngine == [RobotNext]_allVars => [Next]_vars
BY Zenon DEF RobotNext, RobotTick, TargetReceived, TriggerReceived, BeatReceived, Working,
       Aging, Asked, SpeechEnds, LinkFails, LinkBack, allVars,
       Next, Control, Stop, Tick, Sent, Outside

LEMMA RequestsKeepLoop ==
  ASSUME Asked \/ SpeechEnds \/ LinkFails \/ LinkBack
  PROVE  UNCHANGED <<loopVars, sentVars, paused>>
<1>1. CASE Asked
  BY <1>1, Zenon DEF Asked, StopFresh, StopAgain, Enqueue, Clear, linkVars
<1>2. CASE SpeechEnds
  BY <1>2, Zenon DEF SpeechEnds, SayEnds, linkVars
<1>3. CASE LinkFails
  BY <1>3, Zenon DEF LinkFails, LinkDrop
<1>4. CASE LinkBack
  BY <1>4, Zenon DEF LinkBack, Reconnect
<1> QED BY <1>1, <1>2, <1>3, <1>4

Slept == phase' = "sleep" /\ elapsed' = 0
Goes(phases) == phase' \in phases /\ elapsed' = elapsed

LEMMA AdvanceLoop ==
  ASSUME Advance
  PROVE  /\ phase \in Sync /\ UNCHANGED <<sentVars, linkVars>>
         /\ Goes(Sync) \/ Slept
<1> USE DEF loopVars
<1>1. CASE PruneTrack
  BY <1>1, Zenon DEF PruneTrack, Goes, Sync
<1>2. CASE StartAdvance
  BY <1>2 DEF StartAdvance, Goes, Sync
<1>3. CASE AdvanceDone
  BY <1>3 DEF AdvanceDone, Goes, Sync
<1>4. CASE TakeAny
  BY <1>4 DEF TakeAny, TakeMovement, TakePause, TakeSay, TakeTrigger, TakeFace,
              Take, CanTake, Continue, Hold, Sleep, Goes, Slept, Sync
<1> QED BY <1>1, <1>2, <1>3, <1>4 DEF Advance

LEMMA EmitLoop ==
  ASSUME NEW frames, NEW guarded, NEW floorPassed, EmitNext(frames, guarded, floorPassed)
  PROVE  Goes(Sending) \/ Slept
BY DEF EmitNext, Sleep, Goes, Slept, Sending

LEMMA ComposeLoop ==
  ASSUME ComposeAndEmit
  PROVE  /\ phase = "compose" /\ UNCHANGED <<sentVars, linkVars>>
         /\ Goes(Sending) \/ Slept
<1>1. phase = "compose" /\ UNCHANGED <<sentVars, linkVars>>
  BY Zenon DEF ComposeAndEmit
<1>2. Sleep \/ EmitNext(triggers, Guard(Composed), writeAge = SilenceFloor)
  BY Zenon DEF ComposeAndEmit
<1> QED BY <1>1, <1>2, EmitLoop DEF Sleep, Slept

-----------------------------------------------------------------------------
(* The servos' floor.  The engine dates a change by the start of its tick, *)
(* so its ages lead the servos' by the time a tick's sends take; and while *)
(* the link has held, what it sent last is what the robot received last.   *)

Mirrored == clean => link = "up" /\ ~paused /\ wire = LastTarget
Punctual == elapsed <= IF phase = "sleep" THEN TickInterval ELSE SendBound
Dated    == clean => \A j \in Joints : jointAge[j] <= wireAge[j] + SendBound
WireInv  ==
  SafeInv /\ wireAge \in [Joints -> 0..SafeHold] /\ clean \in BOOLEAN /\ Mirrored /\ Punctual /\ Dated

LEMMA PunctualStep ==
  ASSUME TypeOK, Punctual, [RobotNext]_allVars
  PROVE  Punctual'
<1> USE EngineAssumption DEF TypeOK, Punctual
<1>1. CASE UNCHANGED loopVars
  BY <1>1 DEF loopVars
<1>2. CASE Slept
  BY <1>2 DEF Slept
<1>3. CASE Goes(Sync \cup Sending) /\ phase # "sleep"
  BY <1>3 DEF Goes, Sync, Sending
<1>4. CASE TickPaused
  BY <1>4 DEF TickPaused
<1>5. CASE TickBegin
  <2>1. phase' = "prune" /\ elapsed' = 0
    BY <1>5, Zenon DEF TickBegin
  <2> QED BY <2>1
<1>6. CASE Elapse
  <2>1. phase' = phase
    BY <1>6 DEF Elapse
  <2>2. \/ phase = "sleep" /\ elapsed' = AtMost(elapsed + 1, TickInterval)
        \/ /\ phase \in Sending /\ elapsed < SendBound
           /\ elapsed' = AtMost(elapsed + 1, AgeCap)
    BY <1>6, Zenon DEF Elapse
  <2> QED BY <2>1, <2>2, AgeCapTyping DEF AtMost, Sending
<1>7. CASE RobotTick
  <2>1. CASE Advance
    BY <2>1, <1>2, <1>3, AdvanceLoop DEF Sync, Goes
  <2>2. CASE ComposeAndEmit
    BY <2>2, <1>2, <1>3, ComposeLoop DEF Goes
  <2>3. CASE SendFailed \/ TargetSent \/ BeatSent
    <3>1. Sleep BY <2>3 DEF SendFailed, TargetSent, BeatSent
    <3> QED BY <3>1, <1>2 DEF Sleep, Slept
  <2>4. CASE TriggerSent
    <3>1. phase = "trigger" /\ EmitNext(Tail(triggers), target, FALSE)
      BY <2>4 DEF TriggerSent
    <3> QED BY <3>1, <1>2, <1>3, EmitLoop DEF Goes
  <2> QED BY <1>4, <1>5, <1>7, <2>1, <2>2, <2>3, <2>4
          DEF RobotTick, TargetReceived, TriggerReceived, BeatReceived, Working, Unsent
<1>8. CASE Asked \/ SpeechEnds \/ LinkFails \/ LinkBack
  BY <1>1, <1>8, RequestsKeepLoop
<1>9. CASE UNCHANGED allVars
  BY <1>1, <1>9 DEF allVars, vars
<1> QED BY <1>6, <1>7, <1>8, <1>9 DEF RobotNext, Aging

(* What a step does to `clean` and to the link it stands for.              *)
LEMMA CleanStep ==
  ASSUME clean \in BOOLEAN, Mirrored, [RobotNext]_allVars
  PROVE  /\ clean' \in BOOLEAN /\ (clean' => clean)
         /\ clean' => link' = "up" /\ ~paused'
<1> USE DEF Mirrored
<1>1. CASE Working
  <2>1. clean' = (clean /\ link' = "up") BY <1>1 DEF Working, Rebooting
  <2>2. clean' => ~paused'
    <3>1. CASE TickPaused
      BY <2>1, <3>1 DEF TickPaused
    <3>2. CASE TickBegin
      BY <3>2 DEF TickBegin, ResumeAfterOutage
    <3>3. CASE Advance
      BY <2>1, <3>3, AdvanceLoop DEF linkVars
    <3>4. CASE ComposeAndEmit
      BY <2>1, <3>4, ComposeLoop DEF linkVars
    <3>5. CASE SendFailed
      BY <2>1, <3>5 DEF SendFailed
    <3> QED BY <1>1, <3>1, <3>2, <3>3, <3>4, <3>5 DEF Working, Unsent
  <2> QED BY <2>1, <2>2
<1>2. CASE SpeechEnds \/ LinkFails \/ LinkBack
  <2>1. clean' = (clean /\ link' = "up")
    BY <1>2 DEF SpeechEnds, LinkFails, LinkBack, Surrounds, Rebooting
  <2>2. paused' = paused
    BY <1>2, RequestsKeepLoop
  <2>3. (clean /\ link' = "up") \in BOOLEAN
    OBVIOUS
  <2> QED BY <2>1, <2>2, <2>3, Zenon
<1>3. CASE TargetReceived \/ TriggerReceived \/ BeatReceived
  <2>1. clean' = clean
    BY <1>3 DEF TargetReceived, TriggerReceived, BeatReceived
  <2>2. UNCHANGED linkVars
    BY <1>3, Zenon DEF TargetReceived, TriggerReceived, BeatReceived,
                       TargetSent, TriggerSent, BeatSent
  <2> QED BY <2>1, <2>2 DEF linkVars
<1>4. CASE Aging
  BY <1>4, Zenon DEF Aging, Elapse, linkVars
<1>5. CASE Asked
  <2>1. UNCHANGED linkVars
    BY <1>5, Zenon DEF Asked, StopFresh, StopAgain, Enqueue, Clear
  <2> QED BY <1>5, <2>1 DEF Asked, linkVars
<1>6. CASE UNCHANGED allVars
  BY <1>6 DEF allVars, vars, linkVars
<1> QED BY <1>1, <1>2, <1>3, <1>4, <1>5, <1>6 DEF RobotNext, RobotTick

(* Apart from the arrival of a target and from time, nothing moves the     *)
(* servos' line or its ages while the link holds.                          *)
LEMMA WireAlone ==
  ASSUME Mirrored, [RobotNext]_allVars, clean, ~TargetReceived, ~Aging
  PROVE  UNCHANGED <<wire, wireAge, lastSent, jointAge>>
<1>1. UNCHANGED <<wire, wireAge>>
  BY DEF RobotNext, RobotTick, TriggerReceived, BeatReceived, Working, Asked, SpeechEnds,
         LinkFails, LinkBack, Surrounds, robotVars, allVars
<1>2. UNCHANGED <<lastSent, jointAge>>
  <2>1. CASE Working
    <3>1. CASE TickBegin
      BY <3>1, Zenon DEF TickBegin, ResumeAfterOutage, Mirrored
    <3> QED BY <2>1, <3>1, LineAlone DEF Working, Unsent
  <2>2. CASE TriggerReceived \/ BeatReceived
    BY <2>2, LineAlone DEF TriggerReceived, BeatReceived
  <2>3. CASE Asked \/ SpeechEnds \/ LinkFails \/ LinkBack
    BY <2>3, RequestsKeepLoop DEF sentVars
  <2>4. CASE UNCHANGED allVars
    BY <2>4 DEF allVars, vars, sentVars
  <2> QED BY <2>1, <2>2, <2>3, <2>4 DEF RobotNext, RobotTick
<1> QED BY <1>1, <1>2

LEMMA WireStep == WireInv /\ [RobotNext]_allVars => WireInv'
<1> SUFFICES ASSUME WireInv, [RobotNext]_allVars PROVE WireInv'
  OBVIOUS
<1> USE DEF WireInv
<1>1. SafeInv' /\ TypeOK
  BY SafeStep, RobotIsEngine DEF SafeInv
<1>2. Punctual'
  BY <1>1, PunctualStep
<1>3. clean' \in BOOLEAN /\ (clean' => clean) /\ (clean' => link' = "up" /\ ~paused')
  BY CleanStep
<1>4. wireAge' \in [Joints -> 0..SafeHold]
  <2>1. SafeHold \in Nat BY EngineAssumption
  <2> QED BY <2>1 DEF RobotNext, RobotTick, TargetReceived, TriggerReceived, BeatReceived, Working,
         Aging, Asked, SpeechEnds, LinkFails, LinkBack, Surrounds, robotVars, allVars, AtMost
<1>5. Mirrored' /\ Dated'
  <2> SUFFICES ASSUME clean' PROVE wire' = LastTarget' /\
                        \A j \in Joints : jointAge'[j] <= wireAge'[j] + SendBound
    BY <1>3 DEF Mirrored, Dated
  <2>1. clean /\ wire = LastTarget /\ \A j \in Joints : jointAge[j] <= wireAge[j] + SendBound
    BY <1>3 DEF Mirrored, Dated
  <2>2. CASE TargetReceived
    <3>1. LastTarget' = target /\ wire' = target
      BY <1>1, <2>2, TargetIsSent DEF TargetReceived, TargetSent, LastTarget, TypeOK
    <3>2. elapsed \in Nat /\ elapsed <= SendBound /\ SendBound \in Nat /\ SafeHold \in Nat
      BY <1>1, <2>2, EngineAssumption DEF TargetReceived, TargetSent, Punctual, TypeOK
    <3>3. \A j \in Joints : IF target[j] # LastTarget[j]
            THEN wireAge'[j] = 0 /\ jointAge'[j] = AtMost(elapsed, SafeHold)
            ELSE wireAge'[j] = wireAge[j] /\ jointAge'[j] = jointAge[j]
      BY <2>1, <2>2 DEF TargetReceived, TargetSent
    <3>4. AtMost(elapsed, SafeHold) <= SendBound
      BY <3>2 DEF AtMost
    <3> QED BY <2>1, <3>1, <3>2, <3>3, <3>4
  <2>3. CASE Aging
    <3>1. LastTarget' = LastTarget /\ wire' = wire
      BY <1>1, <2>3, AgesGrow DEF Aging, LastTarget
    <3>2. \A j \in Joints :
            /\ wireAge'[j] = AtMost(wireAge[j] + 1, SafeHold)
            /\ jointAge'[j] = IF jointAge[j] < SafeHold THEN jointAge[j] + 1 ELSE SafeHold
      BY <1>1, <2>3, AgesGrow DEF Aging
    <3>3. \A j \in Joints : jointAge[j] \in 0..SafeHold /\ wireAge[j] \in 0..SafeHold
      BY <1>1 DEF TypeOK
    <3> QED BY <2>1, <3>1, <3>2, <3>3, EngineAssumption DEF AtMost
  <2>4. CASE ~TargetReceived /\ ~Aging
    BY <2>1, <2>4, WireAlone DEF LastTarget
  <2> QED BY <2>2, <2>3, <2>4
<1> QED BY <1>1, <1>2, <1>3, <1>4, <1>5

LEMMA WireInit == RobotInit => WireInv
<1> SUFFICES ASSUME RobotInit PROVE WireInv
  OBVIOUS
<1>1. SafeInv /\ lastSent = NotSent /\ jointAge = [j \in Joints |-> SafeHold]
      /\ wireAge = [j \in Joints |-> SafeHold] /\ wire = Zero /\ ~paused
      /\ phase = "sleep" /\ elapsed = TickInterval /\ clean = (link = "up")
  BY SafeInit, Zenon DEF RobotInit, Init
<1>2. clean \in BOOLEAN /\ Mirrored
  BY <1>1 DEF Mirrored, LastTarget
<1> QED BY <1>1, <1>2, EngineAssumption DEF WireInv, Punctual, Dated

(* As long as the link holds no servo sees its byte change earlier than    *)
(* SafeHold, less the time a tick's sends take, after the change before,   *)
(* whatever is queued, stopped and cleared: the floor _guard promises, seen*)
(* where the frames arrive.                                                *)
THEOREM ServoFloor == RobotSpec => WireFloor
<1>1. WireInv /\ [RobotNext]_allVars =>
        [clean => \A j \in Joints :
           wire'[j] # wire[j] => wireAge[j] + SendBound >= SafeHold]_allVars
  <2> SUFFICES ASSUME WireInv, [RobotNext]_allVars, clean, NEW j \in Joints, wire'[j] # wire[j]
               PROVE  wireAge[j] + SendBound >= SafeHold
    OBVIOUS
  <2>1. TargetReceived
    BY WireAlone DEF WireInv, Aging
  <2>2. wire' = target /\ phase = "target"
    BY <2>1 DEF TargetReceived, TargetSent
  <2>3. jointAge[j] = SafeHold
    BY <2>2 DEF WireInv, SafeInv, Mirrored, TargetSafe
  <2>4. jointAge[j] <= wireAge[j] + SendBound
    BY DEF WireInv, Dated
  <2> QED BY <2>3, <2>4, EngineAssumption DEF WireInv
<1> QED BY <1>1, WireInit, WireStep, PTL DEF RobotSpec, WireFloor

-----------------------------------------------------------------------------
(* What is queued stays what was queued: whatever set the enqueued steps   *)
(* and a stop's walk are of, every pending, running and spawned step is.   *)

TrackOf(S)  == {track \in Track : track.step \in S}
TracksOf(S) ==
  /\ pending \in Seq(S) /\ current \in S \cup {NoStep}
  /\ spawns \in Seq(TrackOf(S))

LEMMA TakeOf ==
  ASSUME NEW S, pending \in Seq(S), NEW kind, Take(kind)
  PROVE  First \in S /\ First \in kind /\ pending' \in Seq(S)
<1>1. pending # <<>> /\ pending' = Tail(pending)
  BY DEF Take, CanTake
<1>2. First \in S /\ Tail(pending) \in Seq(S)
  BY <1>1, HeadTailProperties DEF First
<1> QED BY <1>1, <1>2 DEF Take

LEMMA TracksStay ==
  ASSUME NEW S \in SUBSET Step, \A batch \in Batches : batch \in Seq(S), Walk \in Seq(S),
         TypeOK, TracksOf(S), [Next]_vars
  PROVE  TracksOf(S)'
<1> USE DEF TracksOf, queueVars, trackVars
<1>1. CASE Enqueue
  <2>1. PICK batch \in Batches : pending' = pending \o batch
    BY <1>1 DEF Enqueue
  <2>2. pending' \in Seq(S)
    BY <2>1, ConcatProperties
  <2> QED BY <1>1, <2>2 DEF Enqueue
<1>2. CASE Clear
  BY <1>2, EmptySeq DEF Clear
<1>3. CASE StopAgain
  <2>1. Len(pending) \in Nat /\ returning \in Nat
    BY LenProperties DEF TypeOK
  <2>2. AtMost(returning, Len(pending)) \in 0..Len(pending)
    BY <2>1 DEF AtMost
  <2>3. \A i \in 1..AtMost(returning, Len(pending)) : pending[i] \in S
    BY <2>1, <2>2, ElementOfSeq
  <2>4. pending' \in Seq(S)
    BY <1>3, <2>1, <2>2, <2>3, SubSeqProperties DEF StopAgain
  <2> QED BY <1>3, <2>4, EmptySeq DEF StopAgain, Abort
<1>4. CASE StopFresh
  BY <1>4, EmptySeq DEF StopFresh, Abort
<1>5. CASE PruneTrack
  <2>1. PICK k \in DOMAIN spawns : spawns' = RemoveAt(spawns, k)
    BY <1>5 DEF PruneTrack
  <2>2. spawns' \in Seq(TrackOf(S))
    BY <2>1, RemoveTyping
  <2> QED BY <1>5, <2>2 DEF PruneTrack
<1>6. CASE StartAdvance
  BY <1>6 DEF StartAdvance, SayEnded
<1>7. CASE AdvanceDone
  BY <1>7 DEF AdvanceDone
<1>8. CASE TakeAny
  <2>1. CASE TakeMovement
    <3>1. First \in S /\ First \in Movement /\ pending' \in Seq(S)
      BY <2>1, TakeOf DEF TakeMovement
    <3>2. [step |-> First, left |-> First.hold] \in TrackOf(S)
      BY <3>1 DEF TrackOf, Track, Movement
    <3>3. Append(spawns, [step |-> First, left |-> First.hold]) \in Seq(TrackOf(S))
      BY <3>2, AppendProperties
    <3> QED BY <2>1, <3>1, <3>3 DEF TakeMovement, Continue, Hold
  <2>2. CASE TakePause
    <3>1. First \in S /\ pending' \in Seq(S)
      BY <2>2, TakeOf DEF TakePause
    <3> QED BY <2>2, <3>1 DEF TakePause, Continue, Hold
  <2>3. CASE TakeSay
    <3>1. First \in S /\ pending' \in Seq(S)
      BY <2>3, TakeOf DEF TakeSay
    <3> QED BY <2>3, <3>1 DEF TakeSay, Continue, Hold
  <2>4. CASE TakeTrigger \/ TakeFace
    <3>1. pending' \in Seq(S)
      BY <2>4, TakeOf DEF TakeTrigger, TakeFace
    <3> QED BY <2>4, <3>1 DEF TakeTrigger, TakeFace
  <2> QED BY <1>8, <2>1, <2>2, <2>3, <2>4 DEF TakeAny
<1>9. CASE SendFailed
  BY <1>9 DEF SendFailed
<1>10. CASE Elapse
  <2>1. Len(spawns) \in Nat /\ DOMAIN spawns = 1..Len(spawns)
    BY LenProperties DEF TypeOK
  <2>2. \A k \in 1..Len(spawns) : spawns[k] \in TrackOf(S)
    BY ElementOfSeq
  <2>3. \A k \in 1..Len(spawns) : [spawns[k] EXCEPT !.left = Less(@)] \in TrackOf(S)
    <3> SUFFICES ASSUME NEW k \in 1..Len(spawns)
                 PROVE  [spawns[k] EXCEPT !.left = Less(@)] \in TrackOf(S)
      OBVIOUS
    <3>1. spawns[k] \in Track /\ spawns[k].step \in S
      BY <2>2 DEF TrackOf
    <3>2. Less(spawns[k].left) \in Nat
      BY <3>1 DEF Track, Less
    <3>3. /\ [spawns[k] EXCEPT !.left = Less(@)] \in Track
          /\ [spawns[k] EXCEPT !.left = Less(@)].step = spawns[k].step
      BY <3>1, <3>2 DEF Track
    <3> QED BY <3>1, <3>3 DEF TrackOf
  <2>4. spawns' \in [1..Len(spawns) -> TrackOf(S)] \/ spawns' = spawns
    BY <1>10, <2>1, <2>3 DEF Elapse
  <2>5. [1..Len(spawns) -> TrackOf(S)] \subseteq Seq(TrackOf(S))
    BY <2>1, SeqDef
  <2>6. UNCHANGED <<pending, current>>
    BY <1>10 DEF Elapse
  <2> QED BY <2>4, <2>5, <2>6
<1>11. CASE SayEnds
  BY <1>11 DEF SayEnds
<1>12. CASE UNCHANGED <<pending, current, spawns>>
  BY <1>12
<1>13. CASE TickPaused \/ TickBegin \/ ComposeAndEmit \/ Sent \/ LinkDrop \/ Reconnect
            \/ UNCHANGED vars
  BY <1>12, <1>13, TracksAlone, QueueAlone DEF Outside
<1> QED
  BY <1>1, <1>2, <1>3, <1>4, <1>5, <1>6, <1>7, <1>8, <1>9, <1>10, <1>11, <1>13
     DEF Next, Control, Stop, Tick, Unsent, Advance, Outside

(* A composed byte is the current step's or a spawned track's.             *)
LEMMA ComposedFrom ==
  ASSUME TypeOK, NEW b \in Bytes
  PROVE  \/ Composed[b] = CurrentBytes[b]
         \/ \E k \in 1..Len(spawns) : Composed[b] = spawns[k].step.bytes[b]
<1> DEFINE W == {k \in DOMAIN spawns : spawns[k].step.bytes[b] # 0}
<1>1. CASE W = {}
  BY <1>1 DEF LastWriter, Composed
<1>2. CASE W # {}
  <2>1. W \in SUBSET (1..Len(spawns)) /\ Len(spawns) \in Nat
    BY LenProperties DEF TypeOK
  <2>2. Max(W) \in W
    <3> HIDE DEF W
    <3> QED BY <2>1, <1>2, LastIsMember
  <2> QED BY <1>2, <2>1, <2>2 DEF LastWriter, Composed
<1> QED BY <1>1, <1>2

(* The target in flight is the one the tick guarded.                       *)
LEMMA TargetKept ==
  ASSUME [Next]_vars, phase' \in {"trigger", "target"}
  PROVE  \/ target' = target /\ phase \in {"trigger", "target"}
         \/ target' = Guard(Composed) /\ ComposeAndEmit
<1>1. CASE UNCHANGED loopVars
  BY <1>1 DEF loopVars
<1>2. CASE Elapse
  BY <1>2 DEF Elapse
<1>3. CASE TickPaused \/ SendFailed \/ TargetSent \/ BeatSent
  BY <1>3 DEF TickPaused, Wake, SendFailed, TargetSent, BeatSent, Sleep
<1>4. CASE TickBegin
  BY <1>4, ResumeLine
<1>5. CASE Advance
  BY <1>5, AdvanceLoop DEF Goes, Slept, Sync
<1>6. CASE ComposeAndEmit
  <2>1. Sleep \/ EmitNext(triggers, Guard(Composed), writeAge = SilenceFloor)
    BY <1>6, Zenon DEF ComposeAndEmit
  <2> QED BY <1>6, <2>1 DEF EmitNext, Sleep
<1>7. CASE TriggerSent
  BY <1>7 DEF TriggerSent, EmitNext, Sleep
<1>8. CASE Control \/ Outside
  BY <1>1, <1>8, Zenon DEF Control, Enqueue, Clear, Stop, StopAgain, StopFresh,
                Outside, SayEnds, LinkDrop, Reconnect
<1>9. CASE UNCHANGED vars
  BY <1>1, <1>9 DEF vars
<1> QED BY <1>2, <1>3, <1>4, <1>5, <1>6, <1>7, <1>8, <1>9 DEF Next, Tick, Unsent, Sent

-----------------------------------------------------------------------------
(* The heartbeat.  A byte frame.build refuses ends its tick before the     *)
(* heartbeat is considered, so the silence is bounded when what is queued  *)
(* can be built: every code and byte, and the even value that returns a    *)
(* joint.                                                                  *)

LegalBytes(bytes) ==
  /\ \A b \in Bytes : bytes[b] <= MaxByte
  /\ \A j \in Joints : Paired(bytes[j]) <= MaxByte
LegalStep ==
  {step \in Step : /\ step \in Movement => LegalBytes(step.bytes)
                   /\ step \in Trigger \cup Face => step.code <= MaxByte}

LegalInv ==
  /\ TracksOf(LegalStep)
  /\ LegalBytes(LastTarget)
  /\ phase \in {"trigger", "target"} => LegalBytes(target)

LEMMA ZeroLegal == LegalBytes(Zero)
BY EngineAssumption DEF LegalBytes, Zero, Paired, Joints, Bytes

LEMMA MovementApart ==
  /\ NoStep \notin Movement
  /\ \A s \in Movement : s \notin Trigger \cup Face
  /\ \A s \in Trigger : s \notin Movement
<1>1. NoStep.kind = "none" /\ \A s \in Movement : s.kind = "movement"
  BY DEF NoStep, Movement
<1>2. \A s \in Trigger : s.kind \in {"media", "gesture"}
  BY DEF Trigger
<1>3. \A s \in Face : s.kind = "face"
  BY DEF Face
<1> QED BY <1>1, <1>2, <1>3

(* A stop returns what it finds on the line by values frame.build takes.   *)
LEMMA WalkLegal ==
  ASSUME TypeOK, LegalBytes(LastTarget)
  PROVE  Walk \in Seq(LegalStep)
<1>1. \A b \in Joints, v \in Nat : v % 2 = 0 /\ v <= MaxByte
                              => Drive(b, v, SafeHold) \in LegalStep
  <2> SUFFICES ASSUME NEW b \in Joints, NEW v \in Nat, v % 2 = 0, v <= MaxByte
               PROVE  Drive(b, v, SafeHold) \in LegalStep
    OBVIOUS
  <2>1. Drive(b, v, SafeHold) \in Step /\ b \in Bytes
    BY StepTyping, EngineAssumption DEF Bytes
  <2>2. Drive(b, v, SafeHold).bytes = [Zero EXCEPT ![b] = v]
        /\ Drive(b, v, SafeHold).kind = "movement"
    BY DEF Drive, Move
  <2>3. LegalBytes([Zero EXCEPT ![b] = v])
    BY EngineAssumption DEF LegalBytes, Zero, Paired, Joints, Bytes
  <2>4. Drive(b, v, SafeHold) \notin Trigger \cup Face
    BY <2>2 DEF Trigger, Face
  <2> QED BY <2>1, <2>2, <2>3, <2>4 DEF LegalStep
<1>2. Rest = Drive("limb", 0, SafeHold)
  BY DEF Rest, Drive, Move, Zero
<1>3. Rest \in LegalStep
  BY <1>1, <1>2, EngineAssumption DEF Joints
<1>4. Gesture(ArmsDown) \in LegalStep
  <2>1. Gesture(ArmsDown) \in Trigger /\ Gesture(ArmsDown).code = ArmsDown
    BY EngineAssumption DEF Gesture, Trigger
  <2> QED BY <2>1, MovementApart, EngineAssumption DEF LegalStep, Step
<1>5. \A j \in Joints : ReturnOf(j) \in Seq(LegalStep)
  <2> SUFFICES ASSUME NEW j \in Joints PROVE ReturnOf(j) \in Seq(LegalStep)
    OBVIOUS
  <2>1. LastTarget[j] \in Nat
    BY LastTargetTyping DEF Target, Bytes, TypeOK
  <2>2. /\ Paired(LastTarget[j]) \in Nat /\ Paired(LastTarget[j]) % 2 = 0
        /\ Paired(LastTarget[j]) <= MaxByte
    BY <2>1 DEF Paired, LegalBytes
  <2>3. Drive(j, Paired(LastTarget[j]), SafeHold) \in LegalStep
    BY <1>1, <2>2
  <2> QED BY <2>3 DEF ReturnOf
<1> HIDE DEF LegalStep
<1>6. "limb" \in Joints /\ "waist" \in Joints /\ <<Rest>> \in Seq(LegalStep)
      /\ <<Gesture(ArmsDown), Rest>> \in Seq(LegalStep)
  BY <1>3, <1>4 DEF Joints
<1>7. ReturnOf("limb") \o ReturnOf("waist") \in Seq(LegalStep)
  BY <1>5, <1>6, ConcatProperties
<1>8. ReturnOf("limb") \o ReturnOf("waist") \o <<Rest>> \in Seq(LegalStep)
  BY <1>6, <1>7, ConcatProperties
<1>9. NeutralReturn \in Seq(LegalStep)
  BY <1>8 DEF NeutralReturn
<1> QED BY <1>6, <1>9, ConcatProperties DEF Walk

(* What is composed of legal steps can be built, and is legal when guarded.*)
LEMMA ComposeLegal ==
  ASSUME TypeOK, LegalInv
  PROVE  Buildable /\ LegalBytes(Guard(Composed))
<1>1. LegalBytes(CurrentBytes)
  BY ZeroLegal, MovementApart DEF CurrentBytes, LegalInv, TracksOf, LegalStep
<1>2. \A k \in 1..Len(spawns) : LegalBytes(spawns[k].step.bytes)
  <2>1. \A k \in 1..Len(spawns) : spawns[k] \in TrackOf(LegalStep)
    BY ElementOfSeq DEF LegalInv, TracksOf
  <2> QED BY <2>1 DEF TrackOf, Track, LegalStep
<1>3. Buildable
  <2>1. DOMAIN spawns = 1..Len(spawns)
    BY LenProperties DEF TypeOK
  <2> QED BY <1>1, <1>2, <2>1 DEF Buildable, LegalBytes
<1>4. LegalBytes(Composed)
  <2>1. \A b \in Bytes : Composed[b] <= MaxByte
    <3> SUFFICES ASSUME NEW b \in Bytes PROVE Composed[b] <= MaxByte
      OBVIOUS
    <3> QED BY <1>1, <1>2, ComposedFrom DEF LegalBytes
  <2>2. \A j \in Joints : Paired(Composed[j]) <= MaxByte
    <3> SUFFICES ASSUME NEW j \in Joints PROVE Paired(Composed[j]) <= MaxByte
      OBVIOUS
    <3>1. j \in Bytes BY DEF Bytes
    <3> QED BY <1>1, <1>2, <3>1, ComposedFrom DEF LegalBytes
  <2> QED BY <2>1, <2>2 DEF LegalBytes
<1>5. LegalBytes(LastTarget) BY DEF LegalInv
<1> DEFINE limited == RateLimited(Composed)
<1>6. \A b \in Bytes : limited[b] = LastTarget[b] \/ limited[b] = Composed[b]
  BY DEF RateLimited
<1>7. limited \in Target
  BY ComposedTyping, LastTargetTyping DEF RateLimited, Target, TypeOK
<1> HIDE DEF limited
<1>8. \A b \in Bytes : \/ Guard(Composed)[b] = LastTarget[b]
                      \/ Guard(Composed)[b] = Composed[b]
                      \/ Guard(Composed)[b] = 0
  <2>1. \/ Guard(Composed) = limited
        \/ \E j \in Joints : Guard(Composed) = [limited EXCEPT ![j] = 0]
    BY DEF Guard, limited, Joints
  <2> QED BY <1>6, <1>7, <2>1 DEF Target
<1>9. Paired(0) = 0 BY DEF Paired
<1>10. LegalBytes(Guard(Composed))
  <2>1. \A b \in Bytes : Guard(Composed)[b] <= MaxByte
    BY <1>4, <1>5, <1>8, EngineAssumption DEF LegalBytes
  <2>2. \A j \in Joints : Paired(Guard(Composed)[j]) <= MaxByte
    <3> SUFFICES ASSUME NEW j \in Joints PROVE Paired(Guard(Composed)[j]) <= MaxByte
      OBVIOUS
    <3>1. j \in Bytes BY DEF Bytes
    <3> QED BY <1>4, <1>5, <1>8, <1>9, <3>1, EngineAssumption DEF LegalBytes
  <2> QED BY <2>1, <2>2 DEF LegalBytes
<1> QED BY <1>3, <1>10

(* With legal steps no tick is cut short before it has composed its frame. *)
LEMMA AdvanceKeepsOn ==
  ASSUME TypeOK, LegalInv, Advance
  PROVE  Goes(Sync)
<1> USE DEF loopVars
<1>1. CASE TakeTrigger
  <2>1. Take(Trigger) BY <1>1 DEF TakeTrigger
  <2>2. First \in LegalStep /\ First \in Trigger
    BY <2>1, TakeOf DEF LegalInv, TracksOf
  <2>3. First.code <= MaxByte /\ First.code \in Nat
    BY <2>2 DEF LegalStep, Trigger
  <2>4. UNCHANGED <<phase, elapsed>>
    BY <1>1, <2>3, EngineAssumption DEF TakeTrigger
  <2> QED BY <2>1, <2>4 DEF Take, CanTake, Goes, Sync
<1>2. CASE TakeFace
  <2>1. Take(Face) BY <1>2 DEF TakeFace
  <2>2. First \in LegalStep /\ First \in Face
    BY <2>1, TakeOf DEF LegalInv, TracksOf
  <2>3. First.code <= MaxByte /\ First.code \in Nat
    BY <2>2 DEF LegalStep, Face
  <2>4. UNCHANGED <<phase, elapsed>>
    BY <1>2, <2>3, EngineAssumption DEF TakeFace
  <2> QED BY <2>1, <2>4 DEF Take, CanTake, Goes, Sync
<1>3. CASE TakeMovement \/ TakePause \/ TakeSay
  BY <1>3 DEF TakeMovement, TakePause, TakeSay, Take, CanTake, Continue, Hold, Goes, Sync
<1>4. CASE PruneTrack
  BY <1>4, Zenon DEF PruneTrack, Goes, Sync
<1>5. CASE StartAdvance
  BY <1>5 DEF StartAdvance, Goes, Sync
<1>6. CASE AdvanceDone
  BY <1>6 DEF AdvanceDone, Goes, Sync
<1> QED BY <1>1, <1>2, <1>3, <1>4, <1>5, <1>6 DEF Advance, TakeAny

LEMMA LegalStays ==
  ASSUME \A batch \in Batches : batch \in Seq(LegalStep),
         TypeOK, LegalInv, [Next]_vars
  PROVE  LegalInv'
<1>1. TracksOf(LegalStep)'
  <2>1. LegalStep \in SUBSET Step /\ Walk \in Seq(LegalStep)
    BY WalkLegal DEF LegalStep, LegalInv
  <2> HIDE DEF LegalStep
  <2> QED BY <2>1, TracksStay DEF LegalInv
<1>2. LegalBytes(LastTarget) /\ LegalBytes(Zero)
  BY ZeroLegal DEF LegalInv
<1>3. LegalBytes(LastTarget')
  <2>1. CASE UNCHANGED lastSent
    BY <1>2, <2>1 DEF LastTarget
  <2>2. CASE TickBegin
    BY <1>2, <2>2, ResumeLine
  <2>3. CASE TargetSent
    <3>1. LastTarget' = target /\ LegalBytes(target)
      BY <2>3, TargetIsSent DEF TargetSent, LastTarget, TypeOK, LegalInv
    <3> QED BY <3>1
  <2>4. CASE Elapse \/ UNCHANGED vars
    BY <2>1, <2>4, AgesGrow DEF vars, sentVars
  <2> QED BY <2>1, <2>2, <2>3, <2>4, LineAlone DEF Next, Tick, Unsent, Sent
<1>4. phase' \in {"trigger", "target"} => LegalBytes(target')
  BY TargetKept, ComposeLegal DEF LegalInv
<1> QED BY <1>1, <1>3, <1>4 DEF LegalInv

Ticking == IF phase = "sleep" THEN 0 ELSE TickInterval
Heard ==
  /\ quiet \in Nat
  /\ writeAge < SilenceFloor => quiet <= writeAge
  /\ link = "up" => quiet <= SilenceFloor - 1 + elapsed + Ticking
  /\ quiet <= QuietBound

SilenceInv == TypeOK /\ LegalInv /\ Punctual /\ Heard

LEMMA HeardStep ==
  ASSUME SendBound <= AgeCap, WakeBound <= TickInterval,
         SilenceInv, TypeOK', Punctual', [RobotNext]_allVars
  PROVE  Heard'
<1> USE EngineAssumption DEF SilenceInv
<1>1. /\ SilenceFloor \in Nat \ {0} /\ TickInterval \in Nat \ {0} /\ SendBound \in Nat
      /\ elapsed \in Nat /\ elapsed' \in Nat
      /\ writeAge \in 0..SilenceFloor /\ writeAge' \in 0..SilenceFloor
      /\ quiet \in Nat /\ QuietBound \in Nat
  BY DEF TypeOK, Heard, QuietBound
<1>2. CASE quiet' = 0
  <2>1. Ticking' \in Nat BY <1>1 DEF Ticking
  <2>2. 0 <= writeAge' /\ 0 <= SilenceFloor - 1 + elapsed' + Ticking'
    <3>1. \A f \in Nat \ {0}, e, t \in Nat : 0 <= f - 1 + e + t
      OBVIOUS
    <3>2. 0 <= SilenceFloor - 1 + elapsed' + Ticking'
      BY <1>1, <2>1, <3>1, Zenon
    <3> QED BY <1>1, <3>2
  <2>3. 0 \in Nat /\ 0 <= QuietBound
    BY <1>1
  <2> QED BY <1>2, <2>2, <2>3 DEF Heard
<1>3. CASE UNCHANGED <<quiet, writeAge, elapsed, phase>> /\ (link' = "up" => link = "up")
  BY <1>3 DEF Heard, Ticking, QuietBound
<1>4. CASE RobotTick
  <2>1. CASE TargetReceived \/ TriggerReceived \/ BeatReceived
    BY <1>2, <2>1 DEF TargetReceived, TriggerReceived, BeatReceived
  <2>2. CASE Working
    <3>1. quiet' = quiet
      BY <2>2 DEF Working
    <3>2. CASE TickPaused
      <4>1. link' = "down" /\ UNCHANGED writeAge
        BY <3>2 DEF TickPaused, sentVars
      <4> QED BY <3>1, <4>1 DEF Heard, QuietBound
    <3>3. CASE SendFailed
      <4>1. link' = "down" /\ UNCHANGED writeAge
        BY <3>3 DEF SendFailed, sentVars
      <4> QED BY <3>1, <4>1 DEF Heard, QuietBound
    <3>4. CASE TickBegin
      <4>1. /\ phase = "sleep" /\ elapsed >= TickInterval /\ link = "up"
            /\ phase' = "prune" /\ elapsed' = 0
        BY <3>4, Zenon DEF TickBegin, Wake
      <4>2. writeAge' = SilenceFloor \/ writeAge' = writeAge
        BY <3>4, Zenon DEF TickBegin, ResumeAfterOutage
      <4>3. quiet <= SilenceFloor - 1 + TickInterval
        BY <1>1, <4>1 DEF Heard, Punctual, Ticking
      <4> QED BY <1>1, <3>1, <4>1, <4>2, <4>3 DEF Heard, Ticking, QuietBound
    <3>5. CASE Advance
      <4>1. Goes(Sync) /\ UNCHANGED <<writeAge, link>> /\ phase \in Sync
        BY <3>5, AdvanceKeepsOn, AdvanceLoop DEF sentVars, linkVars
      <4> QED BY <3>1, <4>1 DEF Heard, Ticking, Goes, Sync, QuietBound
    <3>6. CASE ComposeAndEmit
      <4>1. phase = "compose" /\ UNCHANGED <<writeAge, link>>
        BY <3>6, ComposeLoop DEF sentVars, linkVars
      <4>2. EmitNext(triggers, Guard(Composed), writeAge = SilenceFloor)
        BY <3>6, ComposeLegal, Zenon DEF ComposeAndEmit
      <4>3. CASE Goes(Sending)
        BY <3>1, <4>1, <4>3 DEF Heard, Ticking, Goes, Sending, QuietBound
      <4>4. CASE ~Goes(Sending)
        <5>1. ~BeatDue(writeAge = SilenceFloor) /\ Sleep
          BY <4>2, <4>4 DEF EmitNext, Goes, Sending
        <5>2. writeAge < SilenceFloor /\ phase' = "sleep" /\ elapsed' = 0
          BY <1>1, <5>1 DEF BeatDue, Sleep
        <5> QED BY <1>1, <3>1, <4>1, <5>2 DEF Heard, Ticking, QuietBound
      <4> QED BY <4>3, <4>4
    <3> QED BY <2>2, <3>2, <3>3, <3>4, <3>5, <3>6 DEF Working, Unsent
  <2> QED BY <1>4, <2>1, <2>2 DEF RobotTick
<1>5. CASE Aging
  <2>1. CASE link = "down"
    BY <1>2, <1>5, <2>1 DEF Aging
  <2>2. CASE link = "up"
    <3>1. /\ quiet' = AtMost(quiet + 1, QuietBound + 1)
          /\ writeAge' = AtMost(writeAge + 1, SilenceFloor)
          /\ UNCHANGED <<phase, link>>
      BY <1>5, <2>2 DEF Aging, Elapse, linkVars
    <3>2. elapsed' = elapsed + 1
      <4>1. CASE phase = "sleep"
        <5>1. elapsed < WakeBound /\ elapsed' = AtMost(elapsed + 1, TickInterval)
          BY <1>5, <4>1 DEF Aging, Elapse, Sending
        <5> QED BY <1>1, <5>1, <4>1 DEF AtMost
      <4>2. CASE phase # "sleep"
        <5>1. elapsed < SendBound /\ elapsed' = AtMost(elapsed + 1, AgeCap)
          BY <1>5, <4>2 DEF Aging, Elapse
        <5> QED BY <1>1, <5>1, AgeCapTyping DEF AtMost
      <4> QED BY <4>1, <4>2
    <3>3. Ticking' = Ticking /\ Ticking \in Nat
      BY <1>1, <3>1 DEF Ticking
    <3>4. elapsed' + Ticking <= TickInterval + SendBound
      BY <1>1, <3>1, <3>2 DEF Punctual, Ticking
    <3>5. quiet' = quiet + 1
      BY <1>1, <3>1 DEF Heard, AtMost
    <3> QED BY <1>1, <2>2, <3>1, <3>2, <3>3, <3>4, <3>5 DEF Heard, AtMost, QuietBound
  <2> QED BY <2>1, <2>2 DEF TypeOK
<1>6. CASE Asked
  <2>1. UNCHANGED <<loopVars, sentVars>>
    BY <1>6, RequestsKeepLoop
  <2>2. UNCHANGED <<quiet, link>>
    BY <1>6, Zenon DEF Asked, robotVars, StopFresh, StopAgain, Enqueue, Clear, linkVars
  <2> QED BY <1>3, <2>1, <2>2 DEF loopVars, sentVars
<1>7. CASE SpeechEnds \/ LinkFails \/ LinkBack
  <2>1. UNCHANGED <<writeAge, elapsed, phase>>
    BY <1>7, RequestsKeepLoop DEF loopVars, sentVars
  <2>2. quiet' = IF link' = link THEN quiet ELSE 0
    BY <1>7 DEF SpeechEnds, LinkFails, LinkBack, Surrounds
  <2> QED BY <1>2, <1>3, <2>1, <2>2
<1>8. CASE UNCHANGED allVars
  BY <1>3, <1>8 DEF allVars, vars, robotVars, loopVars, sentVars, linkVars
<1> QED BY <1>4, <1>5, <1>6, <1>7, <1>8 DEF RobotNext

(* With timers that wake the tick loop on time and steps that can be built,*)
(* the robot is never left without a frame for longer than the silence     *)
(* floor, one tick and one tick's sends while the link is up: every tick   *)
(* that finds the floor passed sends something, whatever is queued,        *)
(* stopped, spoken or forgotten in an outage.                              *)
THEOREM SilenceBounded ==
  ASSUME WakeBound <= TickInterval, SendBound <= AgeCap,
         \A batch \in Batches : batch \in Seq(LegalStep)
  PROVE  RobotSpec => []BoundedSilence
<1>1. RobotInit => SilenceInv
  <2> SUFFICES ASSUME RobotInit PROVE SilenceInv
    OBVIOUS
  <2>1. /\ TypeOK /\ pending = <<>> /\ current = NoStep /\ spawns = <<>>
        /\ lastSent = NotSent /\ phase = "sleep" /\ elapsed = TickInterval
        /\ quiet = 0
    BY InitTyping, Zenon DEF RobotInit, Init
  <2>2. LegalInv
    BY <2>1, ZeroLegal, EmptySeq DEF LegalInv, TracksOf, LastTarget
  <2>3. Punctual
    BY <2>1, EngineAssumption DEF Punctual
  <2>4. Heard
    BY <2>1, EngineAssumption DEF Heard, Ticking, QuietBound, TypeOK
  <2> QED BY <2>1, <2>2, <2>3, <2>4 DEF SilenceInv
<1>2. SilenceInv /\ [RobotNext]_allVars => SilenceInv'
  <2> SUFFICES ASSUME SilenceInv, [RobotNext]_allVars PROVE SilenceInv'
    OBVIOUS
  <2>1. TypeOK' /\ Punctual' /\ LegalInv'
    BY RobotIsEngine, NextTyping, PunctualStep, LegalStays DEF SilenceInv
  <2>2. Heard'
    BY <2>1, HeardStep
  <2> QED BY <2>1, <2>2 DEF SilenceInv
<1>3. SilenceInv => BoundedSilence
  BY DEF SilenceInv, Heard, BoundedSilence
<1> QED BY <1>1, <1>2, <1>3, PTL DEF RobotSpec

-----------------------------------------------------------------------------
(* The arms.  A target sent after the arms-down gesture may still carry a  *)
(* raised limb whose byte is too young to change: the guard keeps it, and  *)
(* the target goes out if another byte changes.  With no locomotion queued *)
(* none does, since the guard lets one joint move at a time.               *)

PoseStep == {step \in Step : step \in Movement => step.bytes["loco"] = 0}
PoseInv  ==
  /\ TracksOf(PoseStep)
  /\ LastTarget["loco"] = 0
  /\ phase \in {"trigger", "target"} => target["loco"] = 0

LEMMA WalkPoses ==
  ASSUME TypeOK
  PROVE  Walk \in Seq(PoseStep)
<1>1. Walk \in Seq(Step) /\ Len(Walk) \in Nat /\ \A i \in 1..Len(Walk) : WalkStepOf(Walk[i])
  BY WalkTyping, FreshWalkPure DEF TypeOK
<1>2. \A i \in 1..Len(Walk) : Walk[i] \in PoseStep
  <2> SUFFICES ASSUME NEW i \in 1..Len(Walk) PROVE Walk[i] \in PoseStep
    OBVIOUS
  <2>1. Walk[i] \in Step
    BY <1>1, ElementOfSeq
  <2>2. CASE Walk[i] = Gesture(ArmsDown)
    BY <2>1, <2>2 DEF PoseStep, Movement, Gesture
  <2>3. CASE Returns(Walk[i])
    <3>1. PICK j \in Joints : Walk[i] = Drive(j, Walk[i].bytes[j], SafeHold)
      BY <2>3 DEF Returns
    <3>2. Drive(j, Walk[i].bytes[j], SafeHold).bytes["loco"] = 0
      BY DEF Drive, Move, Zero, Joints, Bytes
    <3>3. Walk[i].bytes["loco"] = 0
      BY <3>1, <3>2, Zenon
    <3> QED BY <2>1, <3>3 DEF PoseStep
  <2> QED BY <1>1, <2>2, <2>3 DEF WalkStepOf
<1> HIDE DEF PoseStep
<1>3. \A s \in Seq(Step) : (\A i \in 1..Len(s) : s[i] \in PoseStep) => s \in Seq(PoseStep)
  OBVIOUS
<1> QED BY <1>1, <1>2, <1>3, Zenon

LEMMA GuardLoco ==
  ASSUME TypeOK, NEW composed \in Target
  PROVE  Guard(composed)["loco"] = composed["loco"]
<1>1. RateLimited(composed) \in Target /\ RateLimited(composed)["loco"] = composed["loco"]
  BY LastTargetTyping DEF RateLimited, Target, TypeOK, Joints, Bytes
<1> QED BY <1>1 DEF Guard, Target, Joints, Bytes

LEMMA PoseStay ==
  ASSUME \A batch \in Batches : batch \in Seq(PoseStep),
         TypeOK, PoseInv, [Next]_vars
  PROVE  PoseInv'
<1>1. TracksOf(PoseStep)'
  <2>1. PoseStep \in SUBSET Step /\ Walk \in Seq(PoseStep)
    BY WalkPoses DEF PoseStep
  <2> HIDE DEF PoseStep
  <2> QED BY <2>1, TracksStay DEF PoseInv
<1>2. LastTarget["loco"] = 0 /\ Zero["loco"] = 0
  BY DEF PoseInv, Zero, Bytes
<1>3. LastTarget'["loco"] = 0
  <2>1. CASE UNCHANGED lastSent
    BY <1>2, <2>1 DEF LastTarget
  <2>2. CASE TickBegin
    BY <1>2, <2>2, ResumeLine
  <2>3. CASE TargetSent
    <3>1. LastTarget' = target /\ target["loco"] = 0
      BY <2>3, TargetIsSent DEF TargetSent, LastTarget, TypeOK, PoseInv
    <3> QED BY <3>1
  <2>4. CASE Elapse \/ UNCHANGED vars
    BY <2>1, <2>4, AgesGrow DEF vars, sentVars
  <2> QED BY <2>1, <2>2, <2>3, <2>4, LineAlone DEF Next, Tick, Unsent, Sent
<1>4. Guard(Composed)["loco"] = 0
  <2>1. "loco" \in Bytes /\ Composed \in Target
    BY ComposedTyping DEF Bytes, TypeOK
  <2>2. CurrentBytes["loco"] = 0
    BY <1>2, MovementApart DEF CurrentBytes, PoseInv, TracksOf, PoseStep
  <2>3. \A k \in 1..Len(spawns) : spawns[k].step.bytes["loco"] = 0
    <3>1. \A k \in 1..Len(spawns) : spawns[k] \in TrackOf(PoseStep)
      BY ElementOfSeq DEF PoseInv, TracksOf
    <3> QED BY <3>1 DEF TrackOf, Track, PoseStep
  <2>4. Composed["loco"] = 0
    BY <2>1, <2>2, <2>3, ComposedFrom
  <2> QED BY <2>1, <2>4, GuardLoco
<1>5. phase' \in {"trigger", "target"} => target'["loco"] = 0
  BY <1>4, TargetKept DEF PoseInv
<1> QED BY <1>1, <1>3, <1>5 DEF PoseInv

GestureLast == triggers # <<>> /\ triggers[Len(triggers)] = Gesture(ArmsDown)
TargetNew   == phase = "target" => target # lastSent
LimbOver(t) == t = lastSent \/ t["limb"] = 0

(* The walk's gesture and its last step are taken by one tick.             *)
LastStepNext ==
  returning = 1 => phase = "advance" /\ GestureLast /\ (current = NoStep \/ left = 0)

(* Once a stop's gesture is taken it is in flight, or it has brought the   *)
(* limbs down and no frame raises one again.                               *)
Lowered ==
  /\ Len(pending) = returning /\ say = "none" /\ spawns = <<>>
  /\ returning = 0 =>
       /\ current \in {NoStep, Rest}
       /\ phase \in {"trigger", "target"} => LimbOver(target)
       /\ raised = {} \/ (phase \in {"compose", "trigger"} /\ GestureLast)
ArmsInv ==
  SafeInv /\ QueueInv /\ PoseInv /\ TargetNew /\ LastStepNext /\ (calm /\ clean => Lowered)

LEMMA NewStep == TargetNew /\ [Next]_vars => TargetNew'
<1> SUFFICES ASSUME TargetNew, [Next]_vars, phase' = "target" PROVE target' # lastSent'
  BY DEF TargetNew
<1>1. CASE Control \/ Outside \/ UNCHANGED vars
  <2>1. UNCHANGED <<loopVars, sentVars>>
    BY <1>1, Zenon DEF Control, Enqueue, Clear, Stop, StopAgain, StopFresh,
                       Outside, SayEnds, LinkDrop, Reconnect, vars
  <2> QED BY <2>1 DEF loopVars, sentVars, TargetNew
<1>2. CASE Elapse
  BY <1>2 DEF Elapse, TargetNew
<1>3. CASE TickPaused \/ SendFailed \/ TargetSent \/ BeatSent
  BY <1>3 DEF TickPaused, Wake, SendFailed, TargetSent, BeatSent, Sleep
<1>4. CASE TickBegin
  BY <1>4, ResumeLine
<1>5. CASE Advance
  BY <1>5, AdvanceLoop DEF Goes, Slept, Sync
<1>6. CASE ComposeAndEmit
  <2>1. Sleep \/ EmitNext(triggers, Guard(Composed), writeAge = SilenceFloor)
    BY <1>6, Zenon DEF ComposeAndEmit
  <2>2. UNCHANGED lastSent
    BY <1>6, ComposeLoop DEF sentVars
  <2> QED BY <2>1, <2>2 DEF EmitNext, Sleep
<1>7. CASE TriggerSent
  BY <1>7 DEF TriggerSent, EmitNext, Sleep
<1> QED BY <1>1, <1>2, <1>3, <1>4, <1>5, <1>6, <1>7 DEF Next, Tick, Unsent, Sent

LEMMA WalkLength ==
  ASSUME TypeOK
  PROVE  Len(Walk) \in Nat /\ Len(Walk) >= 2
<1>1. NeutralReturn \in Seq(Step) /\ <<Gesture(ArmsDown), Rest>> \in Seq(Step)
  BY NeutralTyping, StepTyping, EngineAssumption DEF TypeOK
<1>2. Len(<<Gesture(ArmsDown), Rest>>) = 2
  OBVIOUS
<1>3. Len(Walk) = Len(NeutralReturn) + 2 /\ Len(NeutralReturn) \in Nat
  BY <1>1, <1>2, ConcatProperties, LenProperties DEF Walk
<1> QED BY <1>3

(* Taking the second last step of a walk is taking its gesture.            *)
LEMMA GestureTaken ==
  ASSUME QueueInv, TakeAny, returning = 2
  PROVE  /\ triggers' = Append(triggers, Gesture(ArmsDown))
         /\ phase' = "advance" /\ UNCHANGED <<current, left>> /\ (current = NoStep \/ left = 0)
<1>1. pending # <<>> /\ pending \in Seq(Step) /\ phase = "advance"
      /\ (current = NoStep \/ left = 0)
  BY DEF TakeAny, TakeMovement, TakePause, TakeSay, TakeTrigger, TakeFace,
         Take, CanTake, QueueInv, TypeOK
<1>2. First = Gesture(ArmsDown)
  BY <1>1 DEF First, QueueInv, WalkIntact
<1>3. TakeTrigger
  <2>1. ~(First.kind = "movement")
    BY <1>2 DEF Gesture
  <2> QED BY <2>1, FirstOfWalk DEF QueueInv, Returns
<1>4. First.code <= MaxByte /\ First.code \in Nat
  BY <1>2, EngineAssumption DEF Gesture
<1> QED BY <1>1, <1>2, <1>3, <1>4, EngineAssumption DEF TakeTrigger

LEMMA LastStepStep == QueueInv /\ LastStepNext /\ [Next]_vars => LastStepNext'
<1> SUFFICES ASSUME QueueInv, LastStepNext, [Next]_vars, returning' = 1
             PROVE  phase' = "advance" /\ GestureLast' /\ (current' = NoStep \/ left' = 0)
  BY DEF LastStepNext
<1>1. returning \in Nat /\ triggers \in Seq(Trigger)
  BY DEF QueueInv, TypeOK
<1>2. CASE TakeAny
  <2>1. returning = 2
    BY <1>1, <1>2 DEF TakeAny, TakeMovement, TakePause, TakeSay, TakeTrigger, TakeFace, Take, Less
  <2>2. /\ triggers' = Append(triggers, Gesture(ArmsDown))
        /\ phase' = "advance" /\ UNCHANGED <<current, left>> /\ (current = NoStep \/ left = 0)
    BY <1>2, <2>1, GestureTaken
  <2>3. Gesture(ArmsDown) \in Trigger
    BY EngineAssumption DEF Gesture, Trigger
  <2>4. GestureLast'
    BY <1>1, <2>2, <2>3, AppendProperties DEF GestureLast
  <2> QED BY <2>2, <2>4
<1>3. CASE StopFresh
  <2>1. returning' = Len(Walk)
    BY <1>3 DEF StopFresh
  <2>2. Len(Walk) \in Nat /\ Len(Walk) >= 2
    BY WalkLength DEF QueueInv
  <2>3. ~(returning' = 1)
    BY <2>1, <2>2
  <2> QED BY <2>3, Zenon
<1>4. CASE ~TakeAny /\ ~StopFresh
  <2>1. returning = 1
    BY <1>4, QueueAlone DEF Next, Control, Enqueue, Clear, Stop, StopAgain, Tick, Unsent, Advance
  <2>2. phase = "advance" /\ GestureLast /\ (current = NoStep \/ left = 0)
    BY <2>1 DEF LastStepNext
  <2>3. CanTake
    <3>1. say = "none" /\ pending # <<>>
      BY <2>1 DEF QueueInv, WalkAlone, WalkIntact
    <3> QED BY <2>2, <3>1 DEF CanTake
  <2>4. UNCHANGED vars
    BY <1>4, <2>2, <2>3 DEF Next, Control, Enqueue, Clear, Stop, StopAgain, Tick, Unsent, Sent,
       Advance, TickPaused, TickBegin, Wake, PruneTrack, StartAdvance, AdvanceDone, ComposeAndEmit,
       TriggerSent, TargetSent, BeatSent, SendFailed, Elapse, Outside, SayEnds, LinkDrop, Reconnect,
       Sync, Sending
  <2> QED BY <2>2, <2>4 DEF vars, loopVars, queueVars, GestureLast
<1> QED BY <1>2, <1>3, <1>4

(* With nothing but zeros composed no limb is raised.                      *)
LEMMA GuardZero ==
  ASSUME SafeInv, LastTarget["loco"] = 0
  PROVE  LimbOver(Guard(Zero))
<1> DEFINE limited == RateLimited(Zero)
<1>1. LastTarget \in Target /\ limited \in Target
      /\ \A b \in Bytes : limited[b] = 0 \/ (b \in Joints /\ limited[b] = LastTarget[b])
  BY LastTargetTyping DEF SafeInv, TypeOK, RateLimited, Zero, Target
<1> HIDE DEF limited
<1>2. \E j \in Joints : limited[j] = 0
  BY <1>1 DEF SafeInv, LastOneDriven, Joints, Bytes
<1>3. Guard(Zero) = limited
  BY <1>2 DEF Guard, limited
<1>4. CASE limited["limb"] = 0
  BY <1>3, <1>4 DEF LimbOver
<1>5. CASE limited["limb"] # 0
  <2>1. limited["limb"] = LastTarget["limb"] /\ LastTarget["limb"] # 0
    BY <1>1, <1>5 DEF Bytes, Joints
  <2>2. LastTarget["waist"] = 0
    BY <2>1 DEF SafeInv, LastOneDriven, Joints
  <2>3. limited["waist"] = 0 /\ limited["loco"] = 0
    BY <1>1, <2>2 DEF Bytes, Joints
  <2>4. limited = LastTarget
    BY <1>1, <2>1, <2>2, <2>3 DEF Target, Bytes, Joints
  <2>5. lastSent # NotSent
    BY <2>1 DEF LastTarget, Zero, Bytes, Joints
  <2> QED BY <1>3, <2>4, <2>5 DEF LimbOver, LastTarget
<1> QED BY <1>4, <1>5

(* A step after which the last request to touch the queue is a stop.       *)
LEMMA LoweredStep ==
  ASSUME ArmsInv, LastStepNext', TargetNew', [RobotNext]_allVars, calm', clean'
  PROVE  Lowered'
<1>1. /\ TypeOK /\ pending \in Seq(Step) /\ returning \in Nat /\ Len(pending) \in Nat
      /\ triggers \in Seq(Trigger)
  BY LenProperties DEF ArmsInv, SafeInv, TypeOK
<1>2. CASE Asked
  <2>1. CASE StopFresh
    <3>1. pending' = Walk /\ returning' = Len(Walk) /\ say' = "none" /\ spawns' = <<>>
      BY <2>1 DEF StopFresh, Abort
    <3>2. Len(Walk) \in Nat /\ Len(Walk) >= 2
      BY <1>1, WalkLength
    <3> QED BY <3>1, <3>2 DEF Lowered
  <2>2. CASE StopAgain
    <3>1. /\ returning > 0 /\ UNCHANGED returning /\ phase \notin Sync
          /\ say' = "none" /\ spawns' = <<>>
          /\ pending' = SubSeq(pending, 1, AtMost(returning, Len(pending)))
      BY <2>2 DEF StopAgain, Abort
    <3>2. returning <= Len(pending)
      BY <3>1 DEF ArmsInv, QueueInv, WalkIntact
    <3>3. pending' = SubSeq(pending, 1, returning)
      BY <1>1, <3>1, <3>2 DEF AtMost
    <3>4. Len(pending') = returning
      <4>1. \A i \in 1..returning : pending[i] \in Step
        BY <1>1, <3>2, ElementOfSeq
      <4> QED BY <1>1, <3>3, <4>1, SubSeqProperties
    <3>5. returning' = returning /\ say' = "none" /\ spawns' = <<>>
      BY <3>1
    <3>6. returning # 0
      BY <1>1, <3>1
    <3> QED BY <3>4, <3>5, <3>6, Zenon DEF Lowered
  <2> QED BY <1>2, <2>1, <2>2 DEF Asked
<1> SUFFICES ASSUME ~Asked PROVE Lowered'
  BY <1>2
<1>3. calm /\ clean
  BY DEF RobotNext, RobotTick, TargetReceived, TriggerReceived, BeatReceived, Working, Rebooting,
         Aging, SpeechEnds, LinkFails, LinkBack, Surrounds, askedVars, allVars
<1>4. Lowered
  BY <1>3 DEF ArmsInv
<1>5. returning # 1 \/ (phase = "advance" /\ GestureLast /\ (current = NoStep \/ left = 0))
  BY DEF ArmsInv, LastStepNext
<1>6. CASE UNCHANGED <<pending, returning, say, spawns, current, lastSent, loopVars, raised>>
  BY <1>4, <1>6 DEF Lowered, LimbOver, GestureLast, loopVars
<1>7. CASE TargetReceived
  <2>1. phase = "target" /\ phase' = "sleep" /\ raised' = LimbMoved(target["limb"])
        /\ UNCHANGED <<pending, returning, say, spawns, current>>
    BY <1>7 DEF TargetReceived, TargetSent, Sleep, queueVars, trackVars
  <2>2. returning = 0 => raised = {} /\ target["limb"] = 0
    BY <1>4, <2>1 DEF Lowered, LimbOver, ArmsInv, TargetNew
  <2>3. returning = 0 => raised' = {}
    BY <2>1, <2>2 DEF LimbMoved
  <2> QED BY <1>4, <2>1, <2>3 DEF Lowered
<1>8. CASE TriggerReceived
  <2>1. /\ phase = "trigger" /\ EmitNext(Tail(triggers), target, FALSE)
        /\ UNCHANGED <<pending, returning, say, spawns, current, lastSent>>
    BY <1>8 DEF TriggerReceived, TriggerSent, queueVars, trackVars
  <2>2. CASE returning = 0
    <3>1. raised' = {} \/ (raised' = raised /\ Head(triggers) # Gesture(ArmsDown))
      BY <1>8 DEF TriggerReceived
    <3>2. phase' \in {"trigger", "target"} => LimbOver(target)'
      <4>1. phase' \in {"trigger", "target"} => target' = target
        BY <2>1 DEF EmitNext, Sleep
      <4>2. LimbOver(target) /\ lastSent' = lastSent
        BY <1>4, <2>1, <2>2 DEF Lowered
      <4> QED BY <4>1, <4>2 DEF LimbOver
    <3>3. raised' = {} \/ (phase' = "trigger" /\ GestureLast')
      <4> SUFFICES ASSUME raised' # {} PROVE phase' = "trigger" /\ GestureLast'
        OBVIOUS
      <4>1. GestureLast /\ Head(triggers) # Gesture(ArmsDown)
        BY <1>4, <2>2, <3>1 DEF Lowered
      <4>2. triggers # <<>> /\ Head(triggers) = triggers[1] /\ Len(triggers) \in Nat
        BY <1>1, <4>1, HeadTailProperties, LenProperties DEF GestureLast
      <4>3. Len(triggers) > 1
        BY <1>1, <4>1, <4>2, EmptySeq DEF GestureLast
      <4>4. /\ Tail(triggers) \in Seq(Trigger) /\ Len(Tail(triggers)) = Len(triggers) - 1
            /\ \A i \in 1..Len(Tail(triggers)) : Tail(triggers)[i] = triggers[i + 1]
        BY <1>1, <4>2, HeadTailProperties
      <4>5. Tail(triggers) # <<>> /\ Tail(triggers)[Len(Tail(triggers))] = Gesture(ArmsDown)
        <5>1. Len(triggers) - 1 \in 1..Len(Tail(triggers)) /\ Len(triggers) - 1 + 1 = Len(triggers)
          BY <4>2, <4>3, <4>4
        <5>2. Tail(triggers)[Len(triggers) - 1] = triggers[Len(triggers)]
          BY <4>4, <5>1
        <5>3. Len(Tail(triggers)) # 0
          BY <5>1
        <5> QED BY <4>1, <4>4, <5>2, <5>3, EmptySeq DEF GestureLast
      <4> QED BY <2>1, <4>5 DEF EmitNext, GestureLast
    <3> QED BY <1>4, <2>1, <2>2, <3>2, <3>3 DEF Lowered
  <2> QED BY <1>4, <2>1, <2>2 DEF Lowered
<1>9. CASE BeatReceived
  <2>1. phase = "beat" /\ phase' = "sleep"
        /\ UNCHANGED <<pending, returning, say, spawns, current, raised>>
    BY <1>9 DEF BeatReceived, BeatSent, Sleep, queueVars, trackVars
  <2> QED BY <1>4, <2>1 DEF Lowered
<1>10. CASE Aging
  <2>1. UNCHANGED <<pending, returning, say, current, lastSent, phase, target, triggers, raised>>
    BY <1>10, Zenon DEF Aging, Elapse
  <2>2. spawns' = <<>>
    BY <1>4, <1>10 DEF Aging, Elapse, Lowered
  <2> QED BY <1>4, <2>1, <2>2 DEF Lowered, LimbOver, GestureLast
<1>11. CASE SpeechEnds
  BY <1>4, <1>11 DEF SpeechEnds, SayEnds, Lowered
<1>12. CASE LinkFails
  BY <1>12 DEF LinkFails, LinkDrop, Surrounds, Rebooting
<1>13. CASE LinkBack
  BY <1>6, <1>13 DEF LinkBack, Reconnect, Surrounds, queueVars, trackVars, sentVars
<1>14. CASE UNCHANGED allVars
  BY <1>6, <1>14 DEF allVars, vars, queueVars, trackVars, sentVars, robotVars
<1>15. CASE Working
  <2>1. raised' = raised /\ link' = "up"
    BY <1>15 DEF Working, Rebooting
  <2>2. CASE TickPaused \/ SendFailed
    BY <2>1, <2>2 DEF TickPaused, SendFailed
  <2>3. CASE TickBegin
    <3>1. phase = "sleep" /\ phase' = "prune"
          /\ UNCHANGED <<pending, returning, say, spawns, current>>
      BY <2>3, Zenon DEF TickBegin, Wake, queueVars, trackVars
    <3> QED BY <1>4, <2>1, <3>1 DEF Lowered
  <2>4. CASE PruneTrack
    <3>1. DOMAIN spawns = {}
      BY <1>4 DEF Lowered
    <3> QED BY <2>4, <3>1 DEF PruneTrack
  <2>5. CASE StartAdvance
    <3>1. phase = "prune" /\ phase' = "advance" /\ UNCHANGED <<pending, returning, spawns>>
      BY <2>5 DEF StartAdvance
    <3>2. UNCHANGED <<say, current>>
      BY <1>4, <2>5 DEF StartAdvance, SayEnded, Lowered
    <3> QED BY <1>4, <2>1, <3>1, <3>2 DEF Lowered
  <2>6. CASE TakeAny
    <3>1. /\ pending # <<>> /\ pending' = Tail(pending) /\ returning' = Less(returning)
          /\ phase = "advance"
      BY <2>6 DEF TakeAny, TakeMovement, TakePause, TakeSay, TakeTrigger, TakeFace, Take, CanTake
    <3>2. Len(pending') = Len(pending) - 1 /\ Len(pending) > 0
      BY <1>1, <3>1, HeadTailProperties, EmptySeq
    <3>3. returning > 0 /\ Len(pending') = returning'
      BY <1>1, <1>4, <3>1, <3>2 DEF Lowered, Less
    <3>4. \/ TakeMovement /\ First.mode = "await"
          \/ TakeTrigger
      BY <2>6, <3>3, FirstOfWalk DEF ArmsInv, QueueInv
    <3>5. say' = "none" /\ spawns' = <<>>
      BY <1>4, <3>4 DEF Lowered, TakeMovement, TakeTrigger, Hold, trackVars
    <3>6. CASE returning = 1
      <4>1. First = Rest /\ Rest.kind = "movement"
        BY <1>1, <3>1, <3>6 DEF First, ArmsInv, QueueInv, WalkIntact, Rest, Move
      <4>2. ~TakeTrigger
        BY <4>1 DEF TakeTrigger, Take, Trigger
      <4>3. current' = Rest /\ phase' = "compose" /\ UNCHANGED triggers
        BY <3>4, <4>1, <4>2 DEF TakeMovement, Hold
      <4>4. GestureLast'
        BY <1>5, <3>6, <4>3 DEF GestureLast
      <4> QED BY <3>3, <3>5, <4>3, <4>4 DEF Lowered
    <3>7. CASE returning > 1
      BY <1>1, <3>1, <3>3, <3>5, <3>7 DEF Lowered, Less
    <3> QED BY <1>1, <3>3, <3>6, <3>7
  <2>7. CASE AdvanceDone
    <3>1. phase = "advance" /\ ~CanTake /\ phase' = "compose"
          /\ UNCHANGED <<pending, returning, say, spawns>> /\ current' \in {NoStep, current}
      BY <2>7 DEF AdvanceDone, trackVars
    <3> QED BY <1>4, <2>1, <3>1 DEF Lowered
  <2>8. CASE ComposeAndEmit
    <3>1. phase = "compose" /\ UNCHANGED <<pending, returning, say, spawns, current, lastSent>>
      BY <2>8, Zenon DEF ComposeAndEmit, queueVars, trackVars, sentVars
    <3>2. CASE returning = 0
      <4>1. Composed = Zero
        <5>1. CurrentBytes = Zero
          BY <1>4, <3>2 DEF Lowered, CurrentBytes, Rest, Move, NoStep, Movement
        <5>2. spawns = <<>> BY <1>4 DEF Lowered
        <5> QED BY <5>1, <5>2, ComposedFrom, ComposedTyping DEF Composed, LastWriter, Zero
      <4>2. Buildable
        <5>1. \A b \in Bytes : CurrentBytes[b] <= MaxByte
          BY <1>4, <3>2, EngineAssumption DEF Lowered, CurrentBytes, Rest, Move, NoStep, Movement, Zero
        <5> QED BY <1>4, <5>1 DEF Lowered, Buildable
      <4>3. EmitNext(triggers, Guard(Zero), writeAge = SilenceFloor)
        BY <2>8, <4>1, <4>2, Zenon DEF ComposeAndEmit
      <4>4. LimbOver(Guard(Zero))
        BY GuardZero DEF ArmsInv, PoseInv
      <4>5. phase' \in {"trigger", "target"} => LimbOver(target)'
        BY <3>1, <4>3, <4>4 DEF EmitNext, Sleep, LimbOver
      <4>6. raised' = {} \/ (phase' = "trigger" /\ GestureLast')
        BY <1>4, <2>1, <3>2, <4>3 DEF Lowered, EmitNext, GestureLast
      <4> QED BY <1>4, <3>1, <3>2, <4>5, <4>6 DEF Lowered
    <3> QED BY <1>4, <3>1, <3>2 DEF Lowered
  <2> QED BY <1>15, <2>2, <2>3, <2>4, <2>5, <2>6, <2>7, <2>8 DEF Working, Unsent, Advance
<1> QED BY <1>7, <1>8, <1>9, <1>10, <1>11, <1>12, <1>13, <1>14, <1>15 DEF RobotNext, RobotTick

LEMMA ArmsStep ==
  ASSUME \A batch \in Batches : batch \in Seq(PoseStep), ArmsInv, [RobotNext]_allVars
  PROVE  ArmsInv'
<1>1. [Next]_vars
  BY RobotIsEngine
<1>2. SafeInv' /\ QueueInv'
  BY <1>1, SafeStep, QueueStep DEF ArmsInv
<1>3. PoseInv'
  BY <1>1, PoseStay DEF ArmsInv, QueueInv
<1>4. TargetNew' /\ LastStepNext'
  BY <1>1, NewStep, LastStepStep DEF ArmsInv
<1>5. calm' /\ clean' => Lowered'
  BY <1>4, LoweredStep
<1> QED BY <1>2, <1>3, <1>4, <1>5 DEF ArmsInv

(* When no locomotion is queued a stop ends with the arms down, whatever   *)
(* poses, speech and other stops it interrupts, and whichever frame is in  *)
(* flight then: so long as the link holds, and until something else is     *)
(* asked.                                                                  *)
THEOREM ArmsStayDown ==
  ASSUME \A batch \in Batches : batch \in Seq(PoseStep)
  PROVE  RobotSpec => []ArmsLevel
<1>1. RobotInit => ArmsInv
  <2> SUFFICES ASSUME RobotInit PROVE ArmsInv
    OBVIOUS
  <2>1. SafeInv /\ QueueInv
    BY SafeInit, QueueInit DEF RobotInit
  <2>2. /\ pending = <<>> /\ returning = 0 /\ current = NoStep /\ spawns = <<>>
        /\ lastSent = NotSent /\ phase = "sleep" /\ calm = FALSE
    BY Zenon DEF RobotInit, Init
  <2>3. PoseInv
    BY <2>2, EmptySeq DEF PoseInv, TracksOf, LastTarget, Zero, Bytes
  <2> QED BY <2>1, <2>2, <2>3 DEF ArmsInv, TargetNew, LastStepNext
<1>2. ArmsInv /\ [RobotNext]_allVars => ArmsInv'
  BY ArmsStep
<1>3. ArmsInv => ArmsLevel
  BY DEF ArmsInv, Lowered, ArmsLevel
<1> QED BY <1>1, <1>2, <1>3, PTL DEF RobotSpec
=============================================================================
