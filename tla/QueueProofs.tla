----------------------------- MODULE QueueProofs -----------------------------
(***************************************************************************)
(* Proofs about the queue of the engine: the walk of a stop stays whole,   *)
(* and the main track and its speech stay together, for every value of the *)
(* constants.                                                              *)
(***************************************************************************)
EXTENDS EngineProofs

-----------------------------------------------------------------------------
(* The walk.                                                               *)

Ends(steps, n) ==
  n > 0 =>
    /\ n <= Len(steps) /\ steps[n] = Rest
    /\ n > 1 => steps[n - 1] = Gesture(ArmsDown)

(* A fresh walk ends with the arms-down gesture and the all-zero step.     *)
LEMMA FreshWalkEnds ==
  ASSUME lastSent \in Target \cup {NotSent}
  PROVE  Ends(Walk, Len(Walk))
<1>1. PICK s \in Seq(Step) : Walk = s \o <<Gesture(ArmsDown), Rest>>
  <2>1. NeutralReturn \in Seq(Step)
    BY NeutralTyping
  <2> QED BY <2>1 DEF Walk
<1>2. <<Gesture(ArmsDown), Rest>> \in Seq(Step)
  BY StepTyping, EngineAssumption
<1>3. Len(s) \in Nat
  BY LenProperties
<1>4. /\ Len(Walk) = Len(s) + 2
      /\ Walk[Len(s) + 2] = Rest /\ Walk[Len(s) + 1] = Gesture(ArmsDown)
  <2> DEFINE e == <<Gesture(ArmsDown), Rest>>
  <2>1. Len(e) = 2 /\ e[1] = Gesture(ArmsDown) /\ e[2] = Rest
    OBVIOUS
  <2> HIDE DEF e
  <2> QED BY <1>1, <1>2, <1>3, <2>1, ConcatProperties DEF e
<1> QED BY <1>3, <1>4 DEF Ends

(* Taking the first step of the queue counts it down.                      *)
LEMMA TakeEnds ==
  ASSUME TypeOK, WalkIntact, NEW kind, Take(kind)
  PROVE  WalkIntact'
<1>1. pending \in Seq(Step) /\ pending # <<>> /\ returning \in Nat
  BY DEF TypeOK, Take, CanTake
<1>2. pending' = Tail(pending) /\ returning' = Less(returning)
  BY DEF Take
<1>3. /\ Len(pending) \in Nat /\ Len(pending') = Len(pending) - 1
      /\ \A i \in 1..Len(pending') : pending'[i] = pending[i + 1]
  BY <1>1, <1>2, HeadTailProperties, LenProperties
<1>4. CASE returning > 1
  <2>1. returning' = returning - 1 /\ returning - 1 \in Nat
    BY <1>1, <1>2, <1>4 DEF Less
  <2>2. returning - 1 \in 1..Len(pending') /\ pending'[returning - 1] = Rest
    BY <1>1, <1>3, <1>4, <2>1 DEF WalkIntact
  <2>3. returning - 1 > 1 => pending'[returning - 2] = Gesture(ArmsDown)
    BY <1>1, <1>3, <1>4, <2>1 DEF WalkIntact
  <2>4. returning' - 1 = returning - 2 /\ returning - 1 <= Len(pending')
    BY <1>1, <1>3, <2>1, <2>2
  <2> QED BY <2>1, <2>2, <2>3, <2>4 DEF WalkIntact
<1>5. CASE returning <= 1
  BY <1>1, <1>2, <1>5 DEF Less, WalkIntact
<1> QED BY <1>1, <1>4, <1>5

(* The other steps leave the queue and its count alone.                    *)
LEMMA QueueAlone ==
  ASSUME \/ TickPaused \/ TickBegin \/ PruneTrack \/ StartAdvance \/ AdvanceDone
         \/ ComposeAndEmit \/ SendFailed \/ Sent \/ Elapse \/ Outside
         \/ UNCHANGED vars
  PROVE  UNCHANGED <<pending, returning>>
<1> USE DEF queueVars
<1>1. CASE TickPaused \/ TickBegin \/ PruneTrack \/ StartAdvance \/ AdvanceDone
  BY <1>1, Zenon DEF TickPaused, TickBegin, PruneTrack, StartAdvance, AdvanceDone
<1>2. CASE ComposeAndEmit \/ SendFailed
  BY <1>2, Zenon DEF ComposeAndEmit, SendFailed
<1>3. CASE Sent
  BY <1>3 DEF Sent, TriggerSent, TargetSent, BeatSent
<1>4. CASE Elapse \/ Outside
  BY <1>4 DEF Elapse, Outside, SayEnds, LinkDrop, Reconnect
<1>5. CASE UNCHANGED vars
  BY <1>5 DEF vars
<1> QED BY <1>1, <1>2, <1>3, <1>4, <1>5

LEMMA WalkStep == TypeOK /\ WalkIntact /\ [Next]_vars => WalkIntact'
<1> SUFFICES ASSUME TypeOK, WalkIntact, [Next]_vars PROVE WalkIntact'
  OBVIOUS
<1>1. pending \in Seq(Step) /\ returning \in Nat /\ Len(pending) \in Nat
  BY LenProperties DEF TypeOK
<1>2. CASE UNCHANGED <<pending, returning>>
  BY <1>2 DEF WalkIntact
<1>3. CASE Enqueue
  <2>1. PICK batch \in Batches : pending' = pending \o batch
    BY <1>3 DEF Enqueue
  <2>2. batch \in Seq(Step) /\ Len(batch) \in Nat /\ UNCHANGED returning
    BY <1>3, EngineAssumption, LenProperties DEF Enqueue
  <2>3. Len(pending') >= Len(pending) /\ \A i \in 1..Len(pending) : pending'[i] = pending[i]
    BY <1>1, <2>1, <2>2, ConcatProperties
  <2> QED BY <1>1, <2>2, <2>3 DEF WalkIntact
<1>4. CASE Clear
  BY <1>4 DEF Clear, WalkIntact
<1>5. CASE StopAgain
  <2>1. pending' = SubSeq(pending, 1, returning) /\ UNCHANGED returning
    BY <1>1, <1>5 DEF StopAgain, WalkIntact, AtMost
  <2>2. returning <= Len(pending) /\ \A i \in 1..returning : pending[i] \in Step
    BY <1>1, <1>5, ElementOfSeq DEF StopAgain, WalkIntact
  <2>3. Len(pending') = returning /\ \A i \in 1..returning : pending'[i] = pending[i]
    BY <1>1, <2>1, <2>2, SubSeqProperties
  <2> QED BY <1>1, <2>1, <2>3 DEF WalkIntact
<1>6. CASE StopFresh
  <2>1. pending' = Walk /\ returning' = Len(Walk)
    BY <1>6 DEF StopFresh
  <2> QED BY <2>1, FreshWalkEnds DEF WalkIntact, Ends, TypeOK
<1>7. CASE TakeAny
  <2>1. \E kind : Take(kind)
    BY <1>7 DEF TakeAny, TakeMovement, TakePause, TakeSay, TakeTrigger, TakeFace
  <2> QED BY <2>1, TakeEnds
<1> QED
  BY <1>2, <1>3, <1>4, <1>5, <1>6, <1>7, QueueAlone
     DEF Next, Control, Stop, Tick, Unsent, Advance

(* No interleaving of requests, ticks, outages and refused bytes cuts the  *)
(* walk of a stop short, whatever joints it returns.                       *)
THEOREM WalkWhole == Spec => []WalkIntact
<1>1. Init => WalkIntact
  BY DEF Init, WalkIntact
<1> QED BY <1>1, InitTyping, NextTyping, WalkStep, PTL DEF Spec

-----------------------------------------------------------------------------
(* The main track and its speech.                                          *)

LEMMA SayIsApart ==
  /\ NoStep \notin Say
  /\ \A s \in Movement : s \notin Say
  /\ \A s \in Pause : s \notin Say
<1>1. \A s \in Say : s.kind = "say"
  BY DEF Say
<1>2. NoStep.kind = "none"
  BY DEF NoStep
<1>3. \A s \in Movement : s.kind = "movement"
  BY DEF Movement
<1>4. \A s \in Pause : s.kind = "pause"
  BY DEF Pause
<1> QED BY <1>1, <1>2, <1>3, <1>4

(* A stop drops what runs but for its walk, so both invariants need that   *)
(* the counted steps are the walk's own.                                   *)
WalkStepOf(step) == Returns(step) \/ step = Gesture(ArmsDown)
WalkPure == \A i \in 1..returning : WalkStepOf(pending[i])
QueueInv == TypeOK /\ WalkIntact /\ WalkPure /\ WalkAlone /\ SayHeld

LEMMA ReturnsKinds ==
  /\ Returns(Rest)
  /\ \A j \in Joints, v \in Nat : Returns(Drive(j, Paired(v), SafeHold))
  /\ \A step : Returns(step) => /\ step.kind = "movement"
                                /\ step.mode = "await"
<1>1. \A j \in Joints, v \in Nat : v % 2 = 0 => Returns(Drive(j, v, SafeHold))
  <2> SUFFICES ASSUME NEW j \in Joints, NEW v \in Nat, v % 2 = 0
               PROVE  Returns(Drive(j, v, SafeHold))
    OBVIOUS
  <2>1. Drive(j, v, SafeHold).bytes[j] = v /\ Drive(j, v, SafeHold).kind = "movement"
    BY DEF Drive, Move, Zero, Joints, Bytes
  <2> QED BY <2>1 DEF Returns
<1>2. \A v \in Nat : Paired(v) \in Nat /\ Paired(v) % 2 = 0
  BY DEF Paired
<1>3. Rest = Drive("limb", 0, SafeHold)
  BY DEF Rest, Drive, Move, Zero
<1>4. \A step : Returns(step) => step.kind = "movement" /\ step.mode = "await"
  BY DEF Returns, Drive, Move
<1> QED BY <1>1, <1>2, <1>3, <1>4 DEF Joints

LEMMA FreshWalkPure ==
  ASSUME lastSent \in Target \cup {NotSent}
  PROVE  \A i \in 1..Len(Walk) : WalkStepOf(Walk[i])
<1> DEFINE P == {s \in Step : WalkStepOf(s)}
<1>1. Rest \in P /\ Gesture(ArmsDown) \in P
  BY StepTyping, ReturnsKinds, EngineAssumption DEF WalkStepOf
<1>2. \A j \in Joints : ReturnOf(j) \in Seq(P)
  <2> SUFFICES ASSUME NEW j \in Joints PROVE ReturnOf(j) \in Seq(P)
    OBVIOUS
  <2>1. LastTarget[j] \in Nat /\ j \in Bytes
    BY LastTargetTyping DEF Target, Bytes
  <2>2. Paired(LastTarget[j]) \in Nat
    BY <2>1 DEF Paired
  <2>3. Drive(j, Paired(LastTarget[j]), SafeHold) \in P
    BY <2>1, <2>2, StepTyping, ReturnsKinds, EngineAssumption DEF WalkStepOf
  <2> HIDE DEF P
  <2> QED BY <2>3 DEF ReturnOf
<1> HIDE DEF P
<1>3. "limb" \in Joints /\ "waist" \in Joints /\ <<Rest>> \in Seq(P)
      /\ <<Gesture(ArmsDown), Rest>> \in Seq(P)
  BY <1>1 DEF Joints
<1>4. ReturnOf("limb") \o ReturnOf("waist") \in Seq(P)
  BY <1>2, <1>3, ConcatProperties
<1>5. ReturnOf("limb") \o ReturnOf("waist") \o <<Rest>> \in Seq(P)
  BY <1>3, <1>4, ConcatProperties
<1>6. NeutralReturn \in Seq(P)
  BY <1>5 DEF NeutralReturn
<1>7. Walk \in Seq(P)
  BY <1>3, <1>6, ConcatProperties DEF Walk
<1> QED BY <1>7, ElementOfSeq DEF P

(* Most steps leave what runs beside the queue alone.                      *)
LEMMA TracksAlone ==
  ASSUME \/ Enqueue \/ TickPaused \/ TickBegin \/ ComposeAndEmit \/ Sent
         \/ LinkDrop \/ Reconnect \/ UNCHANGED vars
  PROVE  UNCHANGED <<say, current, returning, trackVars, faceVars>>
<1> USE DEF queueVars
<1>1. CASE Enqueue \/ TickPaused \/ TickBegin
  BY <1>1, Zenon DEF Enqueue, TickPaused, TickBegin
<1>2. CASE ComposeAndEmit
  BY <1>2, Zenon DEF ComposeAndEmit
<1>3. CASE Sent
  BY <1>3, Zenon DEF Sent, TriggerSent, TargetSent, BeatSent
<1>4. CASE LinkDrop \/ Reconnect
  BY <1>4, Zenon DEF LinkDrop, Reconnect
<1>5. CASE UNCHANGED vars
  BY <1>5 DEF vars
<1> QED BY <1>1, <1>2, <1>3, <1>4, <1>5

LEMMA PureStep ==
  ASSUME TypeOK, WalkIntact, WalkPure, [Next]_vars
  PROVE  WalkPure'
<1>1. pending \in Seq(Step) /\ returning \in Nat /\ Len(pending) \in Nat
  BY LenProperties DEF TypeOK
<1>2. returning <= Len(pending)
  BY <1>1 DEF WalkIntact
<1>3. CASE UNCHANGED <<pending, returning>>
  BY <1>3 DEF WalkPure
<1>4. CASE Enqueue
  <2>1. PICK batch \in Batches : pending' = pending \o batch
    BY <1>4 DEF Enqueue
  <2>2. batch \in Seq(Step) /\ Len(batch) \in Nat /\ UNCHANGED returning
    BY <1>4, EngineAssumption, LenProperties DEF Enqueue
  <2>3. \A i \in 1..Len(pending) : pending'[i] = pending[i]
    BY <1>1, <2>1, <2>2, ConcatProperties
  <2> QED BY <1>1, <1>2, <2>2, <2>3 DEF WalkPure
<1>5. CASE Clear
  BY <1>5 DEF Clear, WalkPure
<1>6. CASE StopAgain
  <2>1. pending' = SubSeq(pending, 1, returning) /\ UNCHANGED returning
    BY <1>1, <1>2, <1>6 DEF StopAgain, AtMost
  <2>2. \A i \in 1..returning : pending[i] \in Step
    BY <1>1, <1>2, ElementOfSeq
  <2>3. \A i \in 1..returning : pending'[i] = pending[i]
    BY <1>1, <2>1, <2>2, SubSeqProperties
  <2> QED BY <2>1, <2>3 DEF WalkPure
<1>7. CASE StopFresh
  <2>1. pending' = Walk /\ returning' = Len(Walk)
    BY <1>7 DEF StopFresh
  <2> QED BY <2>1, FreshWalkPure DEF WalkPure, TypeOK
<1>8. CASE TakeAny
  <2>1. PICK kind : Take(kind)
    BY <1>8 DEF TakeAny, TakeMovement, TakePause, TakeSay, TakeTrigger, TakeFace
  <2>2. pending # <<>> /\ pending' = Tail(pending) /\ returning' = Less(returning)
    BY <2>1 DEF Take, CanTake
  <2>3. /\ Len(pending') = Len(pending) - 1
        /\ \A i \in 1..Len(pending') : pending'[i] = pending[i + 1]
    BY <1>1, <2>2, HeadTailProperties
  <2>4. \A i \in 1..returning' : i + 1 \in 1..returning /\ pending'[i] = pending[i + 1]
    BY <1>1, <1>2, <2>2, <2>3 DEF Less
  <2> QED BY <2>4 DEF WalkPure
<1> QED
  BY <1>3, <1>4, <1>5, <1>6, <1>7, <1>8, QueueAlone
     DEF Next, Control, Stop, Tick, Unsent, Advance

(* While a walk is pending, the step taken next is the walk's.             *)
LEMMA FirstOfWalk ==
  ASSUME TypeOK, WalkIntact, WalkPure, TakeAny, returning > 0
  PROVE  \/ TakeMovement /\ Returns(First) /\ First.mode = "await"
         \/ TakeTrigger
<1>1. pending # <<>> /\ pending \in Seq(Step)
  BY DEF TakeAny, TakeMovement, TakePause, TakeSay, TakeTrigger, TakeFace,
         Take, CanTake, TypeOK
<1>2. First = pending[1]
  BY <1>1 DEF First
<1>3. WalkStepOf(First)
  BY <1>2 DEF WalkPure, TypeOK
<1>4. First.kind \in {"movement", "gesture"}
  BY <1>3, ReturnsKinds DEF WalkStepOf, Gesture
<1>5. First \notin Pause /\ First \notin Say /\ First \notin Face
  BY <1>4 DEF Pause, Say, Face
<1>6. CASE TakeMovement
  <2>1. First.kind = "movement"
    BY <1>6 DEF TakeMovement, Take, Movement
  <2>2. Returns(First)
    BY <1>3, <2>1 DEF WalkStepOf, Gesture
  <2> QED BY <1>6, <2>2, ReturnsKinds
<1> QED BY <1>5, <1>6 DEF TakeAny, TakePause, TakeSay, TakeFace, Take

LEMMA AloneStep ==
  ASSUME TypeOK, WalkIntact, WalkPure, WalkAlone, [Next]_vars
  PROVE  WalkAlone'
<1> USE DEF queueVars, trackVars, faceVars
<1> SUFFICES ASSUME returning' > 0, ~StopFresh PROVE WalkAlone'
  BY DEF WalkAlone, StopFresh, Abort
<1>1. CASE UNCHANGED <<say, current, returning, trackVars, faceVars>>
  BY <1>1 DEF WalkAlone
<1>2. CASE Clear
  BY <1>2 DEF Clear
<1>3. CASE StopAgain
  BY <1>3 DEF StopAgain, Abort, WalkAlone
<1>4. CASE PruneTrack
  <2>1. returning > 0 => DOMAIN spawns = {}
    BY DEF WalkAlone
  <2> QED BY <1>4, <2>1 DEF PruneTrack
<1>5. CASE StartAdvance
  <2>1. returning > 0 /\ say = "none" /\ spawnSay = 0
    BY <1>5 DEF StartAdvance, WalkAlone
  <2>2. UNCHANGED <<say, current>> /\ spawnSay' = 0
    BY <1>5, <2>1 DEF StartAdvance, SayEnded
  <2> QED BY <1>5, <2>1, <2>2 DEF StartAdvance, WalkAlone
<1>6. CASE TakeAny
  <2>1. returning > 0
    BY <1>6 DEF TakeAny, TakeMovement, TakePause, TakeSay, TakeTrigger, TakeFace,
                Take, Less, TypeOK
  <2>2. CASE TakeMovement /\ Returns(First) /\ First.mode = "await"
    BY <2>1, <2>2 DEF TakeMovement, Hold, WalkAlone
  <2>3. CASE TakeTrigger
    BY <2>1, <2>3 DEF TakeTrigger, WalkAlone
  <2> QED BY <1>6, <2>1, <2>2, <2>3, FirstOfWalk
<1>7. CASE AdvanceDone
  BY <1>7 DEF AdvanceDone, WalkAlone
<1>8. CASE SendFailed
  BY <1>8 DEF SendFailed, WalkAlone
<1>9. CASE Elapse
  <2>1. returning > 0 /\ spawns = <<>>
    BY <1>9 DEF Elapse, WalkAlone
  <2>2. spawns' = <<>>
    BY <1>9, <2>1 DEF Elapse
  <2> QED BY <1>9, <2>1, <2>2 DEF Elapse, WalkAlone
<1>10. CASE SayEnds
  BY <1>10 DEF SayEnds, WalkAlone
<1> QED
  BY <1>1, <1>2, <1>3, <1>4, <1>5, <1>6, <1>7, <1>8, <1>9, <1>10, TracksAlone
     DEF Next, Control, Stop, Tick, Unsent, Advance, Outside

LEMMA SayStep ==
  ASSUME TypeOK, WalkAlone, SayHeld, [Next]_vars
  PROVE  SayHeld'
<1> USE DEF queueVars
<1>1. CASE UNCHANGED <<say, current>>
  BY <1>1 DEF SayHeld
<1>2. CASE Stop
  <2>1. say' = "none"
    BY <1>2 DEF Stop, StopAgain, StopFresh, Abort
  <2>2. CASE StopFresh
    BY <2>1, <2>2, SayIsApart DEF StopFresh, SayHeld
  <2>3. CASE StopAgain
    BY <2>1, <2>3 DEF StopAgain, WalkAlone, SayHeld
  <2> QED BY <1>2, <2>2, <2>3 DEF Stop
<1>3. CASE StartAdvance
  BY <1>3, SayIsApart DEF StartAdvance, SayEnded, SayHeld
<1>4. CASE TakeAny
  <2>1. CASE TakeMovement
    BY <2>1, SayIsApart DEF TakeMovement, Take, CanTake, Continue, Hold, SayHeld, First
  <2>2. CASE TakePause
    BY <2>2, SayIsApart DEF TakePause, Take, CanTake, Continue, Hold, SayHeld, First
  <2>3. CASE TakeSay
    BY <2>3 DEF TakeSay, Take, CanTake, Continue, Hold, SayHeld, First
  <2>4. CASE TakeTrigger \/ TakeFace
    BY <2>4 DEF TakeTrigger, TakeFace, SayHeld
  <2> QED BY <1>4, <2>1, <2>2, <2>3, <2>4 DEF TakeAny
<1>5. CASE AdvanceDone
  BY <1>5, SayIsApart DEF AdvanceDone, SayHeld
<1>6. CASE SendFailed
  BY <1>6, SayIsApart DEF SendFailed, Dropped, InLocomotion, SayHeld
<1>7. CASE SayEnds
  BY <1>7 DEF SayEnds, SayHeld
<1>8. CASE Clear \/ PruneTrack \/ Elapse
  <2>1. UNCHANGED <<say, current>>
    BY <1>8, Zenon DEF Clear, PruneTrack, Elapse
  <2> QED BY <2>1 DEF SayHeld
<1> QED
  BY <1>1, <1>2, <1>3, <1>4, <1>5, <1>6, <1>7, <1>8, TracksAlone
     DEF Next, Control, Tick, Unsent, Advance, Outside

LEMMA QueueInit == Init => QueueInv
BY InitTyping, SayIsApart
   DEF Init, QueueInv, WalkIntact, WalkPure, WalkAlone, SayHeld

LEMMA QueueStep == QueueInv /\ [Next]_vars => QueueInv'
BY NextTyping, WalkStep, PureStep, AloneStep, SayStep DEF QueueInv

(* While a stop's walk is pending nothing but the walk drives the robot,   *)
(* whatever is asked and whatever fails meanwhile.                         *)
THEOREM WalkLonely == Spec => []WalkAlone
<1>1. QueueInv => WalkAlone
  BY DEF QueueInv
<1> QED BY <1>1, QueueInit, QueueStep, PTL DEF Spec

(* The queue waits on a speech process exactly while its current step is   *)
(* that speech, whatever stops, ends and outages interleave.               *)
THEOREM SpeechHeld == Spec => []SayHeld
<1>1. QueueInv => SayHeld
  BY DEF QueueInv
<1> QED BY <1>1, QueueInit, QueueStep, PTL DEF Spec
=============================================================================
