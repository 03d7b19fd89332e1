---------------------------- MODULE EngineProofs ----------------------------
(***************************************************************************)
(* Proofs about the engine, for every value of its constants: the type     *)
(* invariant, the safety of the frame in flight, and the refinement of     *)
(* ServoLine, the contract of the joint guard.                             *)
(***************************************************************************)
EXTENDS Engine, TLAPS, SequenceTheorems, WellFoundedInduction

-----------------------------------------------------------------------------
(* Facts about the operators the engine is built from.                     *)

(* A nonempty set of numbers has a least element.                          *)
LEMMA HasMinimum ==
  ASSUME NEW T \in SUBSET Nat, T # {}
  PROVE  \E m \in T : \A k \in T : m <= k
<1> DEFINE R == OpToRel(<, Nat)
<1>1. IsWellFoundedOn(R, Nat)
  BY NatLessThanWellFounded
<1>2. PICK m \in T : \A k \in T : ~ (<<k, m>> \in R)
  <2> HIDE DEF R
  <2> QED BY <1>1, WFMin
<1>3. \A k \in T : ~ (k < m)
  BY <1>2 DEF OpToRel
<1> QED BY <1>3

(* The last writer of _compose is one of the writers.                      *)
LEMMA LastIsMember ==
  ASSUME NEW n \in Nat, NEW W \in SUBSET (1..n), W # {}
  PROVE  Max(W) \in W
<1> DEFINE T == {n - k : k \in W}
<1>1. \A k \in W : k \in 1..n /\ n - k \in Nat
  OBVIOUS
<1>2. T \in SUBSET Nat /\ T # {}
  BY <1>1
<1>3. PICK m \in T : \A k \in T : m <= k
  <2> HIDE DEF T
  <2> QED BY <1>2, HasMinimum
<1>4. PICK x \in W : m = n - x
  OBVIOUS
<1>5. \A y \in W : x >= y
  BY <1>1, <1>3, <1>4
<1> QED BY <1>5 DEF Max

LEMMA AgeCapTyping == AgeCap \in Nat
<1>1. \E x \in {SafeHold, SilenceFloor} : \A y \in {SafeHold, SilenceFloor} : x >= y
  BY EngineAssumption
<1> QED BY <1>1, EngineAssumption DEF AgeCap, Max

(* The steps a stop builds are steps.                                      *)
LEMMA StepTyping ==
  /\ \A b \in Bytes, v \in Nat, h \in Nat : Drive(b, v, h) \in Step
  /\ \A c \in Nat : Gesture(c) \in Step
  /\ Rest \in Step
<1>1. Zero \in Target
  BY DEF Zero, Target
<1>2. \A t \in Target, h \in Nat : Move(t, h, "await") \in Movement
  BY DEF Move, Movement, Mode
<1>3. \A b \in Bytes, v \in Nat : [Zero EXCEPT ![b] = v] \in Target
  BY DEF Zero, Target
<1>4. \A c \in Nat : Gesture(c) \in Trigger
  BY DEF Gesture, Trigger
<1> QED BY <1>1, <1>2, <1>3, <1>4, EngineAssumption DEF Drive, Rest, Step

LEMMA LastTargetTyping ==
  ASSUME lastSent \in Target \cup {NotSent}
  PROVE  LastTarget \in Target
BY DEF LastTarget, Zero, Target

LEMMA TargetIsSent == NotSent \notin Target
<1>1. DOMAIN NotSent = {"kind"}
  BY DEF NotSent
<1>2. \A t \in Target : DOMAIN t = Bytes
  BY DEF Target
<1>3. "loco" \in Bytes
  BY DEF Bytes
<1> QED BY <1>1, <1>2, <1>3

LEMMA NeutralTyping ==
  ASSUME lastSent \in Target \cup {NotSent}
  PROVE  NeutralReturn \in Seq(Step)
<1>1. \A j \in Joints : ReturnOf(j) \in Seq(Step)
  <2> SUFFICES ASSUME NEW j \in Joints PROVE ReturnOf(j) \in Seq(Step)
    OBVIOUS
  <2>1. LastTarget[j] \in Nat /\ j \in Bytes
    BY LastTargetTyping DEF Target, Bytes
  <2>2. Paired(LastTarget[j]) \in Nat
    BY <2>1 DEF Paired
  <2>3. Drive(j, Paired(LastTarget[j]), SafeHold) \in Step
    BY <2>1, <2>2, StepTyping, EngineAssumption
  <2> QED BY <2>3 DEF ReturnOf
<1>2. "limb" \in Joints /\ "waist" \in Joints /\ <<Rest>> \in Seq(Step)
  BY StepTyping DEF Joints
<1>3. ReturnOf("limb") \o ReturnOf("waist") \in Seq(Step)
  BY <1>1, <1>2, ConcatProperties
<1>4. ReturnOf("limb") \o ReturnOf("waist") \o <<Rest>> \in Seq(Step)
  BY <1>2, <1>3, ConcatProperties
<1> QED BY <1>4 DEF NeutralReturn

LEMMA WalkTyping ==
  ASSUME lastSent \in Target \cup {NotSent}
  PROVE  Walk \in Seq(Step) /\ Len(Walk) \in Nat
<1>1. <<Gesture(ArmsDown), Rest>> \in Seq(Step)
  BY StepTyping, EngineAssumption
<1>2. Walk \in Seq(Step)
  BY <1>1, NeutralTyping, ConcatProperties DEF Walk
<1> QED BY <1>2, LenProperties

LEMMA ComposedTyping ==
  ASSUME spawns \in Seq(Track), current \in Step \cup {NoStep}
  PROVE  Composed \in Target
<1>1. CurrentBytes \in Target
  BY DEF CurrentBytes, Movement, Zero, Target
<1>2. ASSUME NEW b \in Bytes PROVE LastWriter(b) \in Nat
  <2> DEFINE W == {k \in DOMAIN spawns : spawns[k].step.bytes[b] # 0}
  <2>1. CASE W = {}
    BY <1>1, <2>1 DEF LastWriter, Target
  <2>2. CASE W # {}
    <3>1. W \in SUBSET (1..Len(spawns)) /\ Len(spawns) \in Nat
      BY LenProperties
    <3>2. Max(W) \in W
      <4> HIDE DEF W
      <4> QED BY <3>1, <2>2, LastIsMember
    <3>3. spawns[Max(W)] \in Track
      BY <3>1, <3>2, ElementOfSeq
    <3>4. spawns[Max(W)].step.bytes[b] \in Nat
      BY <3>3 DEF Track, Movement, Target
    <3> QED BY <2>2, <3>4 DEF LastWriter
  <2> QED BY <2>1, <2>2
<1> QED BY <1>2 DEF Composed, Target

LEMMA GuardTyping ==
  ASSUME lastSent \in Target \cup {NotSent}, NEW composed \in Target
  PROVE  Guard(composed) \in Target
<1>1. RateLimited(composed) \in Target
  BY LastTargetTyping DEF RateLimited, Target
<1> QED BY <1>1 DEF Guard, Target, Joints, Bytes

-----------------------------------------------------------------------------
(* The type invariant, action by action.                                   *)

LEMMA ControlTyping ==
  ASSUME TypeOK, Control
  PROVE  TypeOK'
<1>1. CASE Enqueue
  <2>1. PICK batch \in Batches : pending' = pending \o batch
    BY <1>1 DEF Enqueue
  <2>2. batch \in Seq(Step) /\ pending \in Seq(Step)
    BY EngineAssumption DEF TypeOK
  <2>3. pending' \in Seq(Step)
    BY <2>1, <2>2, ConcatProperties
  <2> QED BY <1>1, <2>3 DEF Enqueue, TypeOK, trackVars, faceVars, sentVars, loopVars, linkVars
<1>2. CASE Clear
  BY <1>2 DEF Clear, TypeOK, trackVars, faceVars, sentVars, loopVars, linkVars
<1>3. CASE StopAgain
  <2>1. pending \in Seq(Step) /\ Len(pending) \in Nat /\ returning \in Nat
    BY LenProperties DEF TypeOK
  <2>2. AtMost(returning, Len(pending)) \in 0..Len(pending)
    BY <2>1 DEF AtMost
  <2>3. \A i \in 1..AtMost(returning, Len(pending)) : pending[i] \in Step
    BY <2>1, <2>2, ElementOfSeq
  <2>4. pending' \in Seq(Step)
    BY <1>3, <2>1, <2>2, <2>3, SubSeqProperties DEF StopAgain
  <2> QED BY <1>3, <2>4 DEF StopAgain, Abort, TypeOK, sentVars, loopVars, linkVars
<1>4. CASE StopFresh
  <2>1. Walk \in Seq(Step) /\ Len(Walk) \in Nat
    BY WalkTyping DEF TypeOK
  <2> QED BY <1>4, <2>1 DEF StopFresh, Abort, TypeOK, sentVars, loopVars, linkVars
<1> QED BY <1>1, <1>2, <1>3, <1>4 DEF Control, Stop

LEMMA SleepTyping == Sleep => /\ phase' \in {"sleep"} /\ elapsed' \in Nat
                              /\ triggers' \in Seq(Trigger)
                              /\ target' \in Target /\ beat' \in Nat
BY DEF Sleep, Zero, Target

LEMMA TakeTyping ==
  ASSUME TypeOK, NEW kind, Take(kind)
  PROVE  /\ pending' \in Seq(Step) /\ returning' \in Nat
         /\ First \in Step /\ First \in kind
<1>1. pending \in Seq(Step) /\ pending # <<>>
  BY DEF TypeOK, Take, CanTake
<1>2. First \in Step /\ Tail(pending) \in Seq(Step)
  BY <1>1, HeadTailProperties DEF First
<1> QED BY <1>2 DEF Take, TypeOK, Less

LEMMA TakeAnyTyping ==
  ASSUME TypeOK, TakeAny
  PROVE  TypeOK'
<1> USE DEF sentVars, loopVars, linkVars, trackVars, faceVars
<1>1. CASE TakeMovement
  <2>1. Take(Movement) BY <1>1 DEF TakeMovement
  <2>2. /\ pending' \in Seq(Step) /\ returning' \in Nat
        /\ First \in Step /\ First \in Movement
    BY <2>1, TakeTyping
  <2>3. First.hold \in Nat BY <2>2 DEF Movement
  <2>4. [step |-> First, left |-> First.hold] \in Track
    BY <2>2, <2>3 DEF Track
  <2>5. spawns' \in Seq(Track)
    <3>1. spawns \in Seq(Track) BY DEF TypeOK
    <3>2. Append(spawns, [step |-> First, left |-> First.hold]) \in Seq(Track)
      BY <2>4, <3>1, AppendProperties
    <3> QED BY <1>1, <3>1, <3>2 DEF TakeMovement
  <2> QED BY <1>1, <2>1, <2>2, <2>3, <2>5
           DEF TakeMovement, Take, Continue, Hold, TypeOK, Sync
<1>2. CASE TakePause
  <2>1. Take(Pause) BY <1>2 DEF TakePause
  <2>2. /\ pending' \in Seq(Step) /\ returning' \in Nat
        /\ First \in Step /\ First \in Pause
    BY <2>1, TakeTyping
  <2>3. First.hold \in Nat BY <2>2 DEF Pause
  <2> QED BY <1>2, <2>1, <2>2, <2>3
           DEF TakePause, Take, Continue, Hold, TypeOK, Sync
<1>3. CASE TakeSay
  <2>1. Take(Say) BY <1>3 DEF TakeSay
  <2>2. /\ pending' \in Seq(Step) /\ returning' \in Nat
        /\ First \in Step /\ First \in Say
    BY <2>1, TakeTyping
  <2>3. UNCHANGED <<sentVars, linkVars, spawns, faceVars>>
    BY <1>3, <2>1 DEF TakeSay, Take
  <2>4. CASE UNCHANGED <<current, left, say, loopVars>>
    BY <1>3, <2>2, <2>3, <2>4 DEF TakeSay, TypeOK, Sync
  <2>5. CASE say' = "running" /\ Hold(0) /\ UNCHANGED spawnSay
    BY <2>2, <2>3, <2>5 DEF Hold, TypeOK, Sync
  <2> QED BY <1>3, <2>4, <2>5 DEF TakeSay, Continue
<1>4. CASE TakeTrigger
  <2>1. Take(Trigger) BY <1>4 DEF TakeTrigger
  <2>2. /\ pending' \in Seq(Step) /\ returning' \in Nat
        /\ First \in Step /\ First \in Trigger
    BY <2>1, TakeTyping
  <2>3. Append(triggers, First) \in Seq(Trigger)
    BY <2>2, AppendProperties DEF TypeOK
  <2>4. CASE First.code > MaxByte /\ Sleep
    BY <1>4, <2>1, <2>2, <2>4, SleepTyping DEF TakeTrigger, Take, TypeOK
  <2>5. CASE /\ triggers' = Append(triggers, First)
             /\ UNCHANGED <<phase, elapsed, target, beat>>
    <3>1. phase = "advance"
      BY <2>1 DEF Take, CanTake
    <3> QED BY <1>4, <2>1, <2>2, <2>3, <2>5, <3>1 DEF TakeTrigger, Take, TypeOK
  <2> QED BY <1>4, <2>4, <2>5 DEF TakeTrigger
<1>5. CASE TakeFace
  <2>1. Take(Face) BY <1>5 DEF TakeFace
  <2>2. /\ pending' \in Seq(Step) /\ returning' \in Nat
        /\ First \in Step /\ First \in Face
    BY <2>1, TakeTyping
  <2>3. First.code \in Nat BY <2>2 DEF Face
  <2> QED BY <1>5, <2>1, <2>2, <2>3, SleepTyping DEF TakeFace, Take, TypeOK
<1> QED BY <1>1, <1>2, <1>3, <1>4, <1>5 DEF TakeAny

LEMMA RemoveTyping ==
  ASSUME NEW S, NEW s \in Seq(S), NEW k \in DOMAIN s
  PROVE  RemoveAt(s, k) \in Seq(S)
<1>1. Len(s) \in Nat /\ k \in 1..Len(s) BY LenProperties
<1>2. \A i \in 1..Len(s) : s[i] \in S BY ElementOfSeq
<1>3. SubSeq(s, 1, k-1) \in Seq(S) BY <1>1, <1>2, SubSeqProperties
<1>4. SubSeq(s, k+1, Len(s)) \in Seq(S) BY <1>1, <1>2, SubSeqProperties
<1> QED BY <1>3, <1>4, ConcatProperties DEF RemoveAt

LEMMA EmitTyping ==
  ASSUME TypeOK, NEW frames \in Seq(Trigger), NEW guarded \in Target,
         NEW floorPassed, EmitNext(frames, guarded, floorPassed)
  PROVE  /\ phase' \in {"sleep"} \cup Sending /\ elapsed' \in Nat
         /\ triggers' \in Seq(Trigger) /\ target' \in Target /\ beat' \in Nat
         /\ phase' = "trigger" => triggers' # <<>>
<1>1. Zero \in Target BY DEF Zero, Target
<1>2. <<>> \in Seq(Trigger) BY EmptySeq
<1> QED BY <1>1, <1>2, SleepTyping DEF EmitNext, TypeOK, Sending

LEMMA TickTyping ==
  ASSUME TypeOK, Tick
  PROVE  TypeOK'
<1> USE DEF queueVars, sentVars, loopVars, linkVars, trackVars, faceVars
<1>1. CASE TickPaused
  BY <1>1 DEF TickPaused, TypeOK
<1>2. CASE TickBegin
  <2>1. \/ lastSent' = NotSent /\ lastFace' = 0 /\ writeAge' = SilenceFloor
        \/ UNCHANGED <<lastSent, lastFace, writeAge>>
    BY <1>2, Zenon DEF TickBegin, ResumeAfterOutage
  <2>2. paused' \in BOOLEAN /\ phase' = "prune" /\ elapsed' = 0
    BY <1>2 DEF TickBegin, ResumeAfterOutage
  <2>3. UNCHANGED <<queueVars, trackVars, faceVars, jointAge, link, reconnecting,
                    triggers, target, beat>>
    BY <1>2, Zenon DEF TickBegin
  <2> QED BY <2>1, <2>2, <2>3, EngineAssumption DEF TypeOK, Sync
<1>3. CASE PruneTrack
  <2>1. PICK k \in DOMAIN spawns : spawns' = RemoveAt(spawns, k)
    BY <1>3 DEF PruneTrack
  <2>2. spawns' \in Seq(Track)
    BY <2>1, RemoveTyping DEF TypeOK
  <2> QED BY <1>3, <2>2 DEF PruneTrack, TypeOK
<1>4. CASE StartAdvance
  <2>1. spawnSay' \in Nat
    BY <1>4 DEF StartAdvance, TypeOK
  <2> QED BY <1>4, <2>1 DEF StartAdvance, SayEnded, TypeOK, Sync
<1>5. CASE TakeAny
  BY <1>5, TakeAnyTyping
<1>6. CASE AdvanceDone
  BY <1>6 DEF AdvanceDone, TypeOK, Sync
<1>7. CASE ComposeAndEmit
  <2>1. Guard(Composed) \in Target
    BY ComposedTyping, GuardTyping DEF TypeOK
  <2>2. /\ phase' \in {"sleep"} \cup Sending /\ elapsed' \in Nat
        /\ triggers' \in Seq(Trigger) /\ target' \in Target /\ beat' \in Nat
        /\ phase' = "trigger" => triggers' # <<>>
    <3>1. CASE Sleep BY <3>1, SleepTyping
    <3>2. CASE EmitNext(triggers, Guard(Composed), writeAge = SilenceFloor)
      BY <2>1, <3>2, EmitTyping DEF TypeOK
    <3> QED BY <1>7, <3>1, <3>2 DEF ComposeAndEmit
  <2> QED BY <1>7, <2>2 DEF ComposeAndEmit, TypeOK
<1>8. CASE SendFailed
  BY <1>8, SleepTyping DEF SendFailed, TypeOK
<1>9. CASE TriggerSent
  <2>1. Tail(triggers) \in Seq(Trigger)
    BY <1>9, HeadTailProperties DEF TriggerSent, TypeOK
  <2>2. EmitNext(Tail(triggers), target, FALSE)
    BY <1>9 DEF TriggerSent
  <2>3. /\ phase' \in {"sleep"} \cup Sending /\ elapsed' \in Nat
        /\ triggers' \in Seq(Trigger) /\ target' \in Target /\ beat' \in Nat
        /\ phase' = "trigger" => triggers' # <<>>
    BY <2>1, <2>2, EmitTyping DEF TypeOK
  <2>4. writeAge' \in 0..SilenceFloor
    BY <1>9, EngineAssumption DEF TriggerSent, AtMost, TypeOK
  <2> QED BY <1>9, <2>3, <2>4 DEF TriggerSent, TypeOK
<1>10. CASE TargetSent
  BY <1>10, SleepTyping, EngineAssumption DEF TargetSent, TypeOK, AtMost
<1>11. CASE BeatSent
  BY <1>11, SleepTyping, EngineAssumption DEF BeatSent, TypeOK, AtMost
<1> QED BY <1>1, <1>2, <1>3, <1>4, <1>5, <1>6, <1>7, <1>8, <1>9, <1>10, <1>11
        DEF Tick, Unsent, Sent, Advance

LEMMA ElapseTyping ==
  ASSUME TypeOK, Elapse
  PROVE  TypeOK'
<1>1. elapsed' \in Nat
  <2>1. \/ elapsed' = AtMost(elapsed + 1, TickInterval)
        \/ elapsed' = AtMost(elapsed + 1, AgeCap)
    BY Zenon DEF Elapse
  <2> QED BY <2>1, AgeCapTyping, EngineAssumption DEF TypeOK, AtMost
<1>2. left' \in Nat
  BY DEF Elapse, TypeOK, Less
<1>3. spawns' \in Seq(Track)
  <2>1. Len(spawns) \in Nat /\ DOMAIN spawns = 1..Len(spawns)
    BY LenProperties DEF TypeOK
  <2>2. \A k \in 1..Len(spawns) : spawns[k] \in Track
    BY ElementOfSeq DEF TypeOK
  <2>3. \A k \in 1..Len(spawns) : [spawns[k] EXCEPT !.left = Less(@)] \in Track
    BY <2>2 DEF Track, Less
  <2>4. spawns' \in [1..Len(spawns) -> Track] \/ spawns' = spawns
    BY <2>1, <2>3 DEF Elapse
  <2>5. [1..Len(spawns) -> Track] \subseteq Seq(Track)
    BY <2>1, SeqDef
  <2> QED BY <2>4, <2>5 DEF TypeOK
<1>4. writeAge' \in 0..SilenceFloor /\ jointAge' \in [Joints -> 0..SafeHold]
  <2>1. /\ writeAge' = AtMost(writeAge + 1, SilenceFloor)
        /\ jointAge' = [j \in Joints |-> AtMost(jointAge[j] + 1, SafeHold)]
    BY DEF Elapse
  <2> QED BY <2>1, EngineAssumption DEF TypeOK, AtMost
<1> QED BY <1>1, <1>2, <1>3, <1>4 DEF Elapse, TypeOK, faceVars, linkVars

LEMMA OutsideTyping ==
  ASSUME TypeOK, Outside
  PROVE  TypeOK'
<1> USE DEF queueVars, trackVars, faceVars, sentVars, loopVars, linkVars
<1>1. CASE SayEnds   BY <1>1 DEF SayEnds, TypeOK
<1>2. CASE LinkDrop  BY <1>2 DEF LinkDrop, TypeOK
<1>3. CASE Reconnect BY <1>3 DEF Reconnect, TypeOK
<1> QED BY <1>1, <1>2, <1>3 DEF Outside

LEMMA InitTyping == Init => TypeOK
<1> SUFFICES ASSUME Init PROVE TypeOK
  OBVIOUS
<1>1. <<>> \in Seq(Step) /\ <<>> \in Seq(Track) /\ <<>> \in Seq(Trigger)
  BY EmptySeq
<1>2. Zero \in Target BY DEF Zero, Target
<1>3. link \in {"up", "down"}
  BY DEF Init
<1>4. jointAge \in [Joints -> 0..SafeHold] /\ writeAge \in 0..SilenceFloor
  BY EngineAssumption DEF Init
<1> QED BY <1>1, <1>2, <1>3, <1>4, EngineAssumption DEF Init, TypeOK

LEMMA NextTyping == TypeOK /\ [Next]_vars => TypeOK'
<1> SUFFICES ASSUME TypeOK, [Next]_vars PROVE TypeOK'
  OBVIOUS
<1>1. CASE UNCHANGED vars
  BY <1>1 DEF TypeOK, vars, queueVars, trackVars, faceVars, sentVars, loopVars, linkVars
<1> QED BY <1>1, ControlTyping, TickTyping, ElapseTyping, OutsideTyping DEF Next

(* Every variable of the engine keeps its type, for every value of the     *)
(* constants.                                                              *)
THEOREM Typing == Spec => []TypeOK
BY InitTyping, NextTyping, PTL DEF Spec

-----------------------------------------------------------------------------
(* The safety of the frame in flight.  TargetSafe alone is not inductive:  *)
(* the guard keeps one joint of a compound target by looking at the last   *)
(* frame, so that frame must itself have left a joint at rest.             *)

LastOneDriven == \E j \in Joints : LastTarget[j] = 0
SafeInv       == TypeOK /\ LastOneDriven /\ TargetSafe

Safe(joints) ==
  /\ \E j \in Joints : joints[j] = 0
  /\ \A j \in Joints : joints[j] # LastTarget[j] => jointAge[j] = SafeHold

(* What _guard returns is safe to send, whatever was composed.             *)
LEMMA GuardSafe ==
  ASSUME TypeOK, LastOneDriven, NEW composed \in Target
  PROVE  Safe(Guard(composed))
<1> DEFINE limited == RateLimited(composed)
<1>1. LastTarget \in Target /\ limited \in Target
  BY LastTargetTyping DEF TypeOK, RateLimited, Target
<1>2. \A j \in Joints : limited[j] # LastTarget[j] => jointAge[j] = SafeHold
  <2> SUFFICES ASSUME NEW j \in Joints, limited[j] # LastTarget[j]
               PROVE  jointAge[j] = SafeHold
    OBVIOUS
  <2>1. ~ (jointAge[j] < SafeHold) /\ jointAge[j] \in 0..SafeHold
    BY DEF RateLimited, Joints, Bytes, TypeOK
  <2> QED BY <2>1, EngineAssumption
<1> HIDE DEF limited
<1>3. CASE \A j \in Joints : limited[j] # 0
  <2>1. CASE LastTarget["limb"] # 0
    <3>1. Guard(composed) = [limited EXCEPT !["waist"] = 0]
      BY <1>3, <2>1 DEF Guard, limited
    <3>2. LastTarget["waist"] = 0
      BY <2>1 DEF LastOneDriven, Joints
    <3> QED BY <1>1, <1>2, <3>1, <3>2 DEF Safe, Joints, Bytes, Target
  <2>2. CASE LastTarget["limb"] = 0
    <3>1. Guard(composed) = [limited EXCEPT !["limb"] = 0]
      BY <1>3, <2>2 DEF Guard, limited
    <3> QED BY <1>1, <1>2, <2>2, <3>1 DEF Safe, Joints, Bytes, Target
  <2> QED BY <2>1, <2>2
<1>4. CASE \E j \in Joints : limited[j] = 0
  <2>1. Guard(composed) = limited
    BY <1>4 DEF Guard, limited
  <2> QED BY <1>2, <1>4, <2>1 DEF Safe
<1> QED BY <1>3, <1>4

(* The frame a tick sends is safe while it waits for the ones before it.   *)
LEMMA EmitSafe ==
  ASSUME NEW frames, NEW guarded, NEW floorPassed, Safe(guarded),
         EmitNext(frames, guarded, floorPassed), UNCHANGED <<lastSent, jointAge>>
  PROVE  TargetSafe'
<1>1. CASE phase' \in {"trigger", "target"}
  <2>1. target' = guarded
    BY <1>1 DEF EmitNext, Sleep
  <2>2. LastTarget' = LastTarget
    BY DEF LastTarget
  <2> QED BY <2>1, <2>2 DEF TargetSafe, Safe
<1>2. CASE phase' \notin {"trigger", "target"}
  BY <1>2 DEF TargetSafe
<1> QED BY <1>1, <1>2

(* The steps that neither send a target nor let time pass leave the line   *)
(* alone, but for the outage, which forgets it.                            *)
LEMMA LineAlone ==
  ASSUME Control \/ Advance \/ TickPaused \/ ComposeAndEmit \/ SendFailed
           \/ TriggerSent \/ BeatSent \/ Outside
  PROVE  UNCHANGED <<lastSent, jointAge>>
<1> USE DEF sentVars
<1>1. CASE Control
  BY <1>1 DEF Control, Enqueue, Clear, Stop, StopAgain, StopFresh
<1>2. CASE Advance
  BY <1>2 DEF Advance, PruneTrack, StartAdvance, AdvanceDone, TakeAny, Take,
              TakeMovement, TakePause, TakeSay, TakeTrigger, TakeFace
<1>3. CASE TickPaused \/ ComposeAndEmit \/ SendFailed \/ TriggerSent \/ BeatSent
  BY <1>3 DEF TickPaused, ComposeAndEmit, SendFailed, TriggerSent, BeatSent
<1>4. CASE Outside
  BY <1>4 DEF Outside, SayEnds, LinkDrop, Reconnect
<1> QED BY <1>1, <1>2, <1>3, <1>4

LEMMA ResumeLine ==
  ASSUME TickBegin
  PROVE  /\ LastTarget' = Zero \/ LastTarget' = LastTarget
         /\ UNCHANGED jointAge /\ phase' = "prune"
<1>1. lastSent' = NotSent \/ lastSent' = lastSent
  BY Zenon DEF TickBegin, ResumeAfterOutage
<1>2. UNCHANGED jointAge /\ phase' = "prune"
  BY Zenon DEF TickBegin
<1> QED BY <1>1, <1>2 DEF LastTarget

LEMMA AgesGrow ==
  ASSUME TypeOK, Elapse
  PROVE  /\ UNCHANGED <<lastSent, target, phase>>
         /\ jointAge' = [j \in Joints |-> IF jointAge[j] < SafeHold
                                          THEN jointAge[j] + 1 ELSE SafeHold]
<1>1. jointAge' = [j \in Joints |-> AtMost(jointAge[j] + 1, SafeHold)]
  BY DEF Elapse
<1>2. \A j \in Joints : jointAge[j] \in 0..SafeHold /\ SafeHold \in Nat
  BY EngineAssumption DEF TypeOK
<1> QED BY <1>1, <1>2 DEF AtMost, Elapse

LEMMA SafeStep == SafeInv /\ [Next]_vars => SafeInv'
<1> SUFFICES ASSUME SafeInv, [Next]_vars PROVE SafeInv'
  OBVIOUS
<1>1. TypeOK'
  BY NextTyping DEF SafeInv
<1>2. LastOneDriven' /\ TargetSafe'
  <2>1. CASE UNCHANGED vars
    BY <2>1 DEF SafeInv, LastOneDriven, TargetSafe, LastTarget, vars, sentVars, loopVars
  <2>2. CASE Control \/ Outside
    <3>1. UNCHANGED <<lastSent, jointAge>>
      BY <2>2, LineAlone
    <3>2. UNCHANGED <<phase, target>>
      BY <2>2 DEF Control, Enqueue, Clear, Stop, StopAgain, StopFresh, loopVars,
                  Outside, SayEnds, LinkDrop, Reconnect
    <3> QED BY <3>1, <3>2 DEF SafeInv, LastOneDriven, TargetSafe, LastTarget
  <2>3. CASE Elapse
    <3>1. LastTarget' = LastTarget
      BY <2>3, AgesGrow DEF SafeInv, LastTarget
    <3>2. \A j \in Joints : jointAge[j] = SafeHold => jointAge'[j] = SafeHold
      BY <2>3, AgesGrow, EngineAssumption DEF SafeInv
    <3> QED BY <2>3, <3>1, <3>2, AgesGrow DEF SafeInv, LastOneDriven, TargetSafe
  <2>4. CASE TickBegin
    <3>1. phase' = "prune" /\ (LastTarget' = Zero \/ LastTarget' = LastTarget)
      BY <2>4, ResumeLine
    <3> QED BY <3>1 DEF SafeInv, LastOneDriven, TargetSafe, Zero, Joints, Bytes
  <2>5. CASE TickPaused \/ Advance \/ SendFailed \/ BeatSent
    <3>1. UNCHANGED <<lastSent, jointAge>>
      BY <2>5, LineAlone
    <3>2. phase' \notin {"trigger", "target"}
      BY <2>5 DEF TickPaused, Advance, SendFailed, BeatSent, Sleep, Wake, PruneTrack,
                  StartAdvance, AdvanceDone, TakeAny, Take, CanTake, Continue, Hold,
                  TakeMovement, TakePause, TakeSay, TakeTrigger, TakeFace, loopVars
    <3> QED BY <3>1, <3>2 DEF SafeInv, LastOneDriven, TargetSafe, LastTarget
  <2>6. CASE ComposeAndEmit
    <3>1. UNCHANGED <<lastSent, jointAge>>
      BY <2>6, LineAlone
    <3>2. Safe(Guard(Composed))
      BY GuardSafe, ComposedTyping DEF SafeInv, TypeOK
    <3>3. TargetSafe'
      <4>1. CASE Sleep BY <4>1 DEF Sleep, TargetSafe
      <4>2. CASE EmitNext(triggers, Guard(Composed), writeAge = SilenceFloor)
        BY <3>1, <3>2, <4>2, EmitSafe
      <4> QED BY <2>6, <4>1, <4>2 DEF ComposeAndEmit
    <3> QED BY <3>1, <3>3 DEF SafeInv, LastOneDriven, LastTarget
  <2>7. CASE TriggerSent
    <3>1. UNCHANGED <<lastSent, jointAge>>
      BY <2>7, LineAlone
    <3>2. Safe(target)
      BY <2>7 DEF TriggerSent, SafeInv, TargetSafe, Safe
    <3>3. TargetSafe'
      BY <2>7, <3>1, <3>2, EmitSafe DEF TriggerSent
    <3> QED BY <3>1, <3>3 DEF SafeInv, LastOneDriven, LastTarget
  <2>8. CASE TargetSent
    <3>1. LastTarget' = target /\ phase' = "sleep"
      BY <2>8, TargetIsSent DEF TargetSent, Sleep, LastTarget, SafeInv, TypeOK
    <3> QED BY <2>8, <3>1 DEF TargetSent, SafeInv, LastOneDriven, TargetSafe
  <2> QED BY <2>1, <2>2, <2>3, <2>4, <2>5, <2>6, <2>7, <2>8
          DEF Next, Tick, Unsent, Sent
<1> QED BY <1>1, <1>2 DEF SafeInv

LEMMA SafeInit == Init => SafeInv
BY InitTyping DEF Init, SafeInv, LastOneDriven, TargetSafe, LastTarget, Zero,
                  Joints, Bytes

(* The frame in flight never drives two joints, and it changes a joint's   *)
(* byte only when the byte is SafeHold old, whatever the tracks compose,   *)
(* the clients ask and the link does.                                      *)
THEOREM FrameSafe == Spec => []TargetSafe
<1>1. SafeInv => TargetSafe
  BY DEF SafeInv
<1> QED BY <1>1, SafeInit, SafeStep, PTL DEF Spec

-----------------------------------------------------------------------------
(* The refinement: each step of the engine is a step of the servo line, or *)
(* leaves it alone.                                                        *)

LEMMA LineStep ==
  SafeInv /\ [Next]_vars => [Line!Next]_<<[j \in Joints |-> LastTarget[j]], jointAge>>
<1> SUFFICES ASSUME SafeInv, [Next]_vars
             PROVE  [Line!Next]_<<[j \in Joints |-> LastTarget[j]], jointAge>>
  OBVIOUS
<1>1. CASE UNCHANGED <<lastSent, jointAge>>
  BY <1>1 DEF LastTarget
<1>2. CASE TickBegin
  <2>1. CASE LastTarget' = LastTarget
    BY <1>2, <2>1, ResumeLine
  <2>2. CASE LastTarget' = Zero
    <3>1. [j \in Joints |-> LastTarget[j]]' = [j \in Joints |-> 0]
      BY <2>2 DEF Zero, Joints, Bytes
    <3> QED BY <1>2, <3>1, ResumeLine DEF Line!Next, Line!Forget, Line!AtRest
  <2> QED BY <1>2, <2>1, <2>2, ResumeLine
<1>3. CASE Elapse
  <2>1. LastTarget' = LastTarget
    BY <1>3, AgesGrow DEF SafeInv, LastTarget
  <2> QED BY <1>3, <2>1, AgesGrow DEF SafeInv, Line!Next, Line!Elapse
<1>4. CASE TargetSent
  <2>1. LastTarget' = target /\ target \in Target
    BY <1>4, TargetIsSent DEF TargetSent, LastTarget, SafeInv, TypeOK
  <2>2. TypeOK'
    BY NextTyping DEF SafeInv
  <2>3. Safe(target)
    BY <1>4 DEF TargetSent, SafeInv, TargetSafe, Safe
  <2> DEFINE line == [j \in Joints |-> LastTarget[j]]
  <2>4. line' = [j \in Joints |-> target[j]] /\ line' \in [Joints -> Nat]
    BY <2>1 DEF Target, Joints, Bytes
  <2>5. Line!OneDriven(line')
    BY <2>3, <2>4 DEF Safe, Line!OneDriven, Joints
  <2>6. \A j \in Joints : IF line'[j] # line[j] THEN jointAge[j] = SafeHold
                                                ELSE jointAge'[j] = jointAge[j]
    BY <1>4, <2>3, <2>4 DEF TargetSent, Safe
  <2>7. jointAge' \in [Joints -> 0..SafeHold]
    BY <2>2 DEF TypeOK
  <2>8. Line!Change
    BY <2>4, <2>5, <2>6, <2>7 DEF Line!Change
  <2> QED BY <2>8 DEF Line!Next
<1> QED BY <1>1, <1>2, <1>3, <1>4, LineAlone
        DEF Next, Tick, Unsent, Sent, vars, sentVars

(* The engine implements the servo line of its guard.                      *)
THEOREM Refinement == Spec => ServoContract
<1>1. Init => Line!Init
  BY DEF Init, Line!Init, Line!AtRest, LastTarget, Zero, Joints, Bytes
<1> QED BY <1>1, SafeInit, SafeStep, LineStep, PTL DEF Spec, ServoContract, Line!Spec
=============================================================================
