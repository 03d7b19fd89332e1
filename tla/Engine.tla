------------------------------- MODULE Engine -------------------------------
(***************************************************************************)
(* The queue engine of the daemon (daemon/engine.py): the main queue and   *)
(* the spawned tracks, the tick that advances them, the joint guard, the   *)
(* heartbeat, and the control operations enqueue, clear and stop.          *)
(*                                                                         *)
(* Atomicity.  The daemon is one asyncio loop, so code runs undisturbed    *)
(* between two awaits.  The tick awaits only inside send_frame: `phase`    *)
(* says which frame is in flight ("trigger", "target", "beat"), and the    *)
(* control operations, the link and the clock step only there or while the *)
(* tick loop sleeps ("sleep").  The synchronous part of a tick is a forced *)
(* run of small steps, one per iteration of its loops, in the phases       *)
(* "prune", "advance" and "compose", where nothing else is enabled.        *)
(*                                                                         *)
(* Time.  The clock is not a counter: a deadline is the time left to it, a *)
(* timestamp its age up to the largest age the code tells apart.           *)
(***************************************************************************)
EXTENDS Integers, Sequences, SequencesExt

CONSTANTS
  Batches,      \* the step lists a client may enqueue
  SafeHold,     \* SAFE_HOLD, in units of time
  SilenceFloor, \* the silence floor, in units of time
  TickInterval, \* the sleep between two ticks
  MaxByte,      \* the largest value frame.build accepts for a byte (255)
  ArmsDown,     \* the gesture code that seals a stop's walk (19)
  TtsMissing,   \* whether the host's speech tool may be missing
  Faults,       \* whether the link drops and writes fail
  WakeBound,    \* the loop never sleeps longer (no bound above TickInterval)
  SendBound,    \* a tick's sends never take longer (no bound above AgeCap)
  MaxWork       \* bound: steps pending and live tracks a client may pile up

Joints == {"waist", "limb"}
Bytes  == {"loco"} \cup Joints
Target == [Bytes -> Nat]
Zero   == [b \in Bytes |-> 0]
Mode   == {"await", "spawn"}

Movement == [kind: {"movement"}, mode: Mode, bytes: Target, hold: Nat]
Pause    == [kind: {"pause"}, mode: Mode, hold: Nat]
Trigger  == [kind: {"media", "gesture"}, code: Nat]
Face     == [kind: {"face"}, code: Nat]
Say      == [kind: {"say"}, mode: Mode]
Step     == Movement \cup Pause \cup Trigger \cup Face \cup Say

NoStep  == [kind |-> "none"]
NotSent == [kind |-> "none"]
Track   == [step: Movement, left: Nat]

Move(bytes, hold, mode) ==
  [kind |-> "movement", mode |-> mode, bytes |-> bytes, hold |-> hold]
Drive(b, value, hold) == Move([Zero EXCEPT ![b] = value], hold, "await")
Gesture(code)         == [kind |-> "gesture", code |-> code]

ASSUME EngineAssumption ==
  /\ Batches \subseteq Seq(Step)
  /\ SafeHold \in Nat \ {0} /\ SilenceFloor \in Nat \ {0}
  /\ TickInterval \in Nat \ {0}
  /\ MaxByte \in Nat /\ ArmsDown \in 1..MaxByte
  /\ TtsMissing \in BOOLEAN /\ Faults \in BOOLEAN
  /\ WakeBound \in Nat /\ SendBound \in Nat /\ MaxWork \in Nat

VARIABLES
  pending,      \* _pending
  returning,    \* _returning_steps
  current,      \* _current, NoStep for None
  left,         \* time left to _current_deadline, 0 once passed
  say,          \* _current_say: "none", "running", or "done" (its process ended)
  spawns,       \* _spawn_movement
  spawnSay,     \* the number of handles in _spawn_say
  faceCode,     \* _face_code, 0 for None
  faceFrame,    \* the code of _face_frame, 0 for None
  lastFace,     \* the code of _last_face_sent, 0 for None
  lastSent,     \* the payload of _last_sent, NotSent for None
  writeAge,     \* age of _last_write; None counts as SilenceFloor
  jointAge,     \* age of _joint_changed_at; -inf counts as SafeHold
  paused,       \* _paused_at is not None
  phase,        \* where the tick loop is
  elapsed,      \* time asleep, or since the running tick read the clock
  triggers,     \* media_frames still to send, the one in flight first
  target,       \* the guarded movement target of the running tick
  beat,         \* the face code of the heartbeat in flight, 0 for the no-op
  link,         \* DaemonConnection.is_connected, as "up" or "down"
  reconnecting  \* DaemonConnection has a reconnect task running

queueVars == <<pending, returning, current, left, say>>
trackVars == <<spawns, spawnSay>>
faceVars  == <<faceCode, faceFrame>>
sentVars  == <<lastFace, lastSent, writeAge, jointAge>>
loopVars  == <<phase, elapsed, triggers, target, beat>>
linkVars  == <<paused, link, reconnecting>>
vars == <<queueVars, trackVars, faceVars, sentVars, loopVars, linkVars>>

Sending == {"trigger", "target", "beat"}
Sync    == {"prune", "advance", "compose"}
AgeCap  == Max({SafeHold, SilenceFloor})
AtMost(n, cap) == IF n < cap THEN n ELSE cap
\* A plausible bug: _returning_steps counts down past zero.
LessUnguarded(n) == n - 1
Less(n)        == IF n = 0 THEN 0 ELSE n - 1

TypeOK ==
  /\ pending \in Seq(Step) /\ returning \in Nat
  /\ current \in Step \cup {NoStep} /\ left \in Nat
  /\ say \in {"none", "running", "done"}
  /\ spawns \in Seq(Track) /\ spawnSay \in Nat
  /\ faceCode \in Nat /\ faceFrame \in Nat /\ lastFace \in Nat
  /\ lastSent \in Target \cup {NotSent}
  /\ writeAge \in 0..SilenceFloor
  /\ jointAge \in [Joints -> 0..SafeHold]
  /\ phase \in {"sleep"} \cup Sync \cup Sending
  /\ elapsed \in Nat
  /\ triggers \in Seq(Trigger) /\ target \in Target /\ beat \in Nat
  /\ phase = "trigger" => triggers # <<>>
  /\ paused \in BOOLEAN /\ link \in {"up", "down"} /\ reconnecting \in BOOLEAN

Init ==
  /\ pending = <<>> /\ returning = 0 /\ current = NoStep /\ left = 0
  /\ say = "none" /\ spawns = <<>> /\ spawnSay = 0
  /\ faceCode = 0 /\ faceFrame = 0 /\ lastFace = 0
  /\ lastSent = NotSent /\ writeAge = SilenceFloor
  /\ jointAge = [j \in Joints |-> SafeHold]
  /\ phase = "sleep" /\ elapsed = TickInterval
  /\ triggers = <<>> /\ target = Zero /\ beat = 0
  /\ paused = FALSE /\ reconnecting = FALSE
  /\ link \in IF Faults THEN {"up", "down"} ELSE {"up"}

-----------------------------------------------------------------------------
(* Control operations, which a client's request runs between two awaits.   *)

Enqueue ==
  /\ phase \notin Sync
  /\ \E batch \in Batches :
       /\ Len(pending) + Len(spawns) + spawnSay + Len(batch) <= MaxWork
       /\ pending' = pending \o batch
  /\ UNCHANGED <<returning, current, left, say>>
  /\ UNCHANGED <<trackVars, faceVars, sentVars, loopVars, linkVars>>

Clear ==
  /\ phase \notin Sync
  /\ pending' = <<>> /\ returning' = 0
  /\ UNCHANGED <<current, left, say>>
  /\ UNCHANGED <<trackVars, faceVars, sentVars, loopVars, linkVars>>

LastTarget == IF lastSent = NotSent THEN Zero ELSE lastSent
Paired(v)  == IF v % 2 = 1 THEN v + 1 ELSE 0
Rest       == Move(Zero, SafeHold, "await")

ReturnOf(j) ==
  IF LastTarget[j] = 0 THEN <<>> ELSE << Drive(j, Paired(LastTarget[j]), SafeHold) >>

NeutralReturn ==
  IF lastSent = NotSent THEN <<>>
                        ELSE ReturnOf("limb") \o ReturnOf("waist") \o <<Rest>>

\* A plausible bug: the walk trusts `_last_sent` and sends no gesture.
WalkUnsealed == NeutralReturn \o <<Rest>>
Walk == NeutralReturn \o <<Gesture(ArmsDown), Rest>>

\* Plausible bugs: the spawned tracks, or the speech, survive a stop.
AbortSparesTracks ==
  /\ say' = "none" /\ faceCode' = 0 /\ faceFrame' = 0 /\ UNCHANGED trackVars
AbortSparesSpeech ==
  /\ faceCode' = 0 /\ faceFrame' = 0 /\ spawns' = <<>> /\ spawnSay' = 0
  /\ UNCHANGED say

Abort ==  \* what every stop aborts: speech, spawned tracks, the held face
  /\ say' = "none" /\ spawns' = <<>> /\ spawnSay' = 0
  /\ faceCode' = 0 /\ faceFrame' = 0

\* A plausible bug: `while len(self._pending) >= self._returning_steps`.
StopAgainTooShort ==
  /\ phase \notin Sync /\ returning > 0
  /\ pending' = SubSeq(pending, 1, AtMost(returning - 1, Len(pending)))
  /\ Abort
  /\ UNCHANGED <<returning, current, left, sentVars, loopVars, linkVars>>

StopAgain ==
  /\ phase \notin Sync /\ returning > 0
  /\ pending' = SubSeq(pending, 1, AtMost(returning, Len(pending)))
  /\ Abort
  /\ UNCHANGED <<returning, current, left, sentVars, loopVars, linkVars>>

\* A plausible bug: every stop starts its walk over.
StopRestarts ==
  /\ phase \notin Sync
  /\ pending' = Walk /\ returning' = Len(Walk)
  /\ current' = NoStep /\ left' = 0
  /\ Abort
  /\ UNCHANGED <<sentVars, loopVars, linkVars>>

StopFresh ==
  /\ phase \notin Sync /\ returning = 0
  /\ pending' = Walk /\ returning' = Len(Walk)
  /\ current' = NoStep /\ left' = 0
  /\ Abort
  /\ UNCHANGED <<sentVars, loopVars, linkVars>>

Stop == StopAgain \/ StopFresh

-----------------------------------------------------------------------------
(* The tick: the loop wakes, looks at the link, prunes, advances.          *)

Sleep ==
  /\ phase' = "sleep" /\ elapsed' = 0
  /\ triggers' = <<>> /\ target' = Zero /\ beat' = 0

Wake == phase = "sleep" /\ elapsed >= TickInterval

\* A plausible bug: the paused tick leaves the reconnect to a failed send.
TickPausedPassively ==
  /\ Wake /\ link = "down"
  /\ paused' = TRUE /\ elapsed' = 0
  /\ UNCHANGED <<queueVars, trackVars, faceVars, sentVars, link, reconnecting>>
  /\ UNCHANGED <<phase, triggers, target, beat>>

TickPaused ==
  /\ Wake /\ link = "down"
  /\ paused' = TRUE
  /\ reconnecting' = (reconnecting \/ ~paused)
  /\ elapsed' = 0
  /\ UNCHANGED <<queueVars, trackVars, faceVars, sentVars, link>>
  /\ UNCHANGED <<phase, triggers, target, beat>>

\* A plausible bug: the resume forgets the target but not the face.
ResumeStaleFace ==
  /\ paused' = FALSE /\ UNCHANGED lastFace
  /\ \/ paused /\ lastSent' = NotSent /\ writeAge' = SilenceFloor
     \/ ~paused /\ UNCHANGED <<lastSent, writeAge>>

ResumeAfterOutage ==
  /\ paused' = FALSE
  /\ \/ /\ paused
        /\ lastSent' = NotSent /\ lastFace' = 0 /\ writeAge' = SilenceFloor
     \/ ~paused /\ UNCHANGED <<lastSent, lastFace, writeAge>>

TickBegin ==
  /\ Wake /\ link = "up"
  /\ ResumeAfterOutage
  /\ phase' = "prune" /\ elapsed' = 0
  /\ UNCHANGED <<queueVars, trackVars, faceVars, jointAge, link, reconnecting>>
  /\ UNCHANGED <<triggers, target, beat>>

PruneTrack ==
  /\ phase = "prune"
  /\ \E k \in DOMAIN spawns :
       spawns[k].left = 0 /\ spawns' = RemoveAt(spawns, k)
  /\ UNCHANGED <<queueVars, spawnSay, faceVars, sentVars, loopVars, linkVars>>

SayEnded ==
  \/ say = "done" /\ say' = "none" /\ current' = NoStep /\ left' = 0
  \/ say # "done" /\ UNCHANGED <<say, current, left>>

StartAdvance ==
  /\ phase = "prune" /\ \A k \in DOMAIN spawns : spawns[k].left > 0
  /\ spawnSay' \in 0..spawnSay
  /\ SayEnded
  /\ phase' = "advance"
  /\ UNCHANGED <<pending, returning, spawns, faceVars, sentVars, linkVars>>
  /\ UNCHANGED <<elapsed, triggers, target, beat>>

CanTake ==
  /\ phase = "advance" /\ say = "none"
  /\ pending # <<>> /\ (current = NoStep \/ left = 0)

First == Head(pending)

\* A plausible bug: the walk's steps are taken but not counted down.
TakeUncounted(kind) ==
  /\ CanTake /\ First \in kind
  /\ pending' = Tail(pending)
  /\ UNCHANGED <<returning, sentVars, linkVars>>

Take(kind) ==
  /\ CanTake /\ First \in kind
  /\ pending' = Tail(pending) /\ returning' = Less(returning)
  /\ UNCHANGED <<sentVars, linkVars>>

Continue   == UNCHANGED <<current, left, say, loopVars>>
Hold(time) ==
  /\ current' = First /\ left' = time /\ phase' = "compose"
  /\ UNCHANGED <<elapsed, triggers, target, beat>>

TakeMovement ==
  /\ Take(Movement)
  /\ \/ /\ First.mode = "spawn" /\ Continue
        /\ spawns' = Append(spawns, [step |-> First, left |-> First.hold])
     \/ First.mode = "await" /\ Hold(First.hold) /\ UNCHANGED <<say, spawns>>
  /\ UNCHANGED <<spawnSay, faceVars>>

TakePause ==
  /\ Take(Pause)
  /\ \/ First.mode = "spawn" /\ Continue
     \/ First.mode = "await" /\ Hold(First.hold) /\ UNCHANGED say
  /\ UNCHANGED <<trackVars, faceVars>>

TakeSay ==
  /\ Take(Say)
  /\ \/ TtsMissing /\ Continue /\ UNCHANGED spawnSay
     \/ First.mode = "spawn" /\ spawnSay' = spawnSay + 1 /\ Continue
     \/ /\ First.mode = "await"
        /\ say' = "running" /\ Hold(0) /\ UNCHANGED spawnSay
  /\ UNCHANGED <<spawns, faceVars>>

(* frame.build raises on a byte above MaxByte: the tick ends there, the    *)
(* trigger frames it had collected are gone, and the loop sleeps again.    *)
TakeTrigger ==
  /\ Take(Trigger)
  /\ \/ /\ First.code <= MaxByte /\ triggers' = Append(triggers, First)
        /\ UNCHANGED <<phase, elapsed, target, beat>>
     \/ First.code > MaxByte /\ Sleep
  /\ UNCHANGED <<current, left, say, trackVars, faceVars>>

TakeFace ==
  /\ Take(Face)
  /\ faceCode' = First.code
  /\ \/ First.code <= MaxByte /\ faceFrame' = First.code /\ UNCHANGED loopVars
     \/ First.code > MaxByte /\ UNCHANGED faceFrame /\ Sleep
  /\ UNCHANGED <<current, left, say, trackVars>>

AdvanceDone ==
  /\ phase = "advance" /\ ~CanTake
  /\ phase' = "compose" /\ left' = left
  /\ \/ say = "none" /\ left = 0 /\ current' = NoStep
     \/ ~(say = "none" /\ left = 0) /\ UNCHANGED current
  /\ UNCHANGED <<pending, returning, say, trackVars, faceVars, sentVars>>
  /\ UNCHANGED <<elapsed, triggers, target, beat, linkVars>>

-----------------------------------------------------------------------------
(* The tick: the target is composed and guarded, and the frames go out.    *)

CurrentBytes == IF current \in Movement THEN current.bytes ELSE Zero

LastWriter(b) ==
  LET writers == {k \in DOMAIN spawns : spawns[k].step.bytes[b] # 0}
  IN  IF writers = {} THEN CurrentBytes[b]
                      ELSE spawns[Max(writers)].step.bytes[b]

Composed == [b \in Bytes |-> LastWriter(b)]

Buildable ==
  /\ \A b \in Bytes : CurrentBytes[b] <= MaxByte
  /\ \A k \in DOMAIN spawns, b \in Bytes : spawns[k].step.bytes[b] <= MaxByte

\* A plausible bug: `since <= SAFE_HOLD` with the bounds confused.
RateLimitedEarly(composed) ==
  [b \in Bytes |-> IF b \in Joints /\ jointAge[b] + 1 < SafeHold
                   THEN LastTarget[b] ELSE composed[b]]

RateLimited(composed) ==
  [b \in Bytes |-> IF b \in Joints /\ jointAge[b] < SafeHold
                   THEN LastTarget[b] ELSE composed[b]]

\* A plausible bug: the compound frame is split before the rate limit.
GuardSwapped(composed) ==
  LET waits == IF LastTarget["limb"] # 0 THEN "waist" ELSE "limb"
  IN  RateLimited(IF \A j \in Joints : composed[j] # 0
                  THEN [composed EXCEPT ![waits] = 0] ELSE composed)

Guard(composed) ==
  LET limited == RateLimited(composed)
      waits   == IF LastTarget["limb"] # 0 THEN "waist" ELSE "limb"
  IN  IF \A j \in Joints : limited[j] # 0 THEN [limited EXCEPT ![waits] = 0]
                                          ELSE limited

\* A plausible bug: a held face is sent once and then kept warm by nothing.
BeatDueOnChange(floorPassed) ==
  \/ floorPassed /\ faceFrame = 0
  \/ faceFrame # 0 /\ faceFrame # lastFace

BeatDue(floorPassed) ==
  floorPassed \/ (faceFrame # 0 /\ faceFrame # lastFace)

EmitNext(frames, guarded, floorPassed) ==
  \/ /\ frames # <<>>
     /\ phase' = "trigger" /\ triggers' = frames /\ target' = guarded
     /\ UNCHANGED <<elapsed, beat>>
  \/ /\ frames = <<>> /\ guarded # lastSent
     /\ phase' = "target" /\ triggers' = <<>> /\ target' = guarded
     /\ UNCHANGED <<elapsed, beat>>
  \/ /\ frames = <<>> /\ guarded = lastSent /\ BeatDue(floorPassed)
     /\ phase' = "beat" /\ triggers' = <<>> /\ target' = Zero /\ beat' = faceFrame
     /\ UNCHANGED elapsed
  \/ frames = <<>> /\ guarded = lastSent /\ ~BeatDue(floorPassed) /\ Sleep

ComposeAndEmit ==
  /\ phase = "compose"
  /\ \/ Buildable /\ EmitNext(triggers, Guard(Composed), writeAge = SilenceFloor)
     \/ ~Buildable /\ Sleep
  /\ UNCHANGED <<queueVars, trackVars, faceVars, sentVars, linkVars>>

TriggerSent ==
  /\ phase = "trigger" /\ link = "up"
  /\ writeAge' = AtMost(elapsed, SilenceFloor)
  /\ EmitNext(Tail(triggers), target, FALSE)
  /\ UNCHANGED <<queueVars, trackVars, faceVars, linkVars>>
  /\ UNCHANGED <<lastFace, lastSent, jointAge>>

\* A plausible bug: `_joint_changed_at` is not updated.
TargetSentUndated ==
  /\ phase = "target" /\ link = "up"
  /\ lastSent' = target /\ writeAge' = AtMost(elapsed, SilenceFloor)
  /\ Sleep
  /\ UNCHANGED <<queueVars, trackVars, faceVars, lastFace, jointAge, linkVars>>

TargetSent ==
  /\ phase = "target" /\ link = "up"
  /\ lastSent' = target
  /\ jointAge' = [j \in Joints |-> IF target[j] # LastTarget[j]
                                   THEN AtMost(elapsed, SafeHold) ELSE jointAge[j]]
  /\ writeAge' = AtMost(elapsed, SilenceFloor)
  /\ Sleep
  /\ UNCHANGED <<queueVars, trackVars, faceVars, lastFace, linkVars>>

BeatSent ==
  /\ phase = "beat" /\ link = "up"
  /\ writeAge' = AtMost(elapsed, SilenceFloor) /\ lastFace' = faceFrame
  /\ Sleep
  /\ UNCHANGED <<queueVars, trackVars, faceVars, lastSent, jointAge, linkVars>>

InLocomotion == current \in Movement /\ current.bytes["loco"] # 0
Dropped      == phase = "target" /\ InLocomotion  \* _apply_resume_policy

SendFailed ==
  /\ phase \in Sending /\ (Faults \/ link = "down")
  /\ link' = "down" /\ reconnecting' = TRUE
  /\ \/ Dropped /\ current' = NoStep /\ left' = 0
     \/ ~Dropped /\ UNCHANGED <<current, left>>
  /\ Sleep
  /\ UNCHANGED <<pending, returning, say, trackVars, faceVars, sentVars, paused>>

-----------------------------------------------------------------------------
(* The environment: time, the await-say process, the link.                 *)

Elapse ==
  /\ \/ /\ phase = "sleep" /\ elapsed < WakeBound
        /\ elapsed' = AtMost(elapsed + 1, TickInterval)
     \/ /\ phase \in Sending /\ elapsed < SendBound
        /\ elapsed' = AtMost(elapsed + 1, AgeCap)
  /\ IF paused THEN UNCHANGED <<left, spawns>>  \* resume adds the gap back
     ELSE /\ left' = Less(left)
          /\ spawns' = [k \in DOMAIN spawns |->
                          [spawns[k] EXCEPT !.left = Less(@)]]
  /\ writeAge' = AtMost(writeAge + 1, SilenceFloor)
  /\ jointAge' = [j \in Joints |-> AtMost(jointAge[j] + 1, SafeHold)]
  /\ UNCHANGED <<pending, returning, current, say, spawnSay, faceVars, linkVars>>
  /\ UNCHANGED <<lastFace, lastSent, phase, triggers, target, beat>>

SayEnds ==
  /\ phase \notin Sync /\ say = "running" /\ say' = "done"
  /\ UNCHANGED <<pending, returning, current, left>>
  /\ UNCHANGED <<trackVars, faceVars, sentVars, loopVars, linkVars>>

LinkDrop ==
  /\ phase \notin Sync /\ Faults /\ link = "up" /\ link' = "down"
  /\ UNCHANGED <<queueVars, trackVars, faceVars, sentVars, loopVars>>
  /\ UNCHANGED <<paused, reconnecting>>

Reconnect ==
  /\ phase \notin Sync /\ reconnecting
  /\ link' = "up" /\ reconnecting' = FALSE
  /\ UNCHANGED <<queueVars, trackVars, faceVars, sentVars, loopVars, paused>>

-----------------------------------------------------------------------------
Control == Enqueue \/ Clear \/ Stop
TakeAny == TakeMovement \/ TakePause \/ TakeSay \/ TakeTrigger \/ TakeFace
Advance == PruneTrack \/ StartAdvance \/ TakeAny \/ AdvanceDone
Unsent  == TickPaused \/ TickBegin \/ Advance \/ ComposeAndEmit \/ SendFailed
Sent    == TriggerSent \/ TargetSent \/ BeatSent
Tick    == Unsent \/ Sent
Outside == SayEnds \/ LinkDrop \/ Reconnect

Next == Control \/ Tick \/ Elapse \/ Outside

Spec == Init /\ [][Next]_vars

(* asyncio runs every ready task, time passes, a speech process ends, and  *)
(* the reconnect loop retries until it succeeds.  Nothing is assumed of    *)
(* clients, nor that the link stays up.                                    *)
Fairness ==
  WF_vars(Tick) /\ WF_vars(Elapse) /\ WF_vars(SayEnds) /\ WF_vars(Reconnect)

FairSpec == Spec /\ Fairness
-----------------------------------------------------------------------------
(* Properties.                                                             *)

(* The stop walk survives whatever clients do meanwhile (stop in           *)
(* daemon/engine.py: "another stop keeps the walk intact"): the counted    *)
(* steps are still in the queue, and they end with the arms-down gesture   *)
(* and the all-zero step, however requests and ticks interleave.           *)
WalkIntact ==
  returning > 0 =>
    /\ returning <= Len(pending) /\ pending[returning] = Rest
    /\ returning > 1 => pending[returning - 1] = Gesture(ArmsDown)

(* While steps of a stop's walk are pending nothing else drives the robot: *)
(* no speech, no spawned track, no held face, and the running step is the  *)
(* walk's own, an even value for one joint, or zeros, held the safe time.  *)
Returns(step) ==
  /\ step.kind = "movement"
  /\ \E j \in Joints : LET value == step.bytes[j]
                       IN  step = Drive(j, value, SafeHold) /\ value % 2 = 0
WalkAlone ==
  returning > 0 =>
    /\ say = "none" /\ spawns = <<>> /\ spawnSay = 0
    /\ faceCode = 0 /\ faceFrame = 0
    /\ current = NoStep \/ Returns(current)

(* The main track waits on a speech process exactly while its current step *)
(* is that speech (_current_say and _current are two variables that stop,  *)
(* clear and the tick update separately): otherwise the queue would wait   *)
(* on a process nobody polls, or a say would expire on a stale deadline.   *)
SayHeld == say # "none" <=> current \in Say

(* The frame about to go out is safe for the servos when it goes, not only *)
(* when it was composed: between the two the loop awaits other sends.  At  *)
(* most one joint is driven, and a byte that will change is old enough.    *)
TargetSafe ==
  phase \in {"trigger", "target"} =>
    /\ \E j \in Joints : target[j] = 0
    /\ \A j \in Joints : target[j] # LastTarget[j] => jointAge[j] = SafeHold

(* The engine implements the line its guard promises the servos.           *)
Line == INSTANCE ServoLine WITH
          line <- [j \in Joints |-> LastTarget[j]], age <- jointAge
ServoContract == Line!Spec

(* A stop's walk completes however many stops and enqueues arrive while it *)
(* runs (stop: "Stops converge instead of racing"), unless the link drops. *)
WalkCompletes == returning > 0 ~> returning = 0 \/ link = "down"

(* A drop the engine sees while it is not already pausing for one is       *)
(* recovered from: the pausing tick starts the reconnect loop itself.      *)
DropRecovered == (link = "down" /\ ~paused) ~> link = "up"

(* What connection.py says of the link without that condition: "sends      *)
(* frames, reads the battery characteristic, and reconnects on a drop".    *)
EveryDropRecovered == link = "down" ~> link = "up"

(* "On a send failure [...] drop an interrupted `move`" (the engine's      *)
(* docstring, KTD6): a locomotion step the robot is executing when a send  *)
(* fails is not the current step any more.                                 *)
MoveDropped ==
  [][SendFailed /\ LastTarget["loco"] # 0 => ~InLocomotion']_vars
=============================================================================
