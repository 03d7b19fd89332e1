----------------------------- MODULE EngineRobot -----------------------------
(***************************************************************************)
(* The engine and the robot it commands: what reached the robot and when,  *)
(* which the engine knows only through `_last_sent` (an outage erases it)  *)
(* and through the time its ticks started.  The robot is external; the     *)
(* engine's _neutral_return and stop say how it is used: an odd limb value *)
(* raises that limb until the next even value returns it, zero commands    *)
(* nothing, and the arms-down gesture lowers every limb.                   *)
(***************************************************************************)
EXTENDS Engine

VARIABLES wire,    \* the movement target the robot received last
          wireAge, \* per joint, time since the robot saw its byte change
          raised,  \* the limb positions raised at the robot, by their odd value
          shown,   \* the face the robot was last told to show, 0 after a pause
          quiet,   \* time the link has been up since the robot's last frame
          owed,    \* a fresh stop owes the robot its arms-down gesture
          calm,    \* the last request to touch the queue was a stop
          clean    \* the link has never failed

robotVars == <<wire, wireAge, raised, shown, quiet>>
askedVars == <<owed, calm>>
allVars   == <<vars, robotVars, askedVars, clean>>

QuietBound == SilenceFloor + TickInterval - 1 + SendBound

RobotInit ==
  /\ Init
  /\ wire = Zero /\ wireAge = [j \in Joints |-> SafeHold]
  /\ raised = {} /\ shown = 0 /\ quiet = 0
  /\ owed = FALSE /\ calm = FALSE /\ clean = (link = "up")

LimbMoved(limb) ==
  IF limb % 2 = 1 THEN raised \cup {limb} ELSE raised \ {limb - 1}

TargetReceived ==
  /\ TargetSent
  /\ wire' = target
  /\ wireAge' = [j \in Joints |-> IF target[j] # wire[j] THEN 0 ELSE wireAge[j]]
  /\ raised' = LimbMoved(target["limb"])
  /\ quiet' = 0
  /\ UNCHANGED <<shown, askedVars, clean>>

TriggerReceived ==
  /\ TriggerSent
  /\ \/ Head(triggers) = Gesture(ArmsDown) /\ raised' = {} /\ owed' = FALSE
     \/ Head(triggers) # Gesture(ArmsDown) /\ UNCHANGED <<raised, owed>>
  /\ quiet' = 0
  /\ UNCHANGED <<wire, wireAge, shown, calm, clean>>

BeatReceived ==
  /\ BeatSent
  /\ quiet' = 0 /\ shown' = IF beat = 0 THEN shown ELSE beat
  /\ UNCHANGED <<wire, wireAge, raised, askedVars, clean>>

Rebooting ==  \* while the engine pauses the robot may have been switched off
  /\ clean' = (clean /\ link' = "up")
  /\ shown' = IF paused' THEN 0 ELSE shown

Working ==
  /\ Unsent /\ Rebooting
  /\ UNCHANGED <<wire, wireAge, raised, quiet, askedVars>>

Aging ==
  /\ Elapse
  /\ wireAge' = [j \in Joints |-> AtMost(wireAge[j] + 1, SafeHold)]
  /\ quiet' = IF link = "down" THEN 0 ELSE AtMost(quiet + 1, QuietBound + 1)
  /\ UNCHANGED <<wire, raised, shown, askedVars, clean>>

Asked ==
  /\ \/ StopFresh /\ owed' = TRUE /\ calm' = TRUE
     \/ StopAgain /\ calm' = TRUE /\ UNCHANGED owed
     \/ Enqueue /\ calm' = FALSE /\ UNCHANGED owed
     \/ Clear /\ calm' = FALSE /\ owed' = FALSE
  /\ UNCHANGED <<robotVars, clean>>

Surrounds ==
  /\ Rebooting
  /\ quiet' = IF link' = link THEN quiet ELSE 0
  /\ UNCHANGED <<wire, wireAge, raised, askedVars>>

SpeechEnds == SayEnds /\ Surrounds
LinkFails  == LinkDrop /\ Surrounds
LinkBack   == Reconnect /\ Surrounds

RobotTick == TargetReceived \/ TriggerReceived \/ BeatReceived \/ Working
RobotNext == RobotTick \/ Aging \/ Asked \/ SpeechEnds \/ LinkFails \/ LinkBack

RobotSpec == RobotInit /\ [][RobotNext]_allVars

(* The engine's fairness, of its actions as they are here.                 *)
FairRobotSpec ==
  /\ RobotSpec
  /\ WF_allVars(RobotTick) /\ WF_allVars(Aging)
  /\ WF_allVars(SpeechEnds) /\ WF_allVars(LinkBack)
-----------------------------------------------------------------------------
(* Properties.                                                             *)

(* The servos see the floor _guard promises ("a joint byte never changes   *)
(* more often than the servo-safe minimum") as long as the link holds,     *)
(* less the time a send takes: the engine dates a change by the start of   *)
(* its tick, the servo by the frame's arrival.                             *)
WireFloor ==
  [][clean => \A j \in Joints :
       wire'[j] # wire[j] => wireAge[j] + SendBound >= SafeHold]_allVars

(* "An emitted frame changes at most one joint byte (waist or limb) from   *)
(* the previous frame" (the engine's docstring).                           *)
WireOneJoint ==
  [][\E j \in Joints : \A k \in Joints \ {j} : wire'[k] = wire[k]]_allVars

(* After a stop, once its walk is over and nothing else was asked, no limb *)
(* is raised: the walk's last gesture "does not depend on `_last_sent`     *)
(* being the truth" (stop in daemon/engine.py).                            *)
ArmsLevel ==
  calm /\ returning = 0 /\ current = NoStep /\ phase = "sleep" /\ clean
    => raised = {}

(* Every fresh stop delivers the arms-down gesture it owes, unless a clear *)
(* drops the walk or the link fails on it.                                 *)
ArmsComeDown == owed ~> ~owed \/ ~clean

(* A held face reaches the robot: unless it is released or the link drops, *)
(* the robot is told to show it, whatever poses are queued with it and     *)
(* after any outage the engine paused for (_emit sends a changed target    *)
(* and returns before it looks at the face; _resume_after_outage forgets   *)
(* what was asserted, as the robot may have rebooted).                     *)
FaceAsserted ==
  \A f \in 1..MaxByte : []<>(faceFrame # f \/ link = "down" \/ shown = f)

(* While the link is up the robot is never left without a frame for longer *)
(* than the silence floor, one tick and one tick's sends: its idle routine *)
(* would take over (R6, the heartbeat of _emit).                           *)
BoundedSilence == quiet <= QuietBound
=============================================================================
