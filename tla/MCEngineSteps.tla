---------------------------- MODULE MCEngineSteps ----------------------------
(***************************************************************************)
(* The steps clients queue in the runs of the engine.  parse_steps of      *)
(* daemon/protocol.py makes movement steps that drive one of the limbs,    *)
(* the waist or the locomotion bytes; it lets any integer through as the   *)
(* value of a byte.                                                        *)
(***************************************************************************)
EXTENDS Engine

Raise  == Drive("limb", 1, 2)
Lower  == Drive("limb", 2, 1)
Lean   == Drive("waist", 1, 2)
Walked == Drive("loco", 1, 2)
Beyond == Drive("limb", MaxByte + 1, 2)
Aside(step) == [step EXCEPT !.mode = "spawn"]
Wait(mode)  == [kind |-> "pause", mode |-> mode, hold |-> 1]
Show(code)  == [kind |-> "face", code |-> code]
Talk(mode)  == [kind |-> "say", mode |-> mode]
Play(code)  == [kind |-> "media", code |-> code]

(* Every kind of step, both modes, and the bytes frame.build refuses.      *)
AllBatches   == { <<Raise, Lower>>, <<Aside(Lean)>>, <<Aside(Beyond)>>,
                  <<Walked>>, <<Wait("await"), Wait("spawn")>>,
                  <<Show(1), Show(MaxByte + 1)>>, <<Talk("await"), Talk("spawn")>>,
                  <<Play(1), Play(MaxByte + 1)>> }
(* What reaches the robot without locomotion, as in a macro of poses.      *)
RobotBatches == { <<Aside(Raise)>>, <<Show(1), Talk("await")>> }
FaceBatches  == { <<Show(1)>>, <<Raise>> }
JointBatches == { <<Lean>>, <<Raise>> }
DriveBatches == { <<Walked>>, <<Aside(Raise)>> }
=============================================================================
