------------------------------ MODULE ServoLine ------------------------------
(***************************************************************************)
(* What the joint guard promises the robot's servos (KTD4 of               *)
(* docs/plans/2026-08-12-004, _guard in daemon/engine.py): the joint bytes *)
(* of the emitted stream, seen as one line with an age per joint.  A frame *)
(* never drives two joints at once, and a joint's byte changes only when   *)
(* it is at least SafeHold old.  `Forget` is the outage: the engine drops  *)
(* its picture of the line and starts again from the all-zero one.         *)
(***************************************************************************)
EXTENDS Integers

CONSTANTS Joints, SafeHold  \* a set, and a positive number of units of time

VARIABLES line, \* the joint bytes of the last frame
          age   \* time since each byte changed, up to SafeHold

AtRest == [j \in Joints |-> 0]

OneDriven(joints) ==
  \A j, k \in Joints : joints[j] # 0 /\ joints[k] # 0 => j = k

Init == line = AtRest /\ age = [j \in Joints |-> SafeHold]

(* A byte that changes is old enough, and its age starts again: not from   *)
(* zero when the frame spent some time on its way.                         *)
Change ==
  /\ line' \in [Joints -> Nat] /\ OneDriven(line')
  /\ age' \in [Joints -> 0..SafeHold]
  /\ \A j \in Joints : IF line'[j] # line[j] THEN age[j] = SafeHold
                                             ELSE age'[j] = age[j]

Forget == line' = AtRest /\ UNCHANGED age

Elapse ==
  /\ age' = [j \in Joints |-> IF age[j] < SafeHold THEN age[j] + 1 ELSE SafeHold]
  /\ UNCHANGED line

Next == Change \/ Forget \/ Elapse

Spec == Init /\ [][Next]_<<line, age>>
=============================================================================
