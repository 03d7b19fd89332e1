---- MODULE Observe ----
(* carle observe (cli.py's _run_observe) and the modules under src/carle/observe:
   every code is driven through the daemon, filmed and judged until one reading
   is reproduced or the attempts are used up, and each result is recorded. The
   judge and the writer are an agent's; the camera is ffmpeg's. As
   MotionRecording's docstring has it, the drive seam starts the recording before
   it drives, and the capture seam finishes it. The daemon is its answers: it
   accepts what it is asked while it runs, and the robot executes what was
   accepted while the link is up. Durations and file names are left out, and of
   a reading's confidence all but whether it clears the floor. *)
EXTENDS Integers, FiniteSets, Sequences, TLC

CONSTANTS
  Codes,        \* the codes of this run, in order: <<[family, code], ...>>
  Variations,   \* the ladder
  Motions,      \* what a judge may see move; "none" is what it sees of a still robot
  Repeats, RetryLimit,
  MaxTrouble    \* how often the link or the daemon may go or come back

\* Both are two by default (loop.py); no verb of the command line passes others.
ASSUME ObserveAssumption == Repeats \in Nat \ {0} /\ RetryLimit \in Nat

VARIABLES
  at,           \* the number of the code in hand
  step,         \* where the run is
  attempt,      \* attempts begun for this code
  pulses,       \* what is left to enqueue in this attempt
  scratch,      \* scratch directories on disk, by attempt
  recorder,     \* the recording in hand: what its thread has done
  readings,     \* this code's observations
  result,       \* what derive_code returned and record() was given, until the next code
  link, daemon, battery, trouble,
  waiting,      \* pulses accepted and not executed: the engine's queue waits for the link
  moved,        \* history: the robot executed something for this clip
  alive,        \* history: it did for some reading of this code
  calm          \* history: the link has been up since this code's check

observe == <<at, step, attempt, pulses, scratch, recorder, readings, result,
             link, daemon, battery, trouble, waiting, moved, alive, calm>>

Floor == 1                  \* 0.6: confidence is below it, 0, or clears it, 1

\* A reading is its key, a joint and a motion: its direction is no part of the key
\* (loop.py:42-46, which says why), though observations_agree's docstring
\* (loop.py:65) and docs/observe-loop.md:20 count it among what must agree.
Reading == [key: Motions, confidence: {0, 1}]

Code == Codes[at]

\* A drive rung: three pulses, or the paired raise before a lowering, or one.
\* Even poses lower what the odd one before them raised; of the gestures, which
\* are two halves of twelve alike, three pairs do.
PreRaise == (3 :> 1) @@ (4 :> 1) @@ (7 :> 5) @@ (8 :> 5) @@ (11 :> 9) @@ (12 :> 9)
PrePulse(c) ==
  LET half == IF c.code > 12 THEN 12 ELSE 0
  IN CASE c.family = "pose" /\ c.code \in 1..12 /\ c.code % 2 = 0 -> <<[c EXCEPT !.code = @ - 1]>>
       [] c.family = "gesture" /\ c.code - half \in DOMAIN PreRaise ->
            <<[c EXCEPT !.code = PreRaise[c.code - half] + half]>>
       [] OTHER -> <<>>
Drive(c, variation) ==
  CASE variation = "repeat" -> <<c, c, c>>
    [] variation = "raise_first" -> PrePulse(c) \o <<c>>
    [] OTHER -> <<c>>

\* The ladder's index is clamped to its last rung.
Rung(n) == Variations[IF n > Len(Variations) THEN Len(Variations) ELSE n]

\* A plausible bug: readings below the floor count.
AnyGroup(rs, key) == {k \in DOMAIN rs: rs[k].key = key}

\* The readings that clear the floor, by key; the groups that reproduce. Readings
\* of one key that differ in direction are in one group.
Group(rs, key) == {k \in DOMAIN rs: rs[k].confidence >= Floor /\ rs[k].key = key}

Reproduced(rs) == {key \in Motions: Cardinality(Group(rs, key)) >= Repeats}

---------------------------------------------------------------------------
(* The run.                                                                  *)

Env == <<link, daemon, battery, trouble, calm>>

Ready == daemon /\ link /\ battery # "low"

Halt == step' = "halted"

NoResult == [status |-> "none"]

\* No daemon, or not ready: nothing is driven. The agent's seams are there.
Start ==
  /\ step = "start"
  /\ step' = IF Ready THEN "next" ELSE "halted"
  /\ UNCHANGED <<at, attempt, pulses, scratch, recorder, readings, result, Env, waiting, moved, alive>>

\* Before every code the readiness again.
NextCode ==
  /\ step = "next"
  /\ IF at = Len(Codes) THEN step' = "finished" /\ at' = at
     ELSE IF ~Ready THEN Halt /\ at' = at
     ELSE step' = "attempt" /\ at' = at + 1
  /\ attempt' = 0 /\ readings' = <<>> /\ alive' = FALSE /\ calm' = TRUE /\ result' = NoResult
  /\ UNCHANGED <<pulses, scratch, recorder, link, daemon, battery, trouble, waiting, moved>>

\* MotionRecording(): a scratch directory and a thread that records.
StartRecording ==
  /\ step = "attempt"
  /\ attempt' = attempt + 1
  /\ pulses' = Drive(Code, Rung(attempt + 1))
  /\ scratch' = scratch \cup {<<at, attempt + 1>>} /\ recorder' = "recording"
  /\ moved' = FALSE /\ step' = "drive"
  /\ UNCHANGED <<at, readings, result, Env, waiting, alive>>

\* drive_code: no daemon is a DriverError and halts the run; an accepted pulse
\* is the daemon's from then on, and its reply says nothing of the robot.
Pulse ==
  /\ step = "drive" /\ pulses # <<>>
  /\ \/ daemon /\ pulses' = Tail(pulses) /\ moved' = (moved \/ link) /\ waiting' = (waiting \/ ~link)
        /\ step' = step
     \/ ~daemon /\ Halt /\ UNCHANGED <<pulses, moved, waiting>>
  /\ UNCHANGED <<at, attempt, scratch, recorder, readings, result, Env, alive>>

\* The recorder's ffmpeg comes to its end, fails, or hangs to its own timeout,
\* which is longer than finish() waits.
RecorderEnds ==
  /\ recorder = "recording" /\ recorder' \in {"recorded", "failed", "hung"}
  /\ UNCHANGED <<at, step, attempt, pulses, scratch, readings, result, Env, waiting, moved, alive>>

\* finish(): a thread still alive, a failed recording, and a failed extraction
\* or sampling are CaptureErrors: the scratch directory goes and the run halts.
Finish ==
  /\ step = "drive" /\ pulses = <<>> /\ recorder # "recording"
  /\ \/ recorder = "recorded" /\ step' = "judge" /\ scratch' = scratch
     \/ Halt /\ scratch' = scratch \ {<<at, attempt>>}
  /\ UNCHANGED <<at, attempt, pulses, recorder, readings, result, Env, waiting, moved, alive>>

\* A plausible bug: the clip is discarded only when the judge returned.
JudgeLeft ==
  /\ step = "judge"
  /\ \/ /\ \E r \in Reading: (~moved => r.key = "none") /\ readings' = Append(readings, r)
        /\ step' = "agree" /\ alive' = (alive \/ moved) /\ scratch' = scratch \ {<<at, attempt>>}
     \/ step' = "crashed" /\ UNCHANGED <<readings, alive, scratch>>
  /\ UNCHANGED <<at, attempt, pulses, recorder, result, Env, waiting, moved>>

\* A plausible bug: an attempt whose reading is below the floor is not counted.
JudgeUncounted ==
  /\ step = "judge"
  /\ \/ \E r \in Reading:
          /\ ~moved => r.key = "none"
          /\ alive' = (alive \/ moved)
          /\ \/ r.confidence >= Floor /\ readings' = Append(readings, r)
                /\ step' = "agree" /\ attempt' = attempt
             \/ r.confidence < Floor /\ readings' = readings
                /\ step' = "attempt" /\ attempt' = attempt - 1
     \/ step' = "crashed" /\ UNCHANGED <<attempt, readings, alive>>
  /\ scratch' = scratch \ {<<at, attempt>>}
  /\ UNCHANGED <<at, pulses, recorder, result, Env, waiting, moved>>

\* The judge reads the frames, truly: a robot that did nothing was still. It may
\* raise, which ends the run; the clip is discarded either way.
Judge ==
  /\ step = "judge"
  /\ \/ /\ \E r \in Reading: (~moved => r.key = "none") /\ readings' = Append(readings, r)
        /\ step' = "agree" /\ alive' = (alive \/ moved)
     \/ step' = "crashed" /\ UNCHANGED <<readings, alive>>
  /\ scratch' = scratch \ {<<at, attempt>>}
  /\ UNCHANGED <<at, attempt, pulses, recorder, result, Env, waiting, moved>>

Result(status, key) ==
  [status |-> status, key |-> key, readings |-> readings, alive |-> alive, calm |-> calm]

\* The loop of derive_code, and record() when it returns.
Agree ==
  /\ step = "agree"
  /\ \/ \E key \in Reproduced(readings):
          result' = Result("confirmed", key) /\ step' = "next"
     \/ /\ Reproduced(readings) = {} /\ attempt = Repeats + RetryLimit
        /\ result' = Result("uncertain", "none") /\ step' = "next"
     \/ /\ Reproduced(readings) = {} /\ attempt < Repeats + RetryLimit
        /\ result' = result /\ step' = "attempt"
  /\ UNCHANGED <<at, attempt, pulses, scratch, recorder, readings, Env, waiting, moved, alive>>

---------------------------------------------------------------------------
(* The daemon and the robot.                                                 *)

Running == step \notin {"finished", "halted", "crashed"}

\* The link goes; it comes back, and the queue runs at once; the daemon dies
\* with its queue, or is started; the battery is read otherwise.
LinkDrops == link /\ link' = FALSE /\ calm' = FALSE /\ UNCHANGED <<daemon, battery, waiting, moved>>
LinkReturns ==
  /\ ~link /\ link' = TRUE
  /\ moved' = (moved \/ (waiting /\ step = "drive")) /\ waiting' = FALSE
  /\ UNCHANGED <<daemon, battery, calm>>
DaemonDies == daemon /\ daemon' = FALSE /\ waiting' = FALSE /\ UNCHANGED <<link, battery, moved, calm>>
DaemonStarts == ~daemon /\ daemon' = TRUE /\ UNCHANGED <<link, battery, waiting, moved, calm>>
BatteryReads ==
  battery' \in {"unknown", "ok", "low"} \ {battery} /\ UNCHANGED <<link, daemon, waiting, moved, calm>>

Trouble ==
  /\ Running /\ trouble < MaxTrouble /\ trouble' = trouble + 1
  /\ LinkDrops \/ LinkReturns \/ DaemonDies \/ DaemonStarts \/ BatteryReads
  /\ UNCHANGED <<at, step, attempt, pulses, scratch, recorder, readings, result, alive>>

ObserveInit ==
  /\ at = 0 /\ step = "start" /\ attempt = 0 /\ pulses = <<>> /\ scratch = {} /\ recorder = "recorded"
  /\ readings = <<>>
  /\ result = NoResult
  /\ waiting = FALSE /\ trouble = 0
  /\ link = TRUE /\ daemon = TRUE /\ battery = "ok" /\ moved = FALSE /\ alive = FALSE /\ calm = TRUE

Advance ==
  Start \/ NextCode \/ StartRecording \/ Pulse \/ RecorderEnds \/ Finish \/ Judge \/ Agree

ObserveNext == Advance \/ Trouble

\* The run is a program that goes on; ffmpeg ends or times out; judge and daemon answer.
ObserveFairness == WF_observe(Advance)

ObserveRuns == ObserveInit /\ [][ObserveNext]_observe
ObserveSpec == ObserveRuns /\ ObserveFairness

---------------------------------------------------------------------------
(* Properties.                                                               *)

\* A code is confirmed of a robot that executed something for it, unless the
\* link dropped after the code's own readiness check: a robot that was out of
\* reach already is never recorded (cli.py's _observe_readiness_error).
Earned == result.status = "confirmed" /\ result.calm => result.alive

\* A code is confirmed if and only if Repeats of its readings clear the floor
\* and agree, the last of them among these, and it is earned; else it is
\* uncertain, after exactly the attempts the limit allows. (loop.py's
\* _reproduced and derive_code.) To agree is to have one key, joint and motion,
\* as the code has it: the property does not promise what loop.py:65 and
\* docs/observe-loop.md:20 say, that the directions match as well.
ReproducedOnly ==
  LET n == Len(result.readings)
      Agreeing(S, key) == \A k \in S: result.readings[k] = [key |-> key, confidence |-> 1]
  IN CASE result.status = "confirmed" ->
            /\ \E S \in SUBSET (1..n): n \in S /\ Cardinality(S) = Repeats /\ Agreeing(S, result.key)
            /\ Earned
       [] result.status = "uncertain" ->
            /\ n = Repeats + RetryLimit
            /\ \A S \in SUBSET (1..n), key \in Motions: Cardinality(S) = Repeats => ~Agreeing(S, key)
       [] OTHER -> TRUE

\* Frames are ephemeral: outside an attempt no scratch directory is on disk,
\* however the attempt ended (loop.py's finally, capture.py's except), but for a
\* drive that fails under its own recording, which nobody then finishes.
NothingLeft ==
  step \notin {"drive", "judge"} => scratch = {} \/ (step = "halted" /\ pulses # <<>>)

\* The loop never stalls: each run ends, with a hung camera, a dead link or a
\* judge that cannot agree (loop.py's and capture.py's bounds).
RunEnds == <>~Running
====
