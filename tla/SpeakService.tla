----------------------------- MODULE SpeakService -----------------------------
(***************************************************************************)
(* The speak service (speak/server.py) over the animation and the sinks:   *)
(* HTTP worker threads that play a clip or a stream under one gate, and a  *)
(* worker that stops what is playing.  A step is what a worker does        *)
(* between two points where another thread may run.                        *)
(*                                                                         *)
(* The player of a stream is what StreamPlayer promises of it: it runs     *)
(* from its start until its device finished it, it was stopped or it died, *)
(* and its producer stops it on an error of the source.  A clip's write    *)
(* cannot be interrupted.                                                  *)
(*                                                                         *)
(* Bound: a behaviour has one kind of trouble.  With a `reachable` daemon  *)
(* the devices change, sources fail and playbacks are stopped; without,    *)
(* requests to the daemon fail and watchdogs fire.                         *)
(***************************************************************************)
EXTENDS Sink, Animation

CONSTANTS
  Workers,  \* the playback requests, each a thread of its own
  None      \* no worker

ASSUME SpeakAssumption ==
  /\ Cardinality(Workers) <= Plays /\ IsFiniteSet(Workers) /\ None \notin Workers
  /\ Sinks = {"clip", "stream"}

VARIABLES
  kind,     \* the endpoint each request came to
  at,       \* where each worker is
  answer,   \* what it answers
  gate,     \* the holder of _playback_lock
  armed,    \* the playback whose stop is _active_stop
  asked,    \* _stop_requested
  halted,   \* the stream players stop() was called on
  player,   \* where each stream's player is
  faulty,   \* the streams whose producer failed
  taken     \* the playback whose stop a stop request took, None before

serviceVars == <<kind, at, answer, gate, armed, asked, halted, player, faulty, taken>>
vars == <<serviceVars, sinkVars, animVars>>

Answers == {"none", "bad", "busy", "unavailable", "failed", "completed", "stopped", "died"}

TypeOK ==
  /\ kind \in [Workers -> Sinks]
  /\ at \in [Workers -> {"gate", "arm", "resolve", "begin", "open", "retry", "await",
                         "play", "replay", "clear", "unlock", "done"}]
  /\ answer \in [Workers -> Answers]
  /\ gate \in Workers \cup {None} /\ armed \in Workers \cup {None} /\ asked \in BOOLEAN
  /\ halted \subseteq Workers /\ faulty \subseteq Workers
  /\ player \in [Workers -> {"off", "running", "completed", "stopped", "died"}]
  /\ taken \in Workers \cup {None}
  /\ SinkTypeOK /\ AnimTypeOK

Init ==
  /\ kind \in [Workers -> Sinks]
  /\ at = [w \in Workers |-> "gate"] /\ answer = [w \in Workers |-> "none"]
  /\ gate = None /\ armed = None /\ asked = FALSE
  /\ halted = {} /\ player = [w \in Workers |-> "off"] /\ faulty = {} /\ taken = None
  /\ SinkInit /\ AnimInit
  /\ ~reachable => ResolveIndex(world) = 1  \* the robot is there

Goes(w, place) == at' = [at EXCEPT ![w] = place]
Ends(w, what, place) == answer' = [answer EXCEPT ![w] = what] /\ Goes(w, place)

-----------------------------------------------------------------------------
(* handle_clip and handle_stream up to the arming of the stop.             *)

Acquire(w) ==
  /\ at[w] = "gate"
  /\ \/ gate = None /\ gate' = w /\ Goes(w, "arm") /\ UNCHANGED answer
     \/ gate # None /\ Ends(w, "busy", "done") /\ UNCHANGED gate
     \/ Ends(w, "bad", "done") /\ UNCHANGED gate  \* its parameters are refused
  /\ UNCHANGED <<kind, armed, asked, halted, player, faulty, taken, sinkVars, animVars>>

ArmStop(w) ==
  /\ at[w] = "arm" /\ Goes(w, "resolve")
  /\ armed' = w /\ asked' = FALSE
  /\ UNCHANGED <<kind, answer, gate, halted, player, faulty, taken, sinkVars, animVars>>

(* Clip: decode, then look the device up; a stream looks it up before it   *)
(* opens, and a player that cannot start is stopped for its producer.      *)
Prepare(w) ==
  /\ at[w] = "resolve"
  /\ \/ /\ kind[w] = "clip" /\ Ends(w, "bad", "clear") /\ UNCHANGED <<halted, sinkVars>>
     \/ /\ Resolved(kind[w]) = 0 /\ Ends(w, "unavailable", "clear") /\ UNCHANGED sinkVars
        /\ halted' = IF kind[w] = "stream" THEN halted \cup {w} ELSE halted
     \/ /\ Resolved(kind[w]) # 0 /\ Resolve(kind[w])
        /\ Goes(w, IF kind[w] = "clip" THEN "begin" ELSE "open") /\ UNCHANGED <<answer, halted>>
  /\ UNCHANGED <<kind, gate, armed, asked, player, faulty, taken, animVars>>

(* on_start, once the playback is sure to begin.                           *)
Begin(w) ==
  /\ at[w] = "begin" /\ OnStart
  /\ Goes(w, IF kind[w] = "clip" THEN "play" ELSE "await")
  /\ UNCHANGED <<kind, answer, gate, armed, asked, halted, player, faulty, taken, sinkVars>>

Lost(k) == IF index'[k] = 0 THEN "unavailable" ELSE "failed"

-----------------------------------------------------------------------------
(* handle_stream: an open that fails has one recovery; then the stream is  *)
(* started, unless a stop came first.  A start that fails has none.        *)
OpenStream(w) ==
  /\ \/ /\ \/ at[w] = "open" /\ WriteFirst("stream")
           \/ at[w] = "retry" /\ WriteAgain("stream")
        /\ player' = [player EXCEPT ![w] = IF w \in halted THEN "stopped" ELSE "running"]
        /\ Goes(w, "begin") /\ UNCHANGED <<answer, halted>>
     \/ at[w] = "open" /\ Goes(w, "retry") /\ UNCHANGED <<answer, halted, player, sinkVars>>
     \/ /\ at[w] = "retry" /\ WriteFails("stream") /\ halted' = halted \cup {w}
        /\ Ends(w, Lost("stream"), "clear") /\ UNCHANGED player
     \/ /\ at[w] = "open" /\ Opens(snapshot, dead, Resolved("stream"))
        /\ halted' = halted \cup {w} /\ Ends(w, "failed", "clear") /\ UNCHANGED <<player, sinkVars>>
  /\ UNCHANGED <<kind, gate, armed, asked, faulty, taken, animVars>>

(* _await_stream: the outcome, or a stop when the wait has timed out.      *)
AwaitStream(w) ==
  /\ at[w] = "await" /\ hook = "off"
  /\ \/ /\ player[w] # "running" /\ UNCHANGED <<halted, player>>
        /\ Ends(w, IF w \in faulty THEN "failed" ELSE player[w], "clear") /\ OnEnd
     \/ /\ player[w] = "running" /\ halted' = halted \cup {w}
        /\ \E o \in {"stopped", "died"} : player' = [player EXCEPT ![w] = o]
        /\ UNCHANGED <<at, answer, animVars>>
  /\ UNCHANGED <<kind, gate, armed, asked, faulty, taken, sinkVars>>

-----------------------------------------------------------------------------
(* handle_clip: the write has one recovery, its outcome is read under the  *)
(* lock, and the animation ends either way.                                *)

Written == IF asked THEN "stopped" ELSE "completed"

\* A plausible bug: a clip whose device is lost ends no animation.
PlayClipUnended(w) ==
  /\ hook = "off"
  /\ \/ /\ \/ at[w] = "play" /\ WriteFirst("clip")
           \/ at[w] = "replay" /\ WriteAgain("clip")
        /\ Ends(w, Written, "clear") /\ OnEnd
     \/ at[w] = "play" /\ Goes(w, "replay") /\ UNCHANGED <<answer, sinkVars, animVars>>
     \/ at[w] = "replay" /\ WriteFails("clip") /\ Ends(w, Lost("clip"), "clear") /\ UNCHANGED animVars
  /\ UNCHANGED <<kind, gate, armed, asked, halted, player, faulty, taken>>

PlayClip(w) ==
  /\ hook = "off"
  /\ \/ /\ \/ at[w] = "play" /\ WriteFirst("clip")
           \/ at[w] = "replay" /\ WriteAgain("clip")
        /\ Ends(w, Written, "clear") /\ OnEnd
     \/ at[w] = "play" /\ Goes(w, "replay") /\ UNCHANGED <<answer, sinkVars, animVars>>
     \/ at[w] = "replay" /\ WriteFails("clip") /\ Ends(w, Lost("clip"), "clear") /\ OnEnd
  /\ UNCHANGED <<kind, gate, armed, asked, halted, player, faulty, taken>>

-----------------------------------------------------------------------------
(* The answer is sent; the request's player goes with it.                  *)
Forget(w) ==
  /\ Ends(w, "none", "done")
  /\ player' = [player EXCEPT ![w] = "off"]
  /\ halted' = halted \ {w} /\ faulty' = faulty \ {w}

\* A plausible bug: the gate is opened before the handle is cleared.
ReleaseUnlockFirst(w) ==
  /\ \/ at[w] = "clear" /\ tear[Ender] = "off" /\ gate' = None /\ Goes(w, "unlock")
        /\ UNCHANGED <<armed, asked, answer, halted, player, faulty>>
     \/ at[w] = "unlock" /\ armed' = None /\ asked' = FALSE /\ UNCHANGED gate /\ Forget(w)
  /\ UNCHANGED <<kind, taken, sinkVars, animVars>>

\* A plausible bug: a request that cannot begin to play keeps the gate.
ReleaseAfterPlayback(w) ==
  /\ \/ at[w] = "clear" /\ tear[Ender] = "off" /\ armed' = None /\ asked' = FALSE
        /\ Goes(w, "unlock") /\ UNCHANGED gate
        /\ UNCHANGED <<answer, halted, player, faulty>>
     \/ at[w] = "unlock" /\ answer[w] # "unavailable" /\ gate' = None
        /\ UNCHANGED <<armed, asked>> /\ Forget(w)
  /\ UNCHANGED <<kind, taken, sinkVars, animVars>>

(* _release, on every way out: the handle first, then the gate.            *)
Release(w) ==
  /\ \/ at[w] = "clear" /\ tear[Ender] = "off" /\ armed' = None /\ asked' = FALSE
        /\ Goes(w, "unlock") /\ UNCHANGED gate
        /\ UNCHANGED <<answer, halted, player, faulty>>
     \/ at[w] = "unlock" /\ gate' = None /\ UNCHANGED <<armed, asked>> /\ Forget(w)
  /\ UNCHANGED <<kind, taken, sinkVars, animVars>>

-----------------------------------------------------------------------------
(* The stream's own threads, and the stop request.                         *)

Halt(w, outcome) ==
  /\ halted' = halted \cup {w}
  /\ player' = [player EXCEPT ![w] = IF @ = "running" THEN outcome ELSE @]

DeviceEnds(w) ==
  /\ player[w] = "running"
  /\ \E o \in {"completed", "died"} : player' = [player EXCEPT ![w] = o]
  /\ UNCHANGED <<kind, at, answer, gate, armed, asked, halted, faulty, taken, sinkVars, animVars>>

(* A source that fails after the stop would only change the answer.        *)
ProducerFails(w) ==
  /\ reachable /\ kind[w] = "stream" /\ w \notin halted
  /\ at[w] \in {"resolve", "begin", "open", "retry", "await"}
  /\ faulty' = faulty \cup {w} /\ Halt(w, "stopped")
  /\ UNCHANGED <<kind, at, answer, gate, armed, asked, taken, sinkVars, animVars>>

(* handle_stop: the handle is read under the lock and called outside it.   *)
(* The stop of a clip does nothing, that of a player that is gone neither. *)
TakeStop ==
  /\ reachable /\ taken = None /\ armed # None
  /\ taken' = (IF kind[armed] = "stream" THEN armed ELSE None) /\ asked' = TRUE
  /\ UNCHANGED <<kind, at, answer, gate, armed, halted, player, faulty, sinkVars, animVars>>

CallStop ==
  /\ taken # None /\ taken' = None
  /\ \/ at[taken] # "done" /\ \E o \in {"stopped", "died"} : Halt(taken, o)
     \/ at[taken] = "done" /\ UNCHANGED <<halted, player>>
  /\ UNCHANGED <<kind, at, answer, gate, armed, asked, faulty, sinkVars, animVars>>

-----------------------------------------------------------------------------
Work(w) ==
  \/ Acquire(w) \/ ArmStop(w) \/ Prepare(w) \/ Begin(w)
  \/ OpenStream(w) \/ AwaitStream(w) \/ PlayClip(w) \/ Release(w)

(* The devices matter where a sink looks at them next; a change elsewhere  *)
(* is the same as one there.                                               *)
DevicesChange ==
  /\ \E w \in Workers : at[w] \in {"resolve", "open", "retry", "play", "replay"}
  /\ reachable /\ Reregister /\ UNCHANGED <<serviceVars, animVars>>

Animate == AnimNext /\ UNCHANGED <<serviceVars, sinkVars>>

Next ==
  \/ \E w \in Workers : Work(w) \/ DeviceEnds(w) \/ ProducerFails(w)
  \/ TakeStop \/ CallStop
  \/ Animate \/ DevicesChange

(* A clip's write blocks in the device, with no timeout, and its stop does *)
(* nothing: it ends if the device lets it.                                 *)
Writing(w) == at[w] \in {"play", "replay"} /\ hook = "off"

(* Threads run on: a request to the daemon, a join and the wait for a      *)
(* stream are bounded by their timeouts, and opening, starting and         *)
(* stopping a device return.  Nothing is assumed of a clip's write; a      *)
(* source may stall.                                                       *)
Fairness ==
  /\ \A w \in Workers : WF_vars(Work(w) /\ ~Writing(w))
  /\ WF_vars(Starting /\ UNCHANGED <<serviceVars, sinkVars>>)
  /\ \A g \in Gens : WF_vars(Pulsing(g) /\ UNCHANGED <<serviceVars, sinkVars>>)
  /\ \A e \in Tearers : WF_vars(Tearing(e) /\ UNCHANGED <<serviceVars, sinkVars>>)

Spec == Init /\ [][Next]_vars /\ Fairness

-----------------------------------------------------------------------------
(* Properties.                                                             *)

Playing(w) == at[w] \in {"resolve", "begin", "open", "retry", "await", "play", "replay", "clear"}

(* From the arming to the release, the stop a stop request finds is that   *)
(* of the playback that holds the gate, whatever the playback before it    *)
(* still does ("the single playback lock is held for the whole of one      *)
(* playback"); nobody finds a stop, or a stop request, that is over.       *)
HandleIsCurrent ==
  /\ \A w \in Workers : Playing(w) => gate = w /\ armed = w
  /\ armed # None => gate = armed
  /\ asked => armed # None

(* Once a playback's animation is over, and no accident happened, the      *)
(* daemon was told the neutral face and the arms down last: "the robot     *)
(* never holds the talking face after the audio is over", and no late      *)
(* pulse overrides the neutral pose.                                       *)
NeutralAfter ==
  ~doubt /\ ~gaveUp /\ ~active /\ hook = "off" /\ (\A e \in Tearers : tear[e] = "off")
    => face = "neutral" /\ arms = "down"

(* A free gate means nothing animates: no playback is left active, no      *)
(* watchdog is left to fire into the next one, and no gesture thread       *)
(* pulses on, but for one a watchdog is still joining.                     *)
QuietWhenFree ==
  ~doubt /\ gate = None =>
    /\ ~active /\ \A g \in Gens : dog[g] # "armed"
    /\ \A g \in Gens : pulse[g] \in {"none", "over"} \/ \E e \in Gens : joins[e] = g

(* As long as one sink is used, audio goes to the device of that name and  *)
(* to no other, however often the robot leaves and comes back ("never to   *)
(* the host default").                                                     *)
NamedDeviceOnly ==
  (\A w, v \in Workers : kind[w] = kind[v]) => heard # "host"

(* The gate is released by whoever holds it, or a clip is being written: a *)
(* stalled source, a hung daemon or a missing device keeps no later        *)
(* playback out for ever, and a clip's write is the only step that can     *)
(* (_write_clip); once it returned the gate is released as well.           *)
GateReleased == \A w \in Workers : gate = w ~> gate # w \/ Writing(w)

(* DeviceUnavailableError is "raised when the configured target output     *)
(* device is not a connected output".                                      *)
UnavailableMeansGone ==
  [][\A w \in Workers : answer[w] # "unavailable" /\ answer'[w] = "unavailable"
       => ~\E i \in 1..Len(world) : world[i] = "robot"]_vars
=============================================================================
