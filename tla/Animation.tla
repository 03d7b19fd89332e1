------------------------------- MODULE Animation -------------------------------
(***************************************************************************)
(* The animation of a playback (speak/animate.py): the talking face, the   *)
(* thread that pulses gestures, the watchdog, and the teardown that brings *)
(* the robot back to neutral.  One object serves all playbacks; `event` is *)
(* the number of the playback whose stop event, thread and timer it made   *)
(* last.                                                                   *)
(*                                                                         *)
(* The daemon is seen through its client: a request is answered (the       *)
(* daemon queued its items, which it executes in order), refused, or given *)
(* up by the client, and then perhaps executed later.                      *)
(*                                                                         *)
(* `doubt` records the accidents after which the code promises nothing: a  *)
(* request the client gave up on and the daemon may still execute, a join  *)
(* that gave up, a watchdog that took another playback's animation.        *)
(***************************************************************************)
EXTENDS Naturals, FiniteSets

CONSTANTS
  Plays,    \* bound: the playbacks of the object's life
  Attempts  \* _NEUTRAL_ATTEMPTS

ASSUME AnimationAssumption == Plays \in Nat /\ Attempts \in Nat \ {0}

Gens     == 1..Plays
Ender    == 0                \* on_end; a watchdog is its number
Tearers  == 0..Plays
Requests == {"talk", "pulse", "neutral"}

VARIABLES
  active,   \* _active
  event,    \* the number of _stop_event
  stopped,  \* the events that are set
  thread,   \* the number of _gesture_thread, 0 is None
  timer,    \* the number of _watchdog_timer, 0 is None
  hook,     \* where on_start is
  pulse,    \* where each gesture thread is
  bound,    \* the event each gesture thread waits on
  dog,      \* where each watchdog is
  tear,     \* where each teardown is
  joins,    \* the thread each teardown joins, 0 is none
  tries,    \* the attempts each teardown has left
  face,     \* the face the daemon was told last
  arms,     \* what the daemon was told last of the arms
  late,     \* requests given up by the client that the daemon still holds
  gaveUp,   \* the last teardown used all its attempts
  doubt,    \* see above
  reachable \* the daemon always answers in this behaviour (see SpeakService)

lifeVars  == <<active, event, stopped, thread, timer, hook>>
pulseVars == <<pulse, bound>>
tearVars  == <<tear, joins, tries, gaveUp>>
robotVars == <<face, arms, late, reachable>>
animVars  == <<lifeVars, pulseVars, dog, tearVars, robotVars, doubt>>

AnimTypeOK ==
  /\ active \in BOOLEAN /\ event \in Tearers /\ stopped \subseteq Gens
  /\ thread \in Tearers /\ timer \in Tearers /\ hook \in {"off", "talk", "launch"}
  /\ pulse \in [Gens -> {"none", "wait", "ask", "over"}] /\ bound \in [Gens -> Tearers]
  /\ dog \in [Gens -> {"none", "armed", "fired", "over"}]
  /\ tear \in [Tearers -> {"off", "join", "neutral"}]
  /\ joins \in [Tearers -> Tearers] /\ tries \in [Tearers -> 0..Attempts]
  /\ face \in {"neutral", "talking"} /\ arms \in {"down", "up"}
  /\ late \subseteq Requests /\ gaveUp \in BOOLEAN
  /\ doubt \in BOOLEAN /\ reachable \in BOOLEAN

AnimInit ==
  /\ active = FALSE /\ event = 0 /\ stopped = {} /\ thread = 0 /\ timer = 0 /\ hook = "off"
  /\ pulse = [g \in Gens |-> "none"] /\ bound = [g \in Gens |-> 0]
  /\ dog = [g \in Gens |-> "none"]
  /\ tear = [e \in Tearers |-> "off"] /\ joins = [e \in Tearers |-> 0]
  /\ tries = [e \in Tearers |-> 0]
  /\ face = "neutral" /\ arms = "down" /\ late = {} /\ gaveUp = FALSE
  /\ doubt = FALSE /\ reachable \in BOOLEAN

-----------------------------------------------------------------------------
(* The daemon, external: what executing a request's items does.            *)
Execute(m) ==
  /\ face' = CASE m = "talk" -> "talking" [] m = "neutral" -> "neutral" [] OTHER -> face
  /\ arms' = CASE m = "pulse" -> "up" [] m = "neutral" -> "down" [] OTHER -> arms

(* client.request: the whole exchange is bounded by a timeout, after which *)
(* the daemon may still execute what it was sent; so it may when its reply *)
(* is lost.  Bounds: one such request in a behaviour, before any other     *)
(* accident, and no failure where the daemon is `reachable`.               *)
Request(m, reply) ==
  \/ reply = "answered" /\ Execute(m) /\ UNCHANGED <<late, doubt, reachable>>
  \/ reply = "refused" /\ ~reachable /\ UNCHANGED <<robotVars, doubt>>
  \/ /\ reply = "given up" /\ ~reachable /\ ~doubt
     /\ late' = late \cup {m} /\ doubt' = TRUE /\ UNCHANGED <<face, arms, reachable>>

(* _enqueue: any exception is a logged FALSE.                              *)
Enqueue(m, ok) ==
  \/ ok /\ Request(m, "answered")
  \/ ~ok /\ (Request(m, "refused") \/ Request(m, "given up"))

ExecuteLate(m) ==
  /\ m \in late /\ late' = late \ {m} /\ Execute(m)
  /\ UNCHANGED <<lifeVars, pulseVars, dog, tearVars, doubt, reachable>>

-----------------------------------------------------------------------------
(* on_start.                                                               *)

OnStart ==
  /\ IF active THEN UNCHANGED lifeVars
     ELSE /\ active' = TRUE /\ event' = event + 1 /\ hook' = "talk"
          /\ UNCHANGED <<stopped, thread, timer>>
  /\ UNCHANGED <<pulseVars, dog, tearVars, robotVars, doubt>>

Talk(ok) ==
  /\ hook = "talk" /\ Enqueue("talk", ok)
  /\ active' = (active /\ ok)
  /\ hook' = IF ok THEN "launch" ELSE "off"
  /\ UNCHANGED <<event, stopped, thread, timer, pulseVars, dog, tearVars>>

(* The thread and the watchdog are stored and started.  A watchdog of an   *)
(* earlier playback between the two is an accident in any case.            *)
Launch ==
  /\ hook = "launch" /\ hook' = "off"
  /\ thread' = event /\ timer' = event
  /\ pulse' = [pulse EXCEPT ![event] = "wait"] /\ bound' = [bound EXCEPT ![event] = event]
  /\ dog' = [dog EXCEPT ![event] = "armed"]
  /\ UNCHANGED <<active, event, stopped, tearVars, robotVars, doubt>>

-----------------------------------------------------------------------------
(* _gesture_loop: the wait ends early when the event it took is set.       *)

PulseWakes(g) ==
  /\ pulse[g] = "wait"
  /\ pulse' = [pulse EXCEPT ![g] = IF bound[g] \in stopped THEN "over" ELSE "ask"]
  /\ UNCHANGED <<lifeVars, bound, dog, tearVars, robotVars, doubt>>

PulseAsks(g, ok) ==
  /\ pulse[g] = "ask" /\ Enqueue("pulse", ok)
  /\ pulse' = [pulse EXCEPT ![g] = IF ok THEN "wait" ELSE "over"]
  /\ bound' = [bound EXCEPT ![g] = event]
  /\ UNCHANGED <<lifeVars, dog, tearVars>>

-----------------------------------------------------------------------------
(* _teardown, by on_end (the Ender) or by a watchdog.                      *)

Take(e) ==
  /\ active' = FALSE /\ stopped' = stopped \cup {event}
  /\ thread' = 0 /\ timer' = 0
  /\ tear' = [tear EXCEPT ![e] = "join"] /\ joins' = [joins EXCEPT ![e] = thread]
  /\ tries' = [tries EXCEPT ![e] = Attempts]

OnEnd ==
  /\ \/ ~active /\ UNCHANGED <<lifeVars, dog, tearVars>>
     \/ /\ active /\ Take(Ender)
        /\ dog' = [g \in Gens |-> IF g = timer /\ dog[g] = "armed" THEN "over" ELSE dog[g]]
        /\ UNCHANGED <<event, hook, gaveUp>>
  /\ UNCHANGED <<pulseVars, robotVars, doubt>>

(* The timer's time is over, and cancel comes too late.                    *)
WatchdogFires(g) ==
  /\ ~reachable /\ dog[g] = "armed" /\ dog' = [dog EXCEPT ![g] = "fired"]
  /\ UNCHANGED <<lifeVars, pulseVars, tearVars, robotVars, doubt>>

OnWatchdog(g) ==
  /\ dog[g] = "fired"
  /\ \/ /\ ~active /\ dog' = [dog EXCEPT ![g] = "over"]
        /\ UNCHANGED <<lifeVars, tearVars, doubt>>
     \/ /\ active /\ Take(g)
        /\ dog' = [h \in Gens |-> IF h = g \/ (h = timer /\ dog[h] = "armed") THEN "over" ELSE dog[h]]
        /\ doubt' = (doubt \/ g # event)
        /\ UNCHANGED <<event, hook, gaveUp>>
  /\ UNCHANGED <<pulseVars, robotVars>>

(* The join ends with the thread, or gives up on one that is in a request  *)
(* or waits on a later playback's event.                                   *)
Join(e) ==
  LET g == joins[e]
      over == g # 0 => pulse[g] = "over"
  IN
  /\ tear[e] = "join" /\ tear' = [tear EXCEPT ![e] = "neutral"]
  /\ ~over => pulse[g] = "ask" \/ bound[g] \notin stopped
  /\ doubt' = (doubt \/ ~over)
  /\ UNCHANGED <<lifeVars, pulseVars, dog, joins, tries, robotVars, gaveUp>>

\* A plausible bug: the neutral return is tried once.
NeutralOnce(e, ok) ==
  /\ tear[e] = "neutral" /\ Enqueue("neutral", ok)
  /\ tear' = [tear EXCEPT ![e] = "off"] /\ gaveUp' = FALSE
  /\ tries' = [tries EXCEPT ![e] = 0] /\ joins' = [joins EXCEPT ![e] = 0]
  /\ UNCHANGED <<lifeVars, pulseVars, dog>>

\* A plausible bug: one attempt too many.
NeutralOneMore(e, ok) ==
  /\ tear[e] = "neutral" /\ Enqueue("neutral", ok)
  /\ LET last == ok \/ tries[e] = 0 IN
     /\ tear' = IF last THEN [tear EXCEPT ![e] = "off"] ELSE tear
     /\ joins' = IF last THEN [joins EXCEPT ![e] = 0] ELSE joins
     /\ tries' = [tries EXCEPT ![e] = IF ok THEN 0 ELSE @ - 1]
     /\ gaveUp' = IF last THEN ~ok ELSE gaveUp
  /\ UNCHANGED <<lifeVars, pulseVars, dog>>

(* The neutral return, until it is answered or its attempts are used up.   *)
Neutral(e, ok) ==
  /\ tear[e] = "neutral" /\ Enqueue("neutral", ok)
  /\ LET last == ok \/ tries[e] = 1 IN
     /\ tear' = IF last THEN [tear EXCEPT ![e] = "off"] ELSE tear
     /\ joins' = IF last THEN [joins EXCEPT ![e] = 0] ELSE joins
     /\ tries' = [tries EXCEPT ![e] = IF ok THEN 0 ELSE @ - 1]
     /\ gaveUp' = IF last THEN ~ok ELSE gaveUp
  /\ UNCHANGED <<lifeVars, pulseVars, dog>>

-----------------------------------------------------------------------------
Starting   == (\E ok \in BOOLEAN : Talk(ok)) \/ Launch
Pulsing(g) == PulseWakes(g) \/ \E ok \in BOOLEAN : PulseAsks(g, ok)
Tearing(e) == Join(e) \/ \E ok \in BOOLEAN : Neutral(e, ok)

AnimNext ==
  \/ Starting
  \/ \E g \in Gens : Pulsing(g) \/ WatchdogFires(g) \/ OnWatchdog(g)
  \/ \E e \in Tearers : Tearing(e)
  \/ \E m \in late : ExecuteLate(m)
=============================================================================
