---- MODULE SpeakProofs ----
(***************************************************************************)
(* The speak service, for any number of requests, devices and attempts:    *)
(* the gate and the stop handle agree; a playback's animation ends with    *)
(* the neutral pose, and has ended when the gate is free; audio reaches    *)
(* the named device or none.                                               *)
(***************************************************************************)
EXTENDS SpeakService, TLAPS, FiniteSetTheorems

(* HandleIsCurrent is not inductive: a worker between the gate and the     *)
(* arming, or between the clearing and the release, holds the gate with no *)
(* handle, and a handle must be that of a playback.                        *)
Places == {"gate", "arm", "resolve", "begin", "open", "retry", "await",
           "play", "replay", "clear", "unlock", "done"}
Holding(w) == at[w] \in Places \ {"gate", "done"}

HandleInv ==
  /\ at \in [Workers -> Places]
  /\ \A w \in Workers : Holding(w) => gate = w
  /\ \A w \in Workers : Playing(w) => armed = w
  /\ armed # None => armed \in Workers /\ Playing(armed)
  /\ asked => armed # None

LEMMA HandleStep == HandleInv /\ [Next]_vars => HandleInv'
<1> SUFFICES ASSUME HandleInv, [Next]_vars PROVE HandleInv'
  OBVIOUS
<1> USE SpeakAssumption DEF HandleInv, Holding, Playing, Places
<1>1. CASE UNCHANGED vars
  BY <1>1 DEF vars, serviceVars
<1>2. ASSUME NEW w \in Workers, Acquire(w) PROVE HandleInv'
  BY <1>2 DEF Acquire, Goes, Ends
<1>3. ASSUME NEW w \in Workers, ArmStop(w) PROVE HandleInv'
  BY <1>3 DEF ArmStop, Goes
<1>4. ASSUME NEW w \in Workers, Prepare(w) PROVE HandleInv'
  BY <1>4 DEF Prepare, Goes, Ends
<1>5. ASSUME NEW w \in Workers, Begin(w) PROVE HandleInv'
  BY <1>5 DEF Begin, Goes
<1>6. ASSUME NEW w \in Workers, OpenStream(w) PROVE HandleInv'
  BY <1>6 DEF OpenStream, Goes, Ends
<1>7. ASSUME NEW w \in Workers, AwaitStream(w) PROVE HandleInv'
  BY <1>7 DEF AwaitStream, Goes, Ends
<1>8. ASSUME NEW w \in Workers, PlayClip(w) PROVE HandleInv'
  BY <1>8 DEF PlayClip, Goes, Ends
<1>9. ASSUME NEW w \in Workers, Release(w) PROVE HandleInv'
  BY <1>9 DEF Release, Forget, Goes, Ends
<1>10. ASSUME NEW w \in Workers, DeviceEnds(w) \/ ProducerFails(w) PROVE HandleInv'
  BY <1>10 DEF DeviceEnds, ProducerFails
<1>11. CASE TakeStop
  BY <1>11 DEF TakeStop
<1>12. CASE CallStop
  BY <1>12 DEF CallStop
<1>13. CASE Animate \/ DevicesChange
  BY <1>13 DEF Animate, DevicesChange, serviceVars
<1> QED
  BY <1>1, <1>2, <1>3, <1>4, <1>5, <1>6, <1>7, <1>8, <1>9, <1>10, <1>11, <1>12, <1>13
     DEF Next, Work

(* A stop request finds the stop of the playback that holds the gate, or   *)
(* none (_acquire, _arm_stop and _release of speak/server.py).             *)
THEOREM HandleHeld == Spec => []HandleIsCurrent
<1>1. Init => HandleInv
  BY SpeakAssumption DEF Init, HandleInv, Holding, Playing, Places
<1>2. HandleInv => HandleIsCurrent
  BY SpeakAssumption DEF HandleInv, HandleIsCurrent, Holding, Playing, Places
<1> QED BY <1>1, <1>2, HandleStep, PTL DEF Spec
-----------------------------------------------------------------------------
(* The animation by itself: what holds in any order of its steps, accident *)
(* or not.  A number is used for one playback, its watchdog has one life   *)
(* and tears down at most at its end, and a teardown that runs has         *)
(* attempts left.                                                          *)
AnimLife ==
  /\ (late # {} => doubt)
  /\ \A g \in Gens : g > event => dog[g] = "none"
  /\ (hook # "off" => event # 0 /\ dog[event] = "none")
  /\ (active => event # 0)
  /\ \A g \in Gens : dog[g] # "over" => tear[g] = "off"
  /\ \A e \in Tearers : tear[e] # "off" => tries[e] > 0

LifeInv == AnimTypeOK /\ AnimLife

LEMMA TakeTyped ==
  ASSUME AnimTypeOK, NEW e \in Tearers, Take(e)
  PROVE  /\ active' = FALSE /\ thread' = 0 /\ timer' = 0 /\ 0 \in Tearers
         /\ tear' \in [Tearers -> {"off", "join", "neutral"}]
         /\ joins' \in [Tearers -> Tearers] /\ tries' \in [Tearers -> 0..Attempts]
         /\ stopped' = stopped \cup {event} /\ (event # 0 => stopped' \subseteq Gens)
         /\ tear'[e] = "join" /\ joins'[e] = thread /\ tries'[e] > 0
         /\ \A f \in Tearers : f # e => tear'[f] = tear[f] /\ joins'[f] = joins[f] /\ tries'[f] = tries[f]
<1>1. /\ event \in 0..Plays /\ stopped \subseteq 1..Plays /\ thread \in 0..Plays
      /\ tear \in [Tearers -> {"off", "join", "neutral"}]
      /\ joins \in [Tearers -> Tearers] /\ tries \in [Tearers -> 0..Attempts]
  BY DEF AnimTypeOK, Tearers, Gens
<1>2. /\ active' = FALSE /\ stopped' = stopped \cup {event}
      /\ thread' = 0 /\ timer' = 0
      /\ tear' = [tear EXCEPT ![e] = "join"] /\ joins' = [joins EXCEPT ![e] = thread]
      /\ tries' = [tries EXCEPT ![e] = Attempts]
  BY DEF Take
<1>3. thread \in Tearers /\ 0 \in Tearers /\ Attempts \in 0..Attempts /\ Attempts > 0
  BY <1>1, AnimationAssumption DEF Tearers
<1>4. event # 0 => stopped' \subseteq Gens
  BY <1>1, <1>2, AnimationAssumption DEF Gens
<1>5. /\ tear' \in [Tearers -> {"off", "join", "neutral"}] /\ tear'[e] = "join"
      /\ \A f \in Tearers : f # e => tear'[f] = tear[f]
  BY <1>1, <1>2
<1>6. /\ joins' \in [Tearers -> Tearers] /\ joins'[e] = thread
      /\ \A f \in Tearers : f # e => joins'[f] = joins[f]
  BY <1>1, <1>2, <1>3
<1>7. /\ tries' \in [Tearers -> 0..Attempts] /\ tries'[e] = Attempts
      /\ \A f \in Tearers : f # e => tries'[f] = tries[f]
  BY <1>1, <1>2, <1>3
<1> QED BY <1>2, <1>3, <1>4, <1>5, <1>6, <1>7

LEMMA LifeStep ==
  ASSUME LifeInv, AnimNext \/ OnEnd \/ (OnStart /\ event < Plays)
  PROVE  LifeInv'
<1> USE AnimationAssumption DEF Gens, Tearers, Ender, Requests
<1>0. AnimTypeOK /\ AnimLife
  BY DEF LifeInv
<1>a. event \in Tearers /\ (event # 0 => event \in Gens) /\ Gens \subseteq Tearers
  <2>1. event \in Tearers
    BY <1>0 DEF AnimTypeOK
  <2> QED BY <2>1
<1>1. ASSUME NEW ok \in BOOLEAN, Talk(ok) PROVE LifeInv'
  BY <1>0, <1>1 DEF LifeInv, AnimTypeOK, AnimLife, Talk, Enqueue, Request, Execute, robotVars, pulseVars, tearVars
<1>2. CASE Launch
  <2>1. AnimTypeOK'
    BY <1>0, <1>2 DEF AnimTypeOK, AnimLife, Launch, robotVars, tearVars
  <2>2. (late # {} => doubt)'
    BY <1>0, <1>2 DEF AnimTypeOK, AnimLife, Launch, robotVars, tearVars
  <2>3. (\A h \in Gens : h > event => dog[h] = "none")'
    <3>1. event \in Gens /\ event' = event /\ dog' = [dog EXCEPT ![event] = "armed"]
      BY <1>0, <1>2 DEF AnimTypeOK, AnimLife, Launch
    <3>2. dog \in [Gens -> {"none", "armed", "fired", "over"}] /\ event \in Nat /\ ~(event > event)
      BY <1>0, <1>a DEF AnimTypeOK
    <3>3. \A h \in Gens : h > event => dog[h] = "none"
      BY <1>0 DEF AnimLife
    <3> QED BY <3>1, <3>2, <3>3
  <2>4. (hook # "off" => event # 0 /\ dog[event] = "none")' /\ (active => event # 0)'
    BY <1>0, <1>2 DEF AnimTypeOK, AnimLife, Launch, robotVars, tearVars
  <2>5. (\A h \in Gens : dog[h] # "over" => tear[h] = "off")'
    BY <1>0, <1>2 DEF AnimTypeOK, AnimLife, Launch, robotVars, tearVars
  <2>6. (\A f \in Tearers : tear[f] # "off" => tries[f] > 0)'
    BY <1>0, <1>2 DEF AnimTypeOK, AnimLife, Launch, robotVars, tearVars
  <2> QED BY <2>1, <2>2, <2>3, <2>4, <2>5, <2>6 DEF LifeInv, AnimLife
<1>3. ASSUME NEW g \in Gens, PulseWakes(g) PROVE LifeInv'
  BY <1>0, <1>3 DEF LifeInv, AnimTypeOK, AnimLife, PulseWakes, robotVars, lifeVars, tearVars
<1>4. ASSUME NEW g \in Gens, NEW ok \in BOOLEAN, PulseAsks(g, ok) PROVE LifeInv'
  BY <1>0, <1>4 DEF LifeInv, AnimTypeOK, AnimLife, PulseAsks, Enqueue, Request, Execute, robotVars, lifeVars, tearVars
<1>5. ASSUME NEW g \in Gens, WatchdogFires(g) PROVE LifeInv'
  <2>1. AnimTypeOK'
    BY <1>0, <1>5 DEF AnimTypeOK, AnimLife, WatchdogFires, robotVars, lifeVars, tearVars, pulseVars
  <2>2. (late # {} => doubt)'
    BY <1>0, <1>5 DEF AnimTypeOK, AnimLife, WatchdogFires, robotVars, lifeVars, tearVars, pulseVars
  <2>3. (\A h \in Gens : h > event => dog[h] = "none")'
    BY <1>0, <1>5 DEF AnimTypeOK, AnimLife, WatchdogFires, robotVars, lifeVars, tearVars, pulseVars
  <2>4. (hook # "off" => event # 0 /\ dog[event] = "none")' /\ (active => event # 0)'
    BY <1>0, <1>5 DEF AnimTypeOK, AnimLife, WatchdogFires, robotVars, lifeVars, tearVars, pulseVars
  <2>5. (\A h \in Gens : dog[h] # "over" => tear[h] = "off")'
    BY <1>0, <1>5 DEF AnimTypeOK, AnimLife, WatchdogFires, robotVars, lifeVars, tearVars, pulseVars
  <2>6. (\A f \in Tearers : tear[f] # "off" => tries[f] > 0)'
    BY <1>0, <1>5 DEF AnimTypeOK, AnimLife, WatchdogFires, robotVars, lifeVars, tearVars, pulseVars
  <2> QED BY <2>1, <2>2, <2>3, <2>4, <2>5, <2>6 DEF LifeInv, AnimLife
<1>6. ASSUME NEW g \in Gens, OnWatchdog(g) PROVE LifeInv'
  <2>1. UNCHANGED <<event, hook, gaveUp, pulse, bound, face, arms, late, reachable>>
    BY <1>6 DEF OnWatchdog, lifeVars, tearVars, robotVars, pulseVars
  <2>2. doubt' \in BOOLEAN /\ (doubt => doubt')
    BY <1>0, <1>6 DEF OnWatchdog, AnimTypeOK
  <2>3. /\ dog' \in [Gens -> {"none", "armed", "fired", "over"}] /\ dog'[g] = "over"
        /\ \A h \in Gens : (dog'[h] = "none" => dog[h] = "none") /\ (dog[h] = "over" => dog'[h] = "over")
        /\ \A h \in Gens : dog[h] = "none" => dog'[h] = "none"
    <3>1. dog \in [Gens -> {"none", "armed", "fired", "over"}] /\ dog[g] = "fired"
      BY <1>0, <1>6 DEF OnWatchdog, AnimTypeOK
    <3>2. \/ dog' = [dog EXCEPT ![g] = "over"]
          \/ dog' = [h \in Gens |-> IF h = g \/ (h = timer /\ dog[h] = "armed") THEN "over" ELSE dog[h]]
      BY <1>6 DEF OnWatchdog
    <3> HIDE DEF Gens
    <3>3. CASE dog' = [dog EXCEPT ![g] = "over"]
      BY <3>1, <3>3
    <3>4. CASE dog' = [h \in Gens |-> IF h = g \/ (h = timer /\ dog[h] = "armed") THEN "over" ELSE dog[h]]
      BY <3>1, <3>4
    <3> QED BY <3>2, <3>3, <3>4
  <2>4. CASE ~active /\ UNCHANGED <<lifeVars, tearVars>>
    <3>1. UNCHANGED <<active, stopped, thread, timer, tear, joins, tries>>
      BY <2>4 DEF lifeVars, tearVars
    <3> HIDE DEF Gens, Tearers
    <3>2. AnimTypeOK'
      BY <1>0, <2>1, <2>2, <2>3, <3>1 DEF AnimTypeOK
    <3>3. AnimLife'
      BY <1>0, <2>1, <2>2, <2>3, <2>4, <3>1, <1>a DEF AnimLife
    <3> QED BY <3>2, <3>3 DEF LifeInv
  <2>5. CASE active /\ Take(g)
    <3>1. tear[g] = "off" /\ g \in Tearers /\ active' = FALSE
      BY <1>0, <1>6, <2>5 DEF AnimLife, OnWatchdog, Take
    <3> HIDE DEF Gens, Tearers
    <3>0. /\ active' = FALSE /\ thread' = 0 /\ timer' = 0 /\ 0 \in Tearers
          /\ tear' \in [Tearers -> {"off", "join", "neutral"}]
          /\ joins' \in [Tearers -> Tearers] /\ tries' \in [Tearers -> 0..Attempts]
          /\ stopped' \subseteq Gens /\ tear'[g] = "join" /\ tries'[g] > 0
          /\ \A f \in Tearers : f # g => tear'[f] = tear[f] /\ tries'[f] = tries[f]
      BY <1>0, <2>5, <3>1, TakeTyped DEF AnimLife
    <3>2. AnimTypeOK'
      BY <1>0, <2>1, <2>2, <2>3, <3>0 DEF AnimTypeOK
    <3>3. AnimLife'
      BY <1>0, <1>a, <2>1, <2>2, <2>3, <2>5, <3>0, <3>1 DEF AnimLife
    <3> QED BY <3>2, <3>3 DEF LifeInv
  <2> QED BY <1>6, <2>4, <2>5 DEF OnWatchdog
<1>7. ASSUME NEW e \in Tearers, Join(e) PROVE LifeInv'
  <2>1. AnimTypeOK'
    BY <1>0, <1>7 DEF AnimTypeOK, AnimLife, Join, robotVars, lifeVars, tearVars, pulseVars
  <2>2. (late # {} => doubt)'
    BY <1>0, <1>7 DEF AnimTypeOK, AnimLife, Join, robotVars, lifeVars, tearVars, pulseVars
  <2>3. (\A h \in Gens : h > event => dog[h] = "none")'
    BY <1>0, <1>7 DEF AnimTypeOK, AnimLife, Join, robotVars, lifeVars, tearVars, pulseVars
  <2>4. (hook # "off" => event # 0 /\ dog[event] = "none")' /\ (active => event # 0)'
    BY <1>0, <1>7 DEF AnimTypeOK, AnimLife, Join, robotVars, lifeVars, tearVars, pulseVars
  <2>5. (\A h \in Gens : dog[h] # "over" => tear[h] = "off")'
    BY <1>0, <1>7 DEF AnimTypeOK, AnimLife, Join, robotVars, lifeVars, tearVars, pulseVars
  <2>6. (\A f \in Tearers : tear[f] # "off" => tries[f] > 0)'
    BY <1>0, <1>7 DEF AnimTypeOK, AnimLife, Join, robotVars, lifeVars, tearVars, pulseVars
  <2> QED BY <2>1, <2>2, <2>3, <2>4, <2>5, <2>6 DEF LifeInv, AnimLife
<1>8. ASSUME NEW e \in Tearers, NEW ok \in BOOLEAN, Neutral(e, ok) PROVE LifeInv'
  <2>1. AnimTypeOK'
    <3>1. UNCHANGED <<active, event, stopped, thread, timer, hook, pulse, bound, dog>>
      BY <1>8 DEF Neutral, lifeVars, pulseVars
    <3>2. /\ face' \in {"neutral", "talking"} /\ arms' \in {"down", "up"} /\ late' \subseteq Requests
          /\ doubt' \in BOOLEAN /\ reachable' \in BOOLEAN /\ gaveUp' \in BOOLEAN
      BY <1>0, <1>8 DEF AnimTypeOK, Neutral, Enqueue, Request, Execute, robotVars
    <3>3. tear' \in [Tearers -> {"off", "join", "neutral"}] /\ joins' \in [Tearers -> Tearers]
      <4>1. tear \in [Tearers -> {"off", "join", "neutral"}] /\ joins \in [Tearers -> Tearers]
        BY <1>0 DEF AnimTypeOK
      <4>2. tear' \in {tear, [tear EXCEPT ![e] = "off"]} /\ joins' \in {joins, [joins EXCEPT ![e] = 0]}
        BY <1>8 DEF Neutral
      <4>3. tear' \in [Tearers -> {"off", "join", "neutral"}]
        BY <4>1, <4>2
      <4>4. joins' \in [Tearers -> Tearers]
        <5>1. CASE joins' = joins
          BY <4>1, <5>1
        <5>2. CASE joins' = [joins EXCEPT ![e] = 0]
          <6>1. 0 \in Tearers
            OBVIOUS
          <6> QED BY <4>1, <5>2, <6>1
        <5> QED BY <4>2, <5>1, <5>2
      <4> QED BY <4>3, <4>4
    <3>4. tries' \in [Tearers -> 0..Attempts]
      <4>1. tries \in [Tearers -> 0..Attempts]
        BY <1>0 DEF AnimTypeOK
      <4>2. tear[e] = "neutral" /\ tries[e] > 0
        BY <1>0, <1>8 DEF AnimLife, Neutral
      <4>3. tries[e] - 1 \in 0..Attempts /\ 0 \in 0..Attempts
        BY <4>1, <4>2
      <4>4. tries' = [tries EXCEPT ![e] = IF ok THEN 0 ELSE @ - 1]
        BY <1>8 DEF Neutral
      <4> QED BY <4>1, <4>3, <4>4
    <3> HIDE DEF Gens, Tearers
    <3> QED BY <1>0, <3>1, <3>2, <3>3, <3>4 DEF AnimTypeOK
  <2>2. (late # {} => doubt)'
    BY <1>0, <1>8 DEF AnimTypeOK, AnimLife, Neutral, Enqueue, Request, Execute, robotVars, lifeVars, pulseVars
  <2>3. (\A h \in Gens : h > event => dog[h] = "none")'
    BY <1>0, <1>8 DEF AnimTypeOK, AnimLife, Neutral, Enqueue, Request, Execute, robotVars, lifeVars, pulseVars
  <2>4. (hook # "off" => event # 0 /\ dog[event] = "none")' /\ (active => event # 0)'
    BY <1>0, <1>8 DEF AnimTypeOK, AnimLife, Neutral, Enqueue, Request, Execute, robotVars, lifeVars, pulseVars
  <2>5. (\A h \in Gens : dog[h] # "over" => tear[h] = "off")'
    BY <1>0, <1>8 DEF AnimTypeOK, AnimLife, Neutral, Enqueue, Request, Execute, robotVars, lifeVars, pulseVars
  <2>6. (\A f \in Tearers : tear[f] # "off" => tries[f] > 0)'
    BY <1>0, <1>8 DEF AnimTypeOK, AnimLife, Neutral, Enqueue, Request, Execute, robotVars, lifeVars, pulseVars
  <2> QED BY <2>1, <2>2, <2>3, <2>4, <2>5, <2>6 DEF LifeInv, AnimLife
<1>9. ASSUME NEW m \in late, ExecuteLate(m) PROVE LifeInv'
  BY <1>0, <1>9 DEF LifeInv, AnimTypeOK, AnimLife, ExecuteLate, Execute, lifeVars, tearVars, pulseVars
<1>10. CASE OnEnd
  <2>1. UNCHANGED <<event, hook, gaveUp, pulse, bound, face, arms, late, reachable, doubt>>
    BY <1>10 DEF OnEnd, lifeVars, tearVars, robotVars, pulseVars
  <2>2. /\ dog' \in [Gens -> {"none", "armed", "fired", "over"}]
        /\ \A h \in Gens : (dog'[h] = "none" => dog[h] = "none") /\ (dog[h] = "over" => dog'[h] = "over")
        /\ \A h \in Gens : dog[h] = "none" => dog'[h] = "none"
    BY <1>0, <1>10 DEF OnEnd, AnimTypeOK
  <2>3. CASE ~active /\ UNCHANGED <<lifeVars, tearVars>>
    <3>1. UNCHANGED <<active, stopped, thread, timer, tear, joins, tries>>
      BY <2>3 DEF lifeVars, tearVars
    <3> HIDE DEF Gens, Tearers
    <3>2. AnimTypeOK'
      BY <1>0, <2>1, <2>2, <3>1 DEF AnimTypeOK
    <3>3. AnimLife'
      BY <1>0, <1>a, <2>1, <2>2, <2>3, <3>1 DEF AnimLife
    <3> QED BY <3>2, <3>3 DEF LifeInv
  <2>4. CASE active /\ Take(0)
    <3>1. 0 \in Tearers /\ 0 \notin Gens /\ active' = FALSE
      BY <2>4 DEF Take
    <3> HIDE DEF Gens, Tearers
    <3>0. /\ active' = FALSE /\ thread' = 0 /\ timer' = 0 /\ 0 \in Tearers
          /\ tear' \in [Tearers -> {"off", "join", "neutral"}]
          /\ joins' \in [Tearers -> Tearers] /\ tries' \in [Tearers -> 0..Attempts]
          /\ stopped' \subseteq Gens /\ tear'[0] = "join" /\ tries'[0] > 0
          /\ \A f \in Tearers : f # 0 => tear'[f] = tear[f] /\ tries'[f] = tries[f]
      BY <1>0, <2>4, <3>1, TakeTyped DEF AnimLife
    <3>2. AnimTypeOK'
      BY <1>0, <2>1, <2>2, <3>0 DEF AnimTypeOK
    <3>3. AnimLife'
      BY <1>0, <1>a, <2>1, <2>2, <2>4, <3>0, <3>1 DEF AnimLife
    <3> QED BY <3>2, <3>3 DEF LifeInv
  <2> QED BY <1>10, <2>3, <2>4 DEF OnEnd
<1>11. CASE OnStart /\ event < Plays
  <2>1. UNCHANGED <<stopped, thread, timer, pulse, bound, dog, tear, joins, tries, gaveUp, face, arms,
                    late, reachable, doubt>>
    BY <1>11 DEF OnStart, lifeVars, tearVars, robotVars, pulseVars
  <2>2. CASE UNCHANGED lifeVars
    BY <1>0, <2>1, <2>2 DEF LifeInv, AnimTypeOK, AnimLife, lifeVars
  <2>3. CASE active' = TRUE /\ event' = event + 1 /\ hook' = "talk"
    <3>1. event \in Nat /\ event + 1 \in Gens /\ event + 1 \in Tearers /\ event + 1 # 0
      BY <1>0, <1>11 DEF AnimTypeOK
    <3>2. \A h \in Gens : h > event + 1 => h > event
      BY <3>1
    <3>3. dog[event + 1] = "none"
      BY <1>0, <3>1 DEF AnimLife
    <3> HIDE DEF Gens, Tearers
    <3>4. AnimTypeOK'
      BY <1>0, <2>1, <2>3, <3>1 DEF AnimTypeOK
    <3>5. AnimLife'
      BY <1>0, <2>1, <2>3, <3>1, <3>2, <3>3 DEF AnimLife
    <3> QED BY <3>4, <3>5 DEF LifeInv
  <2> QED BY <1>11, <2>2, <2>3 DEF OnStart
<1> QED
  BY <1>1, <1>2, <1>3, <1>4, <1>5, <1>6, <1>7, <1>8, <1>9, <1>10, <1>11
     DEF AnimNext, Starting, Pulsing, Tearing

(* As long as no accident happened, what animates belongs to the active    *)
(* playback or is being torn down.                                         *)
Hooked == (hook # "off" => active /\ thread = 0 /\ timer = 0) /\ (~active => thread = 0 /\ timer = 0)
Guarded == \A g \in Gens : dog[g] = "armed" => active /\ timer = g
Gestured == \A g \in Gens : pulse[g] \in {"wait", "ask"} =>
              \/ active /\ hook = "off" /\ thread = g
              \/ \E e \in Tearers : tear[e] = "join" /\ joins[e] = g
Posed == face # "neutral" \/ arms # "down" =>
           (active /\ hook # "talk") \/ (\E e \in Tearers : tear[e] # "off") \/ gaveUp
Sure == ~doubt => Hooked /\ Guarded /\ Gestured /\ Posed

LEMMA SureStep ==
  ASSUME LifeInv, Sure, AnimNext \/ (OnEnd /\ hook = "off" /\ tear[Ender] = "off") \/ OnStart
  PROVE  Sure'
<1> SUFFICES ASSUME ~doubt' PROVE (Hooked /\ Guarded /\ Gestured /\ Posed)'
  BY DEF Sure
<1> DEFINE Goal == (Hooked /\ Guarded /\ Gestured /\ Posed)'
<1> USE AnimationAssumption DEF Gens, Tearers, Ender
<1>0. AnimTypeOK /\ AnimLife
  BY DEF LifeInv
<1>b. ~doubt /\ late = {}
  BY <1>0 DEF AnimLife, AnimTypeOK, AnimNext, OnEnd, OnStart, Starting, Pulsing, Tearing, Talk, Launch, PulseWakes,
     PulseAsks, WatchdogFires, OnWatchdog, Join, Neutral, ExecuteLate, Enqueue, Request
<1>c. Hooked /\ Guarded /\ Gestured /\ Posed
  BY <1>b DEF Sure
<1>1. ASSUME NEW ok \in BOOLEAN, Talk(ok) PROVE Goal
  <2>1. Hooked'
    BY <1>0, <1>b, <1>c, <1>1 DEF AnimTypeOK, AnimLife, Hooked, Guarded, Gestured, Talk, Enqueue, Request, Execute, robotVars, pulseVars, tearVars
  <2>2. Guarded'
    BY <1>0, <1>b, <1>c, <1>1 DEF AnimTypeOK, AnimLife, Hooked, Guarded, Gestured, Talk, Enqueue, Request, Execute, robotVars, pulseVars, tearVars
  <2>3. Gestured'
    BY <1>0, <1>b, <1>c, <1>1 DEF AnimTypeOK, AnimLife, Hooked, Guarded, Gestured, Talk, Enqueue, Request, Execute, robotVars, pulseVars, tearVars
  <2>4. Posed'
    BY <1>0, <1>b, <1>c, <1>1 DEF AnimTypeOK, AnimLife, Hooked, Guarded, Gestured, Posed, Talk, Enqueue, Request, Execute, robotVars, pulseVars, tearVars
  <2> QED BY <2>1, <2>2, <2>3, <2>4
<1>2. CASE Launch
  <2>1. Hooked'
    BY <1>0, <1>b, <1>c, <1>2 DEF AnimTypeOK, AnimLife, Hooked, Guarded, Gestured, Launch, robotVars, tearVars
  <2>2. Guarded'
    BY <1>0, <1>b, <1>c, <1>2 DEF AnimTypeOK, AnimLife, Hooked, Guarded, Gestured, Launch, robotVars, tearVars
  <2>3. Gestured'
    <3>1. /\ active /\ thread = 0 /\ event # 0
          /\ hook' = "off" /\ active' = active /\ thread' = event
      BY <1>0, <1>c, <1>2 DEF AnimLife, Hooked, Launch
    <3>2. /\ \A g \in Gens : pulse'[g] \in {"wait", "ask"} => g = event \/ pulse[g] \in {"wait", "ask"}
          /\ UNCHANGED <<tear, joins>> /\ hook = "launch"
      BY <1>0, <1>2 DEF AnimTypeOK, Launch, tearVars
    <3> QED BY <1>c, <3>1, <3>2 DEF Gestured
  <2>4. Posed'
    BY <1>0, <1>b, <1>c, <1>2 DEF AnimTypeOK, AnimLife, Hooked, Guarded, Gestured, Posed, Launch, robotVars, tearVars
  <2> QED BY <2>1, <2>2, <2>3, <2>4
<1>3. ASSUME NEW g \in Gens, PulseWakes(g) PROVE Goal
  <2>1. Hooked'
    BY <1>0, <1>b, <1>c, <1>3 DEF AnimTypeOK, AnimLife, Hooked, Guarded, Gestured, PulseWakes, robotVars, lifeVars, tearVars
  <2>2. Guarded'
    BY <1>0, <1>b, <1>c, <1>3 DEF AnimTypeOK, AnimLife, Hooked, Guarded, Gestured, PulseWakes, robotVars, lifeVars, tearVars
  <2>3. Gestured'
    <3>1. /\ \A h \in Gens : pulse'[h] \in {"wait", "ask"} => pulse[h] \in {"wait", "ask"}
          /\ UNCHANGED <<active, hook, thread, tear, joins>>
      BY <1>0, <1>3 DEF AnimTypeOK, PulseWakes, lifeVars, tearVars
    <3> QED BY <1>c, <3>1 DEF Gestured
  <2>4. Posed'
    BY <1>0, <1>b, <1>c, <1>3 DEF AnimTypeOK, AnimLife, Hooked, Guarded, Gestured, Posed, PulseWakes, robotVars, lifeVars, tearVars
  <2> QED BY <2>1, <2>2, <2>3, <2>4
<1>4. ASSUME NEW g \in Gens, NEW ok \in BOOLEAN, PulseAsks(g, ok) PROVE Goal
  <2>1. Hooked'
    BY <1>0, <1>b, <1>c, <1>4 DEF AnimTypeOK, AnimLife, Hooked, Guarded, Gestured, PulseAsks, Enqueue, Request, Execute, robotVars, lifeVars, tearVars
  <2>2. Guarded'
    BY <1>0, <1>b, <1>c, <1>4 DEF AnimTypeOK, AnimLife, Hooked, Guarded, Gestured, PulseAsks, Enqueue, Request, Execute, robotVars, lifeVars, tearVars
  <2>3. Gestured'
    BY <1>0, <1>b, <1>c, <1>4 DEF AnimTypeOK, AnimLife, Hooked, Guarded, Gestured, PulseAsks, Enqueue, Request, Execute, robotVars, lifeVars, tearVars
  <2>4. Posed'
    BY <1>0, <1>b, <1>c, <1>4 DEF AnimTypeOK, AnimLife, Hooked, Guarded, Gestured, Posed, PulseAsks, Enqueue, Request, Execute, robotVars, lifeVars, tearVars
  <2> QED BY <2>1, <2>2, <2>3, <2>4
<1>5. ASSUME NEW g \in Gens, WatchdogFires(g) PROVE Goal
  <2>1. Hooked'
    BY <1>0, <1>b, <1>c, <1>5 DEF AnimTypeOK, AnimLife, Hooked, Guarded, Gestured, WatchdogFires, robotVars, lifeVars, tearVars, pulseVars
  <2>2. Guarded'
    BY <1>0, <1>b, <1>c, <1>5 DEF AnimTypeOK, AnimLife, Hooked, Guarded, Gestured, WatchdogFires, robotVars, lifeVars, tearVars, pulseVars
  <2>3. Gestured'
    <3>1. UNCHANGED <<pulse, active, hook, thread, tear, joins>>
      BY <1>5 DEF WatchdogFires, lifeVars, tearVars, pulseVars
    <3> QED BY <1>c, <3>1 DEF Gestured
  <2>4. Posed'
    BY <1>0, <1>b, <1>c, <1>5 DEF AnimTypeOK, AnimLife, Hooked, Guarded, Gestured, Posed, WatchdogFires, robotVars, lifeVars, tearVars, pulseVars
  <2> QED BY <2>1, <2>2, <2>3, <2>4
<1>6. ASSUME NEW g \in Gens, OnWatchdog(g) PROVE Goal
  <2>1. CASE ~active /\ UNCHANGED <<lifeVars, tearVars>>
    <3>1. /\ UNCHANGED <<active, hook, thread, timer, tear, joins, gaveUp, pulse, face, arms>>
          /\ \A h \in Gens : dog'[h] = "armed" => dog[h] = "armed"
      BY <1>0, <1>6, <2>1 DEF AnimTypeOK, OnWatchdog, lifeVars, tearVars, robotVars, pulseVars
    <3> QED BY <1>c, <3>1 DEF Hooked, Guarded, Gestured, Posed
  <2>2. CASE active /\ Take(g)
    <3>0. g \in Tearers /\ tear[g] = "off"
      BY <1>0, <1>6 DEF AnimTypeOK, AnimLife, OnWatchdog
    <3>1. /\ active' = FALSE /\ thread' = 0 /\ timer' = 0
          /\ tear'[g] = "join" /\ joins'[g] = thread
          /\ \A f \in Tearers : f # g => tear'[f] = tear[f] /\ joins'[f] = joins[f]
      BY <1>0, <2>2, <3>0, TakeTyped
    <3>2. /\ UNCHANGED <<hook, gaveUp, pulse, face, arms>>
          /\ \A h \in Gens : dog'[h] = "armed" => dog[h] = "armed" /\ h # timer
      BY <1>0, <1>6, <2>2 DEF AnimTypeOK, OnWatchdog, lifeVars, tearVars, robotVars, pulseVars
    <3>3. hook = "off"
      BY <1>0, <1>b, <1>6, <2>2 DEF AnimTypeOK, AnimLife, OnWatchdog
    <3>4. Hooked'
      BY <3>1, <3>2, <3>3 DEF Hooked
    <3>5. Guarded'
      BY <1>c, <3>2 DEF Guarded
    <3>6. Gestured'
      BY <1>c, <3>0, <3>1, <3>2 DEF Gestured
    <3>7. Posed'
      BY <3>0, <3>1 DEF Posed
    <3> QED BY <3>4, <3>5, <3>6, <3>7
  <2> QED BY <1>6, <2>1, <2>2 DEF OnWatchdog
<1>7. ASSUME NEW e \in Tearers, Join(e) PROVE Goal
  <2>1. Hooked'
    BY <1>0, <1>b, <1>c, <1>7 DEF AnimTypeOK, AnimLife, Hooked, Guarded, Gestured, Join, robotVars, lifeVars, tearVars, pulseVars
  <2>2. Guarded'
    BY <1>0, <1>b, <1>c, <1>7 DEF AnimTypeOK, AnimLife, Hooked, Guarded, Gestured, Join, robotVars, lifeVars, tearVars, pulseVars
  <2>3. Gestured'
    <3>1. /\ UNCHANGED <<active, hook, thread, pulse, joins>> /\ e \in Tearers
          /\ \A f \in Tearers : f # e => tear'[f] = tear[f]
          /\ (joins[e] # 0 => pulse[joins[e]] = "over")
      <4>1. tear \in [Tearers -> {"off", "join", "neutral"}] /\ tear' = [tear EXCEPT ![e] = "neutral"]
        BY <1>0, <1>7 DEF AnimTypeOK, Join
      <4> QED BY <1>b, <1>7, <4>1 DEF Join, lifeVars, pulseVars
    <3>2. \A h \in Gens : h # 0
      OBVIOUS
    <3> QED BY <1>c, <3>1, <3>2 DEF Gestured
  <2>4. Posed'
    BY <1>0, <1>b, <1>c, <1>7 DEF AnimTypeOK, AnimLife, Hooked, Guarded, Gestured, Posed, Join, robotVars, lifeVars, tearVars, pulseVars
  <2> QED BY <2>1, <2>2, <2>3, <2>4
<1>8. ASSUME NEW e \in Tearers, NEW ok \in BOOLEAN, Neutral(e, ok) PROVE Goal
  <2>1. Hooked'
    BY <1>0, <1>b, <1>c, <1>8 DEF AnimTypeOK, AnimLife, Hooked, Guarded, Gestured, Neutral, Enqueue, Request, Execute, robotVars, lifeVars, pulseVars
  <2>2. Guarded'
    BY <1>0, <1>b, <1>c, <1>8 DEF AnimTypeOK, AnimLife, Hooked, Guarded, Gestured, Neutral, Enqueue, Request, Execute, robotVars, lifeVars, pulseVars
  <2>3. Gestured'
    BY <1>0, <1>b, <1>c, <1>8 DEF AnimTypeOK, AnimLife, Hooked, Guarded, Gestured, Neutral, Enqueue, Request, Execute, robotVars, lifeVars, pulseVars
  <2>4. Posed'
    BY <1>0, <1>b, <1>c, <1>8 DEF AnimTypeOK, AnimLife, Hooked, Guarded, Gestured, Posed, Neutral, Enqueue, Request, Execute, robotVars, lifeVars, pulseVars
  <2> QED BY <2>1, <2>2, <2>3, <2>4
<1>9. ASSUME NEW m \in late, ExecuteLate(m) PROVE Goal
  <2>1. Hooked'
    BY <1>0, <1>b, <1>c, <1>9 DEF AnimTypeOK, AnimLife, Hooked, Guarded, Gestured, ExecuteLate
  <2>2. Guarded'
    BY <1>0, <1>b, <1>c, <1>9 DEF AnimTypeOK, AnimLife, Hooked, Guarded, Gestured, ExecuteLate
  <2>3. Gestured'
    BY <1>0, <1>b, <1>c, <1>9 DEF AnimTypeOK, AnimLife, Hooked, Guarded, Gestured, ExecuteLate
  <2>4. Posed'
    BY <1>0, <1>b, <1>c, <1>9 DEF AnimTypeOK, AnimLife, Hooked, Guarded, Gestured, Posed, ExecuteLate
  <2> QED BY <2>1, <2>2, <2>3, <2>4
<1>10. CASE OnEnd /\ hook = "off" /\ tear[Ender] = "off"
  <2>1. CASE ~active /\ UNCHANGED <<lifeVars, tearVars>>
    <3>1. /\ UNCHANGED <<active, hook, thread, timer, tear, joins, gaveUp, pulse, face, arms>>
          /\ \A h \in Gens : dog'[h] = "armed" => dog[h] = "armed"
      BY <1>0, <1>10, <2>1 DEF AnimTypeOK, OnEnd, lifeVars, tearVars, robotVars, pulseVars
    <3> QED BY <1>c, <3>1 DEF Hooked, Guarded, Gestured, Posed
  <2>2. CASE active /\ Take(0)
    <3>0. 0 \in Tearers /\ tear[0] = "off"
      BY <1>0, <1>10 DEF AnimTypeOK, AnimLife, OnEnd
    <3>1. /\ active' = FALSE /\ thread' = 0 /\ timer' = 0
          /\ tear'[0] = "join" /\ joins'[0] = thread
          /\ \A f \in Tearers : f # 0 => tear'[f] = tear[f] /\ joins'[f] = joins[f]
      BY <1>0, <2>2, <3>0, TakeTyped
    <3>2. /\ UNCHANGED <<hook, gaveUp, pulse, face, arms>>
          /\ \A h \in Gens : dog'[h] = "armed" => dog[h] = "armed" /\ h # timer
      BY <1>0, <1>10, <2>2 DEF AnimTypeOK, OnEnd, lifeVars, tearVars, robotVars, pulseVars
    <3>3. hook = "off"
      BY <1>0, <1>b, <1>10, <2>2 DEF AnimTypeOK, AnimLife, OnEnd
    <3>4. Hooked'
      BY <3>1, <3>2, <3>3 DEF Hooked
    <3>5. Guarded'
      BY <1>c, <3>2 DEF Guarded
    <3>6. Gestured'
      BY <1>c, <3>0, <3>1, <3>2 DEF Gestured
    <3>7. Posed'
      BY <3>0, <3>1 DEF Posed
    <3> QED BY <3>4, <3>5, <3>6, <3>7
  <2> QED BY <1>10, <2>1, <2>2 DEF OnEnd
<1>11. CASE OnStart
  <2>1. Hooked'
    BY <1>0, <1>b, <1>c, <1>11 DEF AnimTypeOK, AnimLife, Hooked, Guarded, Gestured, OnStart, robotVars, lifeVars, tearVars, pulseVars
  <2>2. Guarded'
    BY <1>0, <1>b, <1>c, <1>11 DEF AnimTypeOK, AnimLife, Hooked, Guarded, Gestured, OnStart, robotVars, lifeVars, tearVars, pulseVars
  <2>3. Gestured'
    <3>1. UNCHANGED <<pulse, thread, tear, joins>> /\ (active => UNCHANGED <<active, hook>>)
      BY <1>11 DEF OnStart, lifeVars, tearVars, pulseVars
    <3> QED BY <1>c, <3>1 DEF Gestured
  <2>4. Posed'
    BY <1>0, <1>b, <1>c, <1>11 DEF AnimTypeOK, AnimLife, Hooked, Guarded, Gestured, Posed, OnStart, robotVars, lifeVars, tearVars, pulseVars
  <2> QED BY <2>1, <2>2, <2>3, <2>4
<1> QED
  BY <1>1, <1>2, <1>3, <1>4, <1>5, <1>6, <1>7, <1>8, <1>9, <1>10, <1>11
     DEF AnimNext, Starting, Pulsing, Tearing

-----------------------------------------------------------------------------
(* The sinks.  A step on the sink k leaves the other indices alone.        *)
SinkActs(k) == (Resolved(k) # 0 /\ Resolve(k)) \/ WriteFirst(k) \/ WriteAgain(k) \/ WriteFails(k)

LEMMA ResolveNames ==
  ASSUME NEW list \in Seq({"robot", "host"})
  PROVE  /\ ResolveIndex(list) \in Nat
         /\ (ResolveIndex(list) # 0 =>
               ResolveIndex(list) \in 1..Len(list) /\ list[ResolveIndex(list)] = "robot")
<1>1. CASE \E i \in 1..Len(list) : list[i] = "robot"
  BY <1>1 DEF ResolveIndex
<1>2. CASE ~\E i \in 1..Len(list) : list[i] = "robot"
  BY <1>2 DEF ResolveIndex
<1> QED BY <1>1, <1>2

LEMMA SinkStep ==
  ASSUME SinkTypeOK, NEW k \in Sinks, SinkActs(k) \/ Reregister
  PROVE  SinkTypeOK'
<1>1. snapshot \in Seq({"robot", "host"}) /\ world \in Seq({"robot", "host"})
  BY SinkAssumption DEF SinkTypeOK
<1>2. CASE Resolved(k) # 0 /\ Resolve(k)
  BY <1>1, <1>2, ResolveNames DEF Resolved, Resolve, SinkTypeOK
<1>3. CASE WriteFirst(k)
  <2>1. Resolved(k) \in 1..Len(snapshot) /\ heard' = snapshot[Resolved(k)]
    BY <1>3 DEF WriteFirst, Opens
  <2>2. heard' \in {"robot", "host"}
    BY <1>1, <2>1
  <2> QED BY <1>3, <2>1, <2>2 DEF WriteFirst, SinkTypeOK
<1>4. ASSUME NEW r \in BOOLEAN, Recover(k, r)
      PROVE  /\ snapshot' \in Worlds /\ snapshot' \in Seq({"robot", "host"}) /\ dead' \in BOOLEAN
             /\ index' \in [Sinks -> Nat]
  <2>1. snapshot' \in {world, snapshot} /\ dead' \in BOOLEAN
    BY <1>4 DEF Recover, SinkTypeOK
  <2>2. ResolveIndex(snapshot') \in Nat
    BY <1>1, <2>1, ResolveNames
  <2> QED BY <1>1, <1>4, <2>1, <2>2 DEF Recover, SinkTypeOK
<1>5. CASE WriteAgain(k)
  <2>1. heard' = snapshot'[index'[k]] /\ index'[k] \in 1..Len(snapshot') /\ world' = world
    BY <1>5 DEF WriteAgain, Opens
  <2>2. snapshot' \in Seq({"robot", "host"})
    BY <1>4, <1>5 DEF WriteAgain
  <2>3. heard' \in {"robot", "host"}
    BY <2>1, <2>2
  <2> QED BY <1>4, <1>5, <2>1, <2>3 DEF WriteAgain, SinkTypeOK
<1>6. CASE WriteFails(k)
  BY <1>4, <1>6 DEF WriteFails, SinkTypeOK
<1>7. CASE Reregister
  BY <1>7 DEF Reregister, SinkTypeOK
<1> QED BY <1>2, <1>3, <1>5, <1>6, <1>7 DEF SinkActs

(* What one sink alone can know: the others have no index, its own names   *)
(* the robot in the snapshot it was looked up in.  A second sink breaks    *)
(* this: a rescan for the one leaves the other's index in a new list.      *)
OnlyRobot(k) ==
  /\ \A j \in Sinks : j # k => index[j] = 0
  /\ (index[k] # 0 => index[k] \in 1..Len(snapshot) /\ snapshot[index[k]] = "robot")
  /\ heard # "host"

LEMMA OnlyRobotStep ==
  ASSUME SinkTypeOK, NEW k \in Sinks, OnlyRobot(k), SinkActs(k) \/ Reregister
  PROVE  OnlyRobot(k)'
<1>1. snapshot \in Seq({"robot", "host"}) /\ world \in Seq({"robot", "host"})
  BY SinkAssumption DEF SinkTypeOK
<1>2. Resolved(k) # 0 => Resolved(k) \in 1..Len(snapshot) /\ snapshot[Resolved(k)] = "robot"
  BY <1>1, ResolveNames DEF Resolved, OnlyRobot
<1>3. CASE Resolved(k) # 0 /\ Resolve(k)
  BY <1>2, <1>3 DEF Resolve, OnlyRobot, SinkTypeOK
<1>4. CASE WriteFirst(k)
  BY <1>2, <1>4 DEF WriteFirst, OnlyRobot, SinkTypeOK
<1>5. ASSUME NEW r \in BOOLEAN, Recover(k, r)
      PROVE  /\ \A j \in Sinks : j # k => index'[j] = 0
             /\ (index'[k] # 0 => index'[k] \in 1..Len(snapshot') /\ snapshot'[index'[k]] = "robot")
  <2>1. snapshot' \in {world, snapshot}
    BY <1>5 DEF Recover
  <2>2. index'[k] = ResolveIndex(snapshot') /\ \A j \in Sinks : j # k => index'[j] = 0
    BY <1>5 DEF Recover, OnlyRobot, SinkTypeOK
  <2> QED BY <1>1, <2>1, <2>2, ResolveNames
<1>6. CASE WriteAgain(k)
  BY <1>5, <1>6 DEF WriteAgain, OnlyRobot
<1>7. CASE WriteFails(k)
  BY <1>5, <1>7 DEF WriteFails, OnlyRobot
<1>8. CASE Reregister
  BY <1>8 DEF Reregister, OnlyRobot
<1> QED BY <1>3, <1>4, <1>6, <1>7, <1>8 DEF SinkActs

-----------------------------------------------------------------------------
(* The service.  Which endpoint a worker came to shows in where it is, and *)
(* the stream it awaits was started.                                       *)
ServiceTypes ==
  /\ kind \in [Workers -> Sinks]
  /\ at \in [Workers -> Places] /\ answer \in [Workers -> Answers]
  /\ gate \in Workers \cup {None} /\ armed \in Workers \cup {None} /\ asked \in BOOLEAN
  /\ halted \subseteq Workers /\ faulty \subseteq Workers
  /\ player \in [Workers -> {"off", "running", "completed", "stopped", "died"}]
  /\ taken \in Workers \cup {None}

Routed == \A w \in Workers :
  /\ (at[w] \in {"open", "retry", "await"} => kind[w] = "stream")
  /\ (at[w] \in {"play", "replay"} => kind[w] = "clip")
  /\ (at[w] \in {"begin", "await"} /\ kind[w] = "stream" => player[w] # "off")

LEMMA TypesStep ==
  ASSUME ServiceTypes, Routed, [Next]_vars
  PROVE  ServiceTypes'
<1> USE SpeakAssumption DEF ServiceTypes, Places, Answers, Lost, Written
<1>1. CASE UNCHANGED vars
  BY <1>1 DEF vars, serviceVars
<1>2. ASSUME NEW w \in Workers, Acquire(w) PROVE ServiceTypes'
  BY <1>2 DEF Acquire, Goes, Ends
<1>3. ASSUME NEW w \in Workers, ArmStop(w) PROVE ServiceTypes'
  BY <1>3 DEF ArmStop, Goes
<1>4. ASSUME NEW w \in Workers, Prepare(w) PROVE ServiceTypes'
  BY <1>4 DEF Prepare, Goes, Ends
<1>5. ASSUME NEW w \in Workers, Begin(w) PROVE ServiceTypes'
  BY <1>5 DEF Begin, Goes
<1>6. ASSUME NEW w \in Workers, OpenStream(w) PROVE ServiceTypes'
  BY <1>6 DEF OpenStream, Goes, Ends
<1>7. ASSUME NEW w \in Workers, AwaitStream(w) PROVE ServiceTypes'
  <2>1. player[w] \in {"off", "running", "completed", "stopped", "died"} /\ player[w] # "off"
    BY <1>7 DEF AwaitStream, Routed
  <2>2. answer' \in [Workers -> Answers]
    BY <1>7, <2>1 DEF AwaitStream, Goes, Ends
  <2> QED BY <1>7, <2>2 DEF AwaitStream, Goes, Ends
<1>8. ASSUME NEW w \in Workers, PlayClip(w) PROVE ServiceTypes'
  BY <1>8 DEF PlayClip, Goes, Ends
<1>9. ASSUME NEW w \in Workers, Release(w) PROVE ServiceTypes'
  <2>1. CASE at[w] = "clear"
    BY <1>9, <2>1 DEF Release, Goes
  <2>2. CASE at[w] = "unlock"
    <3>1. /\ Forget(w) /\ gate' = None /\ UNCHANGED <<armed, asked, kind, taken>>
      BY <1>9, <2>2 DEF Release
    <3>2. at' \in [Workers -> Places] /\ answer' \in [Workers -> Answers]
      <4>1. at' = [at EXCEPT ![w] = "done"] /\ answer' = [answer EXCEPT ![w] = "none"]
        BY <3>1 DEF Forget, Ends, Goes
      <4>2. "done" \in Places /\ "none" \in Answers
        OBVIOUS
      <4>3. at \in [Workers -> Places] /\ answer \in [Workers -> Answers]
        OBVIOUS
      <4> HIDE DEF Places, Answers, ServiceTypes
      <4> QED BY <4>1, <4>2, <4>3
    <3>3. /\ player' \in [Workers -> {"off", "running", "completed", "stopped", "died"}]
          /\ halted' \subseteq Workers /\ faulty' \subseteq Workers
      BY <3>1 DEF Forget
    <3> QED BY <3>1, <3>2, <3>3
  <2> QED BY <1>9, <2>1, <2>2 DEF Release
<1>10. ASSUME NEW w \in Workers, DeviceEnds(w) PROVE ServiceTypes'
  BY <1>10 DEF DeviceEnds
<1>11. ASSUME NEW w \in Workers, ProducerFails(w) PROVE ServiceTypes'
  BY <1>11 DEF ProducerFails, Halt
<1>12. CASE TakeStop
  BY <1>12 DEF TakeStop
<1>13. CASE CallStop
  BY <1>13 DEF CallStop, Halt
<1>14. CASE Animate
  BY <1>14 DEF Animate, serviceVars
<1>15. CASE DevicesChange
  BY <1>15 DEF DevicesChange, serviceVars
<1> QED
  BY <1>1, <1>2, <1>3, <1>4, <1>5, <1>6, <1>7, <1>8, <1>9, <1>10, <1>11, <1>12, <1>13, <1>14, <1>15
     DEF Next, Work

LEMMA RoutedStep ==
  ASSUME ServiceTypes, Routed, [Next]_vars
  PROVE  Routed' /\ kind' = kind
<1> USE SpeakAssumption DEF ServiceTypes, Routed, Places
<1>1. CASE UNCHANGED vars
  BY <1>1 DEF vars, serviceVars
<1>2. ASSUME NEW w \in Workers, Acquire(w) PROVE Routed' /\ kind' = kind
  BY <1>2 DEF Acquire, Goes, Ends
<1>3. ASSUME NEW w \in Workers, ArmStop(w) PROVE Routed' /\ kind' = kind
  BY <1>3 DEF ArmStop, Goes
<1>4. ASSUME NEW w \in Workers, Prepare(w) PROVE Routed' /\ kind' = kind
  BY <1>4 DEF Prepare, Goes, Ends
<1>5. ASSUME NEW w \in Workers, Begin(w) PROVE Routed' /\ kind' = kind
  BY <1>5 DEF Begin, Goes
<1>6. ASSUME NEW w \in Workers, OpenStream(w) PROVE Routed' /\ kind' = kind
  BY <1>6 DEF OpenStream, Goes, Ends
<1>7. ASSUME NEW w \in Workers, AwaitStream(w) PROVE Routed' /\ kind' = kind
  BY <1>7 DEF AwaitStream, Goes, Ends
<1>8. ASSUME NEW w \in Workers, PlayClip(w) PROVE Routed' /\ kind' = kind
  BY <1>8 DEF PlayClip, Goes, Ends
<1>9. ASSUME NEW w \in Workers, Release(w) PROVE Routed' /\ kind' = kind
  BY <1>9 DEF Release, Forget, Goes, Ends
<1>10. ASSUME NEW w \in Workers, DeviceEnds(w) PROVE Routed' /\ kind' = kind
  BY <1>10 DEF DeviceEnds
<1>11. ASSUME NEW w \in Workers, ProducerFails(w) PROVE Routed' /\ kind' = kind
  BY <1>11 DEF ProducerFails, Halt
<1>12. CASE TakeStop
  BY <1>12 DEF TakeStop
<1>13. CASE CallStop
  BY <1>13 DEF CallStop, Halt
<1>14. CASE Animate
  BY <1>14 DEF Animate, serviceVars
<1>15. CASE DevicesChange
  BY <1>15 DEF DevicesChange, serviceVars
<1> QED
  BY <1>1, <1>2, <1>3, <1>4, <1>5, <1>6, <1>7, <1>8, <1>9, <1>10, <1>11, <1>12, <1>13, <1>14, <1>15
     DEF Next, Work

(* What a step of the service is to the sinks, and to the animation.       *)
LEMMA SinksAlone ==
  ASSUME Routed, ServiceTypes, [Next]_vars
  PROVE  UNCHANGED sinkVars \/ Reregister \/ \E v \in Workers : SinkActs(kind[v])
<1> USE SpeakAssumption DEF SinkActs, Routed, ServiceTypes
<1>1. CASE UNCHANGED vars
  BY <1>1 DEF vars, serviceVars
<1>2. ASSUME NEW w \in Workers, Acquire(w) PROVE UNCHANGED sinkVars \/ Reregister \/ \E v \in Workers : SinkActs(kind[v])
  BY <1>2 DEF Acquire, Goes, Ends
<1>3. ASSUME NEW w \in Workers, ArmStop(w) PROVE UNCHANGED sinkVars \/ Reregister \/ \E v \in Workers : SinkActs(kind[v])
  BY <1>3 DEF ArmStop, Goes
<1>4. ASSUME NEW w \in Workers, Prepare(w) PROVE UNCHANGED sinkVars \/ Reregister \/ \E v \in Workers : SinkActs(kind[v])
  BY <1>4 DEF Prepare, Goes, Ends
<1>5. ASSUME NEW w \in Workers, Begin(w) PROVE UNCHANGED sinkVars \/ Reregister \/ \E v \in Workers : SinkActs(kind[v])
  BY <1>5 DEF Begin, Goes
<1>6. ASSUME NEW w \in Workers, OpenStream(w) PROVE UNCHANGED sinkVars \/ Reregister \/ \E v \in Workers : SinkActs(kind[v])
  BY <1>6 DEF OpenStream, Goes, Ends
<1>7. ASSUME NEW w \in Workers, AwaitStream(w) PROVE UNCHANGED sinkVars \/ Reregister \/ \E v \in Workers : SinkActs(kind[v])
  BY <1>7 DEF AwaitStream, Goes, Ends
<1>8. ASSUME NEW w \in Workers, PlayClip(w) PROVE UNCHANGED sinkVars \/ Reregister \/ \E v \in Workers : SinkActs(kind[v])
  BY <1>8 DEF PlayClip, Goes, Ends
<1>9. ASSUME NEW w \in Workers, Release(w) PROVE UNCHANGED sinkVars \/ Reregister \/ \E v \in Workers : SinkActs(kind[v])
  BY <1>9 DEF Release, Forget, Goes, Ends
<1>10. ASSUME NEW w \in Workers, DeviceEnds(w) PROVE UNCHANGED sinkVars \/ Reregister \/ \E v \in Workers : SinkActs(kind[v])
  BY <1>10 DEF DeviceEnds
<1>11. ASSUME NEW w \in Workers, ProducerFails(w) PROVE UNCHANGED sinkVars \/ Reregister \/ \E v \in Workers : SinkActs(kind[v])
  BY <1>11 DEF ProducerFails, Halt
<1>12. CASE TakeStop
  BY <1>12 DEF TakeStop
<1>13. CASE CallStop
  BY <1>13 DEF CallStop, Halt
<1>14. CASE Animate
  BY <1>14 DEF Animate, serviceVars
<1>15. CASE DevicesChange
  BY <1>15 DEF DevicesChange, serviceVars
<1> QED
  BY <1>1, <1>2, <1>3, <1>4, <1>5, <1>6, <1>7, <1>8, <1>9, <1>10, <1>11, <1>12, <1>13, <1>14, <1>15
     DEF Next, Work

Before == {"gate", "arm", "resolve", "open", "retry", "begin"}
During == {"await", "play", "replay"}

Starts(w) == at[w] = "begin" /\ OnStart /\ \E p \in During : at' = [at EXCEPT ![w] = p]
Finishes(w) == at[w] \in During /\ hook = "off" /\ OnEnd /\ at' = [at EXCEPT ![w] = "clear"]
Idles ==
  /\ UNCHANGED animVars
  /\ \A w \in Workers :
       /\ (at[w] \in During => at'[w] \in During)
       /\ (at[w] = "clear" /\ tear[Ender] # "off" => at'[w] = "clear")
       /\ (at[w] \notin Before => at'[w] \notin Before)

LEMMA AnimationAlone ==
  ASSUME ServiceTypes, [Next]_vars
  PROVE  Idles \/ (AnimNext /\ at' = at) \/ \E v \in Workers : Starts(v) \/ Finishes(v)
<1> USE SpeakAssumption DEF Idles, Starts, Finishes, Before, During, ServiceTypes, Places
<1>1. CASE UNCHANGED vars
  BY <1>1 DEF vars, serviceVars
<1>2. ASSUME NEW w \in Workers, Acquire(w) PROVE Idles \/ (AnimNext /\ at' = at) \/ \E v \in Workers : Starts(v) \/ Finishes(v)
  BY <1>2 DEF Acquire, Goes, Ends
<1>3. ASSUME NEW w \in Workers, ArmStop(w) PROVE Idles \/ (AnimNext /\ at' = at) \/ \E v \in Workers : Starts(v) \/ Finishes(v)
  BY <1>3 DEF ArmStop, Goes
<1>4. ASSUME NEW w \in Workers, Prepare(w) PROVE Idles \/ (AnimNext /\ at' = at) \/ \E v \in Workers : Starts(v) \/ Finishes(v)
  BY <1>4 DEF Prepare, Goes, Ends
<1>5. ASSUME NEW w \in Workers, Begin(w) PROVE Idles \/ (AnimNext /\ at' = at) \/ \E v \in Workers : Starts(v) \/ Finishes(v)
  BY <1>5 DEF Begin, Goes
<1>6. ASSUME NEW w \in Workers, OpenStream(w) PROVE Idles \/ (AnimNext /\ at' = at) \/ \E v \in Workers : Starts(v) \/ Finishes(v)
  BY <1>6 DEF OpenStream, Goes, Ends
<1>7. ASSUME NEW w \in Workers, AwaitStream(w) PROVE Idles \/ (AnimNext /\ at' = at) \/ \E v \in Workers : Starts(v) \/ Finishes(v)
  BY <1>7 DEF AwaitStream, Goes, Ends
<1>8. ASSUME NEW w \in Workers, PlayClip(w) PROVE Idles \/ (AnimNext /\ at' = at) \/ \E v \in Workers : Starts(v) \/ Finishes(v)
  BY <1>8 DEF PlayClip, Goes, Ends
<1>9. ASSUME NEW w \in Workers, Release(w) PROVE Idles \/ (AnimNext /\ at' = at) \/ \E v \in Workers : Starts(v) \/ Finishes(v)
  BY <1>9 DEF Release, Forget, Goes, Ends
<1>10. ASSUME NEW w \in Workers, DeviceEnds(w) PROVE Idles \/ (AnimNext /\ at' = at) \/ \E v \in Workers : Starts(v) \/ Finishes(v)
  BY <1>10 DEF DeviceEnds
<1>11. ASSUME NEW w \in Workers, ProducerFails(w) PROVE Idles \/ (AnimNext /\ at' = at) \/ \E v \in Workers : Starts(v) \/ Finishes(v)
  BY <1>11 DEF ProducerFails, Halt
<1>12. CASE TakeStop
  BY <1>12 DEF TakeStop
<1>13. CASE CallStop
  BY <1>13 DEF CallStop, Halt
<1>14. CASE Animate
  BY <1>14 DEF Animate, serviceVars
<1>15. CASE DevicesChange
  BY <1>15 DEF DevicesChange, serviceVars
<1> QED
  BY <1>1, <1>2, <1>3, <1>4, <1>5, <1>6, <1>7, <1>8, <1>9, <1>10, <1>11, <1>12, <1>13, <1>14, <1>15
     DEF Next, Work

(* An active animation has a playback that plays, and the teardown that    *)
(* ends it a worker that waits for it; numbers do not run out, as every    *)
(* playback takes one.                                                     *)
Past == {w \in Workers : at[w] \notin Before}
Counted == event <= Cardinality(Past)
Served == /\ (~doubt /\ active => \E w \in Workers : at[w] \in During)
          /\ (tear[Ender] # "off" => \E w \in Workers : at[w] = "clear")

AnimInv == ServiceTypes /\ HandleInv /\ LifeInv /\ Sure /\ Counted /\ Served

LEMMA PastGrows ==
  ASSUME NEW S, NEW T, S \subseteq T, IsFiniteSet(T)
  PROVE  Cardinality(S) \in Nat /\ Cardinality(T) \in Nat /\ Cardinality(S) <= Cardinality(T)
  BY FS_Subset, FS_CardinalityType

(* Doubt stays, no step of the animation makes it active or has on_end     *)
(* tear down, and only on_start takes a number.                            *)
LEMMA AnimationKeeps ==
  ASSUME LifeInv, AnimNext
  PROVE  /\ (~doubt' => ~doubt) /\ (active' => active) /\ event' = event
         /\ (tear'[Ender] # "off" => tear[Ender] # "off")
<1> USE DEF Tearers, Gens, Ender
<1>1. tear \in [Tearers -> {"off", "join", "neutral"}] /\ 0 \in Tearers /\ active \in BOOLEAN
  BY AnimationAssumption DEF LifeInv, AnimTypeOK
<1>2. ASSUME NEW g \in Gens, PulseWakes(g) \/ WatchdogFires(g) \/ \E ok \in BOOLEAN : PulseAsks(g, ok)
      PROVE  (~doubt' => ~doubt) /\ UNCHANGED <<active, event, tear>>
  BY <1>2 DEF PulseWakes, WatchdogFires, PulseAsks, Enqueue, Request, lifeVars, tearVars
<1>3. ASSUME NEW g \in Gens, OnWatchdog(g)
      PROVE  (~doubt' => ~doubt) /\ (active' => active) /\ event' = event /\ tear'[0] = tear[0]
  <2>1. tear' = tear \/ tear' = [tear EXCEPT ![g] = "join"]
    BY <1>3 DEF OnWatchdog, Take, tearVars
  <2>2. g # 0
    BY AnimationAssumption
  <2>3. tear'[0] = tear[0]
    BY <1>1, <2>1, <2>2
  <2> QED BY <1>1, <1>3, <2>3 DEF OnWatchdog, Take, lifeVars
<1>4. ASSUME NEW e \in Tearers, Tearing(e)
      PROVE  (~doubt' => ~doubt) /\ UNCHANGED <<active, event>> /\ (tear'[0] # "off" => tear[0] # "off")
  <2>1. UNCHANGED <<active, event>>
    BY <1>4 DEF Tearing, Join, Neutral, lifeVars
  <2>2. ~doubt' => ~doubt
    BY <1>4 DEF Tearing, Join, Neutral, Enqueue, Request
  <2>3. tear[e] # "off" /\ (tear' = tear \/ \E p \in {"neutral", "off"} : tear' = [tear EXCEPT ![e] = p])
    BY <1>4 DEF Tearing, Join, Neutral
  <2>4. tear'[0] # "off" => tear[0] # "off"
    BY <1>1, <2>3
  <2> QED BY <2>1, <2>2, <2>4
<1>5. ASSUME Starting
      PROVE  (~doubt' => ~doubt) /\ (active' => active) /\ UNCHANGED <<event, tear>>
  BY <1>1, <1>5 DEF Starting, Talk, Launch, Enqueue, Request, tearVars
<1>6. ASSUME NEW m \in late, ExecuteLate(m)
      PROVE  UNCHANGED <<doubt, active, event, tear>>
  BY <1>6 DEF ExecuteLate, lifeVars, tearVars
<1> QED BY <1>2, <1>3, <1>4, <1>5, <1>6 DEF AnimNext, Pulsing

LEMMA AnimInvStep == AnimInv /\ Routed /\ [Next]_vars => AnimInv'
<1> SUFFICES ASSUME AnimInv, Routed, [Next]_vars PROVE AnimInv'
  OBVIOUS
<1>1. ServiceTypes /\ HandleInv /\ LifeInv /\ Sure /\ Counted /\ Served
  BY DEF AnimInv
<1>2. ServiceTypes' /\ HandleInv'
  BY <1>1, TypesStep, HandleStep
<1>3. /\ at \in [Workers -> Places] /\ event \in Nat /\ IsFiniteSet(Workers)
      /\ Cardinality(Workers) \in Nat /\ Cardinality(Workers) <= Plays
      /\ Past \subseteq Workers /\ IsFiniteSet(Past) /\ Cardinality(Past) \in Nat
  BY <1>1, SpeakAssumption, FS_Subset, FS_CardinalityType DEF ServiceTypes, LifeInv, AnimTypeOK, Tearers, Past
<1>4. \A w, v \in Workers : at[w] \in {"begin", "clear"} \cup During /\ at[v] \in {"begin", "clear"} \cup During => w = v
  BY <1>1 DEF HandleInv, Holding, Places, During
<1>5. CASE Idles
  <2>1. LifeInv' /\ Sure'
    BY <1>1, <1>5 DEF Idles, animVars, lifeVars, pulseVars, tearVars, robotVars, LifeInv, AnimTypeOK, AnimLife,
       Sure, Hooked, Guarded, Gestured, Posed
  <2>2. UNCHANGED <<doubt, active, tear, event>>
    BY <1>5 DEF Idles, animVars, lifeVars, tearVars
  <2>3. Past \subseteq Past' /\ Past' \subseteq Workers
    BY <1>5 DEF Idles, Past
  <2>4. Cardinality(Past) <= Cardinality(Past') /\ Cardinality(Past') \in Nat
    BY <1>3, <2>3, PastGrows, FS_Subset
  <2>5. Counted'
    BY <1>1, <1>3, <2>2, <2>4 DEF Counted
  <2>6. Served'
    BY <1>1, <1>5, <2>2 DEF Served, Idles
  <2> QED BY <1>2, <2>1, <2>5, <2>6 DEF AnimInv
<1>6. CASE AnimNext /\ at' = at
  <2>1. LifeInv' /\ Sure'
    BY <1>1, <1>6, LifeStep, SureStep
  <2>2. Past' = Past
    BY <1>6 DEF Past
  <2>3. Counted' /\ Served'
    BY <1>1, <1>6, <2>2, AnimationKeeps DEF Counted, Served
  <2> QED BY <1>2, <2>1, <2>3 DEF AnimInv
<1>7. ASSUME NEW w \in Workers, Starts(w) PROVE AnimInv'
  <2>1. /\ at[w] = "begin" /\ at'[w] \in During /\ \A v \in Workers : v # w => at'[v] = at[v]
    BY <1>3, <1>7 DEF Starts
  <2>2. w \notin Past /\ Past' = Past \cup {w}
    BY <2>1 DEF Past, Before, During
  <2>3. Cardinality(Past') = Cardinality(Past) + 1 /\ Past' \subseteq Workers
    BY <1>3, <2>2, FS_AddElement
  <2>4. Cardinality(Past') <= Cardinality(Workers)
    BY <1>3, <2>3, FS_Subset
  <2>5. event < Plays
    BY <1>1, <1>3, <2>3, <2>4, AnimationAssumption DEF Counted
  <2>6. LifeInv' /\ Sure'
    BY <1>1, <1>7, <2>5, LifeStep, SureStep DEF Starts
  <2>7. event' \in {event, event + 1} /\ tear' = tear
    BY <1>7 DEF Starts, OnStart, lifeVars, tearVars
  <2>8. Counted'
    BY <1>1, <1>3, <2>3, <2>7 DEF Counted
  <2>9. Served'
    BY <1>1, <2>1, <2>7 DEF Served
  <2> QED BY <1>2, <2>6, <2>8, <2>9 DEF AnimInv
<1>8. ASSUME NEW w \in Workers, Finishes(w) PROVE AnimInv'
  <2>1. /\ at[w] \in During /\ at'[w] = "clear" /\ \A v \in Workers : v # w => at'[v] = at[v]
    BY <1>3, <1>8 DEF Finishes
  <2>2. Past' = Past
    BY <2>1 DEF Past, Before, During
  <2>3. tear[Ender] = "off"
    BY <1>1, <1>4, <2>1 DEF Served, During
  <2>4. LifeInv' /\ Sure'
    BY <1>1, <1>8, <2>3, LifeStep, SureStep DEF Finishes
  <2>5. event' = event /\ active' = FALSE
    BY <1>1, <1>8 DEF Finishes, OnEnd, Take, lifeVars, LifeInv, AnimTypeOK
  <2>6. Counted' /\ Served'
    BY <1>1, <2>1, <2>2, <2>5 DEF Counted, Served
  <2> QED BY <1>2, <2>4, <2>6 DEF AnimInv
<1> QED BY <1>1, <1>5, <1>6, <1>7, <1>8, AnimationAlone

-----------------------------------------------------------------------------
(* A service used through one endpoint has one sink to keep.               *)
Alone == (\A w, v \in Workers : kind[w] = kind[v]) =>
           heard # "host" /\ \A w \in Workers : OnlyRobot(kind[w])

SpeakInv == AnimInv /\ Routed /\ SinkTypeOK /\ Alone

LEMMA SpeakStep == SpeakInv /\ [Next]_vars => SpeakInv'
<1> SUFFICES ASSUME SpeakInv, [Next]_vars PROVE SpeakInv'
  OBVIOUS
<1>1. AnimInv /\ Routed /\ SinkTypeOK /\ Alone /\ ServiceTypes
  BY DEF SpeakInv, AnimInv
<1>2. AnimInv' /\ Routed' /\ kind' = kind
  BY <1>1, AnimInvStep, RoutedStep
<1>3. kind \in [Workers -> Sinks]
  BY <1>1 DEF ServiceTypes
<1>4. CASE UNCHANGED sinkVars
  BY <1>1, <1>2, <1>4 DEF SpeakInv, sinkVars, SinkTypeOK, Alone, OnlyRobot
<1>5. CASE Reregister
  <2>1. SinkTypeOK'
    BY <1>1, <1>5, SinkAssumption DEF Reregister, SinkTypeOK
  <2>2. Alone'
    BY <1>1, <1>2, <1>5 DEF Reregister, Alone, OnlyRobot
  <2> QED BY <1>2, <2>1, <2>2 DEF SpeakInv
<1>6. ASSUME NEW v \in Workers, SinkActs(kind[v]) PROVE SpeakInv'
  <2>1. kind[v] \in Sinks
    BY <1>3
  <2>2. SinkTypeOK'
    BY <1>1, <1>6, <2>1, SinkStep
  <2>3. ASSUME \A w, u \in Workers : kind[w] = kind[u]
        PROVE  heard' # "host" /\ \A w \in Workers : OnlyRobot(kind[w])'
    <3>1. OnlyRobot(kind[v])
      BY <1>1, <2>3 DEF Alone
    <3> DEFINE k == kind[v]
    <3>2. k \in Sinks /\ OnlyRobot(k) /\ SinkActs(k)
      BY <1>6, <2>1, <3>1
    <3>3. \A w \in Workers : kind'[w] = k
      BY <1>2, <2>3
    <3> HIDE DEF k
    <3>4. /\ \A j \in Sinks : j # k => index'[j] = 0
          /\ (index'[k] # 0 => index'[k] \in 1..Len(snapshot') /\ snapshot'[index'[k]] = "robot")
          /\ heard' # "host"
      BY <1>1, <3>2, OnlyRobotStep DEF OnlyRobot
    <3> QED BY <3>3, <3>4 DEF OnlyRobot
  <2>4. Alone'
    BY <1>2, <2>3 DEF Alone
  <2> QED BY <1>2, <2>2, <2>4 DEF SpeakInv
<1> QED BY <1>1, <1>4, <1>5, <1>6, SinksAlone

LEMMA SpeakInit == Init => SpeakInv
<1> SUFFICES ASSUME Init PROVE SpeakInv
  OBVIOUS
<1> USE SpeakAssumption, AnimationAssumption DEF Init, SinkInit, AnimInit
<1>1. SinkTypeOK /\ Alone
  BY DEF SinkTypeOK, Alone, OnlyRobot
<1>2. ServiceTypes /\ Routed
  BY DEF ServiceTypes, Routed, Places, Answers
<1>3. HandleInv
  BY DEF HandleInv, Holding, Playing, Places
<1>4. AnimTypeOK
  <2>1. 0 \in Tearers /\ 0 \in 0..Attempts
    BY DEF Tearers
  <2> QED BY <2>1 DEF AnimTypeOK
<1>5. AnimLife
  BY DEF AnimLife, Gens, Tearers
<1>6. Sure
  BY DEF Sure, Hooked, Guarded, Gestured, Posed, Gens
<1>7. Counted
  <2>1. Past = {}
    BY DEF Past, Before
  <2> QED BY <2>1, FS_EmptySet DEF Counted
<1>8. Served
  BY DEF Served, Ender, Tearers
<1> QED BY <1>1, <1>2, <1>3, <1>4, <1>5, <1>6, <1>7, <1>8 DEF SpeakInv, AnimInv, LifeInv

(* The service, its sinks and its animation keep their types, the counter  *)
(* of stop events included: a playback starts one animation at most.       *)
THEOREM TypeCorrect == Spec => []TypeOK
<1>1. SpeakInv => TypeOK
  BY DEF SpeakInv, AnimInv, LifeInv, ServiceTypes, TypeOK, Places
<1> QED BY <1>1, SpeakInit, SpeakStep, PTL DEF Spec

(* After an animation that met no accident the daemon was told neutral     *)
(* last (_teardown, on_end and on_watchdog of speak/animate.py).           *)
THEOREM NeutralLast == Spec => []NeutralAfter
<1>1. SpeakInv => NeutralAfter
  BY DEF SpeakInv, AnimInv, LifeInv, AnimTypeOK, Sure, Posed, NeutralAfter
<1> QED BY <1>1, SpeakInit, SpeakStep, PTL DEF Spec

(* Behind a free gate no playback is active, no watchdog armed and no      *)
(* gesture thread left that nobody joins.                                  *)
THEOREM FreeIsQuiet == Spec => []QuietWhenFree
<1>1. SpeakInv => QuietWhenFree
  <2> SUFFICES ASSUME SpeakInv, ~doubt, gate = None
               PROVE  /\ ~active /\ \A g \in Gens : dog[g] # "armed"
                      /\ \A g \in Gens : pulse[g] \in {"none", "over"} \/ \E e \in Gens : joins[e] = g
    BY DEF QuietWhenFree
  <2>1. \A w \in Workers : at[w] \notin During \cup {"clear"}
    BY SpeakAssumption DEF SpeakInv, AnimInv, HandleInv, Holding, Places, During
  <2>2. ~active /\ tear[Ender] = "off"
    BY <2>1 DEF SpeakInv, AnimInv, Served
  <2>3. Guarded /\ Gestured
    BY DEF SpeakInv, AnimInv, Sure
  <2>4. \A g \in Gens : dog[g] # "armed"
    BY <2>2, <2>3 DEF Guarded
  <2>5. \A e \in Tearers : e = Ender \/ e \in Gens
    BY DEF Tearers, Gens, Ender
  <2>6. \A g \in Gens : pulse[g] \in {"wait", "ask"} => \E e \in Gens : joins[e] = g
    BY <2>2, <2>3, <2>5 DEF Gestured
  <2>7. \A g \in Gens : pulse[g] \in {"none", "wait", "ask", "over"}
    BY DEF SpeakInv, AnimInv, LifeInv, AnimTypeOK
  <2> QED BY <2>2, <2>4, <2>6, <2>7
<1> QED BY <1>1, SpeakInit, SpeakStep, PTL DEF Spec

(* A service used through one endpoint plays to the named device and to    *)
(* no other (resolve, write and recover of speak/sink.py).                 *)
THEOREM RobotOnly == Spec => []NamedDeviceOnly
<1>1. SpeakInv => NamedDeviceOnly
  BY DEF SpeakInv, Alone, NamedDeviceOnly
<1> QED BY <1>1, SpeakInit, SpeakStep, PTL DEF Spec
=============================================================================
