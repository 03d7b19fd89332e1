---- MODULE ToolsProofs ----
(* Proofs about the parts around the engine, one section each: the envelope of
   src/carle/frame.py, the observe loop, the command table and its evidence,
   the way of a body to the audio that is played, and the tools together. *)
EXTENDS Tools, ConnectionProofs, TLAPS, SequenceTheorems, FiniteSetTheorems

---------------------------------------------------------------------------
(* The envelope, for every byte size, family and payload.                    *)

\* The bytes of a frame, one by one.
LEMMA Layout ==
  ASSUME NEW family, NEW payload \in Seq(Byte), NEW n \in Nat, n = Len(payload)
  PROVE  /\ Len(Build(family, payload)) = n + 4
         /\ Build(family, payload)[1] = family
         /\ Build(family, payload)[2] = n
         /\ \A i \in 1..n: Build(family, payload)[i + 2] = payload[i]
         /\ Build(family, payload)[n + 3] = Checksum(payload)
         /\ Build(family, payload)[n + 4] = Terminator
<1> DEFINE S == {family, n, Checksum(payload), Terminator} \cup Byte
           head == <<family, n>>
           tail == <<Checksum(payload), Terminator>>
           middle == head \o payload
<1>1. payload \in Seq(S) /\ head \in Seq(S) /\ tail \in Seq(S)
  <2>1. \A i \in 1..Len(payload): payload[i] \in S
    <3> HIDE DEF tail, head
    <3> QED OBVIOUS
  <2>2. payload \in Seq(S)
    <3> HIDE DEF S
    <3> QED BY <2>1
  <2> QED BY <2>2
<1>2. Build(family, payload) = middle \o tail
  BY DEF Build
<1>3. /\ middle \in Seq(S) /\ Len(middle) = n + 2
      /\ middle[1] = family /\ middle[2] = n /\ \A i \in 1..n: middle[i + 2] = payload[i]
  <2> HIDE DEF S
  <2> QED BY <1>1
<1>4. /\ Len(middle \o tail) = n + 4
      /\ \A i \in 1..(n + 2): (middle \o tail)[i] = middle[i]
      /\ (middle \o tail)[n + 3] = tail[1] /\ (middle \o tail)[n + 4] = tail[2]
  <2> HIDE DEF middle, head, S
  <2> QED BY <1>1, <1>3
<1> HIDE DEF middle
<1> QED BY <1>2, <1>3, <1>4

\* parse accepts every frame that build makes and gives back what it was made of.
THEOREM RoundTrip ==
  ASSUME NEW family, NEW payload \in Seq(Byte)
  PROVE  /\ Parses(Build(family, payload))
         /\ Parse(Build(family, payload)) = [family |-> family, payload |-> payload]
<1> DEFINE n == Len(payload)
           frame == Build(family, payload)
<1>1. n \in Nat
  OBVIOUS
<1> HIDE DEF n
<1>2. /\ Len(frame) = n + 4 /\ frame[1] = family /\ frame[2] = n
      /\ \A i \in 1..n: frame[i + 2] = payload[i]
      /\ frame[n + 3] = Checksum(payload) /\ frame[n + 4] = Terminator
  <2>1. n = Len(payload)
    BY DEF n
  <2> QED BY <1>1, <2>1, Layout
<1>3. SubSeq(frame, 3, frame[2] + 2) = payload
  <2> HIDE DEF frame
  <2>1. SubSeq(frame, 3, n + 2) = [i \in 1..n |-> frame[i + 2]]
    BY <1>1
  <2>2. payload = [i \in 1..n |-> payload[i]]
    BY DEF n
  <2> QED BY <1>1, <1>2, <2>1, <2>2
<1> HIDE DEF frame
<1>4. Parses(frame)
  <2>1. Len(frame) >= 4 /\ Len(frame) = frame[2] + 4
    BY <1>1, <1>2
  <2>2. frame[frame[2] + 3] = Checksum(SubSeq(frame, 3, frame[2] + 2))
    <3>1. frame[frame[2] + 3] = Checksum(payload)
      BY <1>2
    <3> QED BY <1>3, <3>1
  <2>3. frame[frame[2] + 4] = Terminator
    BY <1>2
  <2> QED BY <2>1, <2>2, <2>3 DEF Parses
<1>5. Parse(frame) = [family |-> family, payload |-> payload]
  BY <1>2, <1>3 DEF Parse
<1> QED BY <1>4, <1>5 DEF frame

\* So no two commands have one frame: a log's frame (evidence.py) names the
\* family and the bytes that were sent.
THEOREM BuildInjective ==
  ASSUME NEW f, NEW p \in Seq(Byte), NEW g, NEW q \in Seq(Byte), Build(f, p) = Build(g, q)
  PROVE  f = g /\ p = q
<1>1. Parse(Build(f, p)) = [family |-> f, payload |-> p]
  BY RoundTrip
<1>2. Parse(Build(g, q)) = [family |-> g, payload |-> q]
  BY RoundTrip
<1>3. [family |-> f, payload |-> p] = [family |-> g, payload |-> q]
  BY <1>1, <1>2
<1> QED BY <1>3

---------------------------------------------------------------------------
(* The observe loop, for any codes, ladder, limits and troubles.             *)

\* NothingLeft says nothing of an attempt under way; there the only directory is
\* the attempt's own.
ScratchInv ==
  /\ NothingLeft
  /\ step \in {"drive", "judge"} => scratch \subseteq {<<at, attempt>>}

LEMMA ScratchStep == ScratchInv /\ [ObserveNext]_observe => ScratchInv'
<1> SUFFICES ASSUME ScratchInv, [ObserveNext]_observe PROVE ScratchInv'
  OBVIOUS
<1> USE DEF ScratchInv, NothingLeft
<1>1. CASE UNCHANGED observe
  BY <1>1 DEF observe
<1>2. CASE Start
  BY <1>2 DEF Start
<1>3. CASE NextCode
  BY <1>3 DEF NextCode, Halt
<1>4. CASE StartRecording
  BY <1>4 DEF StartRecording
<1>5. CASE Pulse
  BY <1>5 DEF Pulse, Halt
<1>6. CASE RecorderEnds
  BY <1>6 DEF RecorderEnds
<1>7. CASE Finish
  BY <1>7 DEF Finish, Halt
<1>8. CASE Judge
  BY <1>8 DEF Judge
<1>9. CASE Agree
  BY <1>9 DEF Agree
<1>10. CASE Trouble
  BY <1>10 DEF Trouble
<1> QED
  BY <1>1, <1>2, <1>3, <1>4, <1>5, <1>6, <1>7, <1>8, <1>9, <1>10 DEF ObserveNext, Advance

\* No scratch directory outlives its attempt, but for the one a drive leaves
\* that fails under its own recording. (loop.py's derive_code, capture.py)
THEOREM NothingStays == ObserveRuns => []NothingLeft
<1>1. ObserveInit => ScratchInv
  BY DEF ObserveInit, ScratchInv, NothingLeft
<1>2. ScratchInv => NothingLeft
  BY DEF ScratchInv
<1> QED BY <1>1, <1>2, ScratchStep, PTL DEF ObserveRuns

---------------------------------------------------------------------------

\* Every rung drives at least one pulse.
LEMMA DrivesSomething ==
  ASSUME NEW c, NEW variation
  PROVE  Drive(c, variation) # <<>>
<1>1. CASE variation = "repeat"
  BY <1>1 DEF Drive
<1>2. CASE variation = "raise_first"
  <2>1. PrePulse(c) = <<>> \/ \E x: PrePulse(c) = <<x>>
    BY DEF PrePulse
  <2>2. PrePulse(c) \o <<c>> # <<>>
    BY <2>1
  <2> QED BY <1>2, <2>2 DEF Drive
<1>3. CASE variation \notin {"repeat", "raise_first"}
  BY <1>3 DEF Drive
<1> QED BY <1>1, <1>2, <1>3

\* While the link has been up since the code's check, it is up, and an attempt
\* that has asked for all its pulses has moved the robot.
EarnedInv ==
  /\ Earned
  /\ step \in {"attempt", "drive", "judge", "agree"} /\ calm => link
  /\ step = "drive" /\ pulses = <<>> /\ calm => moved
  /\ step = "judge" /\ calm => moved
  /\ step = "agree" /\ calm => alive

LEMMA EarnedStep == EarnedInv /\ [ObserveNext]_observe => EarnedInv'
<1> SUFFICES ASSUME EarnedInv, [ObserveNext]_observe PROVE EarnedInv'
  OBVIOUS
<1> USE DEF EarnedInv, Earned
<1>1. CASE UNCHANGED observe
  BY <1>1 DEF observe
<1>2. CASE Start
  BY <1>2 DEF Start, Env
<1>3. CASE NextCode
  BY <1>3 DEF NextCode, Halt, Ready, NoResult
<1>4. CASE StartRecording
  <2>1. pulses' # <<>>
    BY <1>4, DrivesSomething DEF StartRecording
  <2> QED BY <1>4, <2>1 DEF StartRecording, Env
<1>5. CASE Pulse
  BY <1>5 DEF Pulse, Halt, Env
<1>6. CASE RecorderEnds
  BY <1>6 DEF RecorderEnds, Env
<1>7. CASE Finish
  BY <1>7 DEF Finish, Halt, Env
<1>8. CASE Judge
  BY <1>8 DEF Judge, Env
<1>9. CASE Agree
  BY <1>9 DEF Agree, Result, Env
<1>10. CASE Trouble
  BY <1>10 DEF Trouble, LinkDrops, LinkReturns, DaemonDies, DaemonStarts, BatteryReads
<1> QED
  BY <1>1, <1>2, <1>3, <1>4, <1>5, <1>6, <1>7, <1>8, <1>9, <1>10 DEF ObserveNext, Advance

\* A result is confirmed of a robot that did nothing only if the link dropped
\* during that very code. (cli.py's _run_observe and _observe_readiness_error)
THEOREM RecordEarned == ObserveRuns => []Earned
<1>1. ObserveInit => EarnedInv
  BY DEF ObserveInit, EarnedInv, Earned, NoResult
<1>2. EarnedInv => Earned
  BY DEF EarnedInv
<1> QED BY <1>1, <1>2, EarnedStep, PTL DEF ObserveRuns

---------------------------------------------------------------------------

\* No group has reproduced yet. A new reading lengthens one group by one, so the
\* group that then reproduces has exactly Repeats readings, the new one among them.
Split(rs) == Reproduced(rs) = {}
ReadingsInv ==
  /\ readings \in Seq(Reading) /\ attempt \in Nat
  /\ (step = "attempt" => Len(readings) = attempt /\ attempt < Repeats + RetryLimit /\ Split(readings))
  /\ (step \in {"drive", "judge"} =>
       Len(readings) + 1 = attempt /\ attempt <= Repeats + RetryLimit /\ Split(readings))
  /\ (step = "agree" =>
       /\ Len(readings) = attempt /\ attempt > 0 /\ attempt <= Repeats + RetryLimit
       /\ \A key \in Motions: Cardinality(Group(readings, key) \ {attempt}) < Repeats)
  /\ ReproducedOnly

LEMMA GroupFacts ==
  ASSUME NEW rs \in Seq(Reading), NEW key
  PROVE  /\ IsFiniteSet(Group(rs, key)) /\ Cardinality(Group(rs, key)) \in Nat
         /\ Group(rs, key) \subseteq 1..Len(rs)
         /\ \A k \in Group(rs, key): rs[k] = [key |-> key, confidence |-> 1]
<1>1. Len(rs) \in Nat /\ DOMAIN rs = 1..Len(rs)
  OBVIOUS
<1>2. Group(rs, key) \subseteq 1..Len(rs) /\ IsFiniteSet(1..Len(rs))
  BY <1>1, FS_Interval DEF Group
<1>3. IsFiniteSet(Group(rs, key)) /\ Cardinality(Group(rs, key)) \in Nat
  BY <1>2, FS_Subset, FS_CardinalityType
<1>4. \A k \in Group(rs, key): rs[k] \in Reading /\ rs[k].confidence >= 1 /\ rs[k].key = key
  BY <1>1 DEF Group, Floor
<1>5. \A r \in Reading: r.confidence >= 1 => r = [key |-> r.key, confidence |-> 1]
  BY DEF Reading
<1> QED BY <1>2, <1>3, <1>4, <1>5

LEMMA SplitFacts ==
  ASSUME NEW rs \in Seq(Reading)
  PROVE  Split(rs) <=> \A key \in Motions: Cardinality(Group(rs, key)) < Repeats
<1>1. \A key: Cardinality(Group(rs, key)) \in Nat
  BY GroupFacts
<1> QED BY <1>1, ObserveAssumption DEF Split, Reproduced

LEMMA SplitStart == Split(<<>>)
<1>1. \A key: Group(<<>>, key) = {}
  BY DEF Group
<1>2. \A key: Cardinality(Group(<<>>, key)) = 0
  BY <1>1, FS_EmptySet
<1>3. <<>> \in Seq(Reading)
  OBVIOUS
<1>4. 0 < Repeats
  BY ObserveAssumption
<1>5. \A key \in Motions: Cardinality(Group(<<>>, key)) < Repeats
  BY <1>2, <1>4
<1> QED BY <1>3, <1>5, SplitFacts

\* The last reading is the only one its group did not have before.
LEMMA GroupGrows ==
  ASSUME NEW rs \in Seq(Reading), NEW r \in Reading, NEW key
  PROVE  Group(Append(rs, r), key) \ {Len(rs) + 1} = Group(rs, key)
<1>1. /\ Len(rs) \in Nat /\ DOMAIN rs = 1..Len(rs) /\ DOMAIN Append(rs, r) = 1..(Len(rs) + 1)
      /\ \A k \in 1..Len(rs): Append(rs, r)[k] = rs[k]
  OBVIOUS
<1>2. \A k: k \in 1..(Len(rs) + 1) /\ k # Len(rs) + 1 <=> k \in 1..Len(rs)
  BY <1>1
<1> QED BY <1>1, <1>2 DEF Group

\* What reproduces now did so with the last reading, and has Repeats of them.
LEMMA ConfirmedByLast ==
  ASSUME NEW rs \in Seq(Reading), NEW n, n = Len(rs), NEW key,
         Cardinality(Group(rs, key) \ {n}) < Repeats, Cardinality(Group(rs, key)) >= Repeats
  PROVE  /\ n \in Group(rs, key) /\ Cardinality(Group(rs, key)) = Repeats
         /\ Group(rs, key) \in SUBSET (1..n)
         /\ \A k \in Group(rs, key): rs[k] = [key |-> key, confidence |-> 1]
<1> DEFINE S == Group(rs, key)
<1>1. /\ IsFiniteSet(S) /\ Cardinality(S) \in Nat /\ S \subseteq 1..n
      /\ \A k \in S: rs[k] = [key |-> key, confidence |-> 1]
  BY GroupFacts
<1> HIDE DEF S
<1>2. n \in S
  <2>1. SUFFICES ASSUME n \notin S PROVE FALSE
    OBVIOUS
  <2>2. S \ {n} = S
    BY <2>1
  <2>3. Cardinality(S) < Repeats /\ Cardinality(S) >= Repeats
    BY <2>2 DEF S
  <2> QED BY <1>1, <2>3, ObserveAssumption
<1>3. Cardinality(S \ {n}) = Cardinality(S) - 1
  BY <1>1, <1>2, FS_RemoveElement
<1>4. Cardinality(S) = Repeats
  BY <1>1, <1>3, ObserveAssumption DEF S
<1> QED BY <1>1, <1>2, <1>4 DEF S

\* While no group reproduces, no Repeats readings that clear the floor agree.
LEMMA SplitDisagrees ==
  ASSUME NEW rs \in Seq(Reading), Split(rs), NEW key \in Motions,
         NEW S \in SUBSET (1..Len(rs)), Cardinality(S) = Repeats
  PROVE  ~\A k \in S: rs[k] = [key |-> key, confidence |-> 1]
<1> SUFFICES ASSUME \A k \in S: rs[k] = [key |-> key, confidence |-> 1] PROVE FALSE
  OBVIOUS
<1>1. DOMAIN rs = 1..Len(rs)
  OBVIOUS
<1>2. S \in SUBSET Group(rs, key)
  BY <1>1 DEF Group, Floor
<1>3. IsFiniteSet(Group(rs, key)) /\ Cardinality(Group(rs, key)) \in Nat
  BY GroupFacts
<1>4. Cardinality(S) <= Cardinality(Group(rs, key))
  BY <1>2, <1>3, FS_Subset
<1>5. Cardinality(Group(rs, key)) < Repeats
  BY SplitFacts
<1> QED BY <1>3, <1>4, <1>5, ObserveAssumption

LEMMA ReadingsStep == ReadingsInv /\ EarnedInv /\ EarnedInv' /\ [ObserveNext]_observe => ReadingsInv'
<1> SUFFICES ASSUME ReadingsInv, EarnedInv', [ObserveNext]_observe PROVE ReadingsInv'
  OBVIOUS
<1>1. readings \in Seq(Reading) /\ attempt \in Nat
  BY DEF ReadingsInv
<1>2. ASSUME result' = result PROVE ReproducedOnly'
  BY <1>2 DEF ReadingsInv, ReproducedOnly, Earned
<1>3. ASSUME UNCHANGED <<readings, attempt, result>>, step' \in {step, "halted", "crashed", "judge"},
             step' = "judge" => step \in {"drive", "judge"}
      PROVE  ReadingsInv'
  BY <1>2, <1>3 DEF ReadingsInv
<1>4. CASE UNCHANGED observe
  BY <1>3, <1>4 DEF observe
<1>5. CASE Start
  BY <1>1, <1>2, <1>5 DEF Start, ReadingsInv
<1>6. CASE NextCode
  <2>1. ReproducedOnly'
    BY <1>6 DEF NextCode, NoResult, ReproducedOnly
  <2>2. readings' = <<>> /\ attempt' = 0 /\ step' \in {"finished", "halted", "attempt"}
    BY <1>6 DEF NextCode, Halt
  <2> QED BY <2>1, <2>2, SplitStart, ObserveAssumption DEF ReadingsInv
<1>7. CASE StartRecording
  <2>1. step = "attempt" /\ attempt' = attempt + 1 /\ step' = "drive" /\ UNCHANGED <<readings, result>>
    BY <1>7 DEF StartRecording
  <2> QED BY <1>1, <1>2, <2>1, ObserveAssumption DEF ReadingsInv
<1>8. CASE Pulse
  BY <1>3, <1>8 DEF Pulse, Halt
<1>9. CASE RecorderEnds \/ Trouble
  BY <1>3, <1>9 DEF RecorderEnds, Trouble
<1>10. CASE Finish
  BY <1>3, <1>10 DEF Finish, Halt
<1>11. CASE Judge
  <2>1. CASE step' = "crashed"
    BY <1>3, <1>11, <2>1 DEF Judge
  <2>2. ASSUME NEW r \in Reading, readings' = Append(readings, r), step' = "agree" PROVE ReadingsInv'
    <3>1. step = "judge" /\ UNCHANGED <<attempt, result>>
      BY <1>11 DEF Judge
    <3>2. Len(readings) + 1 = attempt /\ attempt <= Repeats + RetryLimit /\ Split(readings)
      BY <3>1 DEF ReadingsInv
    <3>3. readings' \in Seq(Reading) /\ Len(readings') = attempt
      BY <1>1, <2>2, <3>2
    <3>4. \A key \in Motions: Cardinality(Group(readings', key) \ {attempt}) < Repeats
      <4>1. \A key \in Motions: Cardinality(Group(readings, key)) < Repeats
        BY <1>1, <3>2, SplitFacts
      <4>2. \A key: Group(Append(readings, r), key) \ {Len(readings) + 1} = Group(readings, key)
        BY <1>1, <2>2, GroupGrows
      <4> QED BY <2>2, <3>2, <4>1, <4>2
    <3> QED BY <1>1, <1>2, <2>2, <3>1, <3>2, <3>3, <3>4 DEF ReadingsInv
  <2> QED BY <1>11, <2>1, <2>2 DEF Judge
<1>12. CASE Agree
  <2>1. /\ step = "agree" /\ UNCHANGED <<readings, attempt>> /\ Len(readings) = attempt
        /\ attempt > 0 /\ attempt <= Repeats + RetryLimit
        /\ \A key \in Motions: Cardinality(Group(readings, key) \ {attempt}) < Repeats
    BY <1>12 DEF Agree, ReadingsInv
  <2>2. ASSUME NEW key \in Reproduced(readings), result' = Result("confirmed", key), step' = "next"
        PROVE  ReadingsInv'
    <3>1. key \in Motions /\ Cardinality(Group(readings, key)) >= Repeats
      BY <2>2 DEF Reproduced
    <3>2. /\ attempt \in Group(readings, key) /\ Cardinality(Group(readings, key)) = Repeats
          /\ Group(readings, key) \in SUBSET (1..attempt)
          /\ \A k \in Group(readings, key): readings[k] = [key |-> key, confidence |-> 1]
      BY <1>1, <2>1, <3>1, ConfirmedByLast
    <3>3. /\ result'.status = "confirmed" /\ result'.key = key /\ result'.readings = readings
      BY <2>2 DEF Result
    <3>4. Earned'
      BY DEF EarnedInv
    <3>5. ReproducedOnly'
      BY <2>1, <3>2, <3>3, <3>4 DEF ReproducedOnly
    <3> QED BY <1>1, <2>1, <2>2, <3>5 DEF ReadingsInv
  <2>3. CASE /\ Reproduced(readings) = {} /\ attempt = Repeats + RetryLimit
             /\ result' = Result("uncertain", "none") /\ step' = "next"
    <3>1. result'.status = "uncertain" /\ result'.readings = readings
      BY <2>3 DEF Result
    <3>2. \A S \in SUBSET (1..Len(readings)), key \in Motions: Cardinality(S) = Repeats =>
            ~\A k \in S: readings[k] = [key |-> key, confidence |-> 1]
      BY <1>1, <2>3, SplitDisagrees DEF Split
    <3>3. ReproducedOnly'
      BY <2>1, <2>3, <3>1, <3>2 DEF ReproducedOnly
    <3> QED BY <1>1, <2>1, <2>3, <3>3 DEF ReadingsInv
  <2>4. CASE /\ Reproduced(readings) = {} /\ attempt < Repeats + RetryLimit
             /\ result' = result /\ step' = "attempt"
    BY <1>1, <1>2, <2>1, <2>4 DEF ReadingsInv, Split
  <2> QED BY <1>12, <2>2, <2>3, <2>4 DEF Agree
<1> QED
  BY <1>4, <1>5, <1>6, <1>7, <1>8, <1>9, <1>10, <1>11, <1>12 DEF ObserveNext, Advance

\* A code is confirmed exactly when Repeats of its readings clear the floor and
\* agree, with the last of them, and else after all its attempts uncertain, for
\* any ladder, limits and troubles. (loop.py's _reproduced and derive_code)
THEOREM ReproducedFirst == ObserveRuns => []ReproducedOnly
<1>1. ObserveInit => ReadingsInv /\ EarnedInv
  <2> SUFFICES ASSUME ObserveInit PROVE ReadingsInv /\ EarnedInv
    OBVIOUS
  <2>1. EarnedInv
    BY DEF ObserveInit, EarnedInv, Earned, NoResult
  <2>2. ReproducedOnly
    BY DEF ObserveInit, ReproducedOnly, NoResult
  <2>3. readings = <<>> /\ attempt = 0 /\ step = "start"
    BY DEF ObserveInit
  <2> QED BY <2>1, <2>2, <2>3 DEF ReadingsInv
<1>2. ReadingsInv => ReproducedOnly
  BY DEF ReadingsInv
<1> QED BY <1>1, <1>2, EarnedStep, ReadingsStep, PTL DEF ObserveRuns

---------------------------------------------------------------------------
(* The command table and its evidence, for any rows, senders, confirms and
   edits. A log stands for one transmission: those written are told apart by
   the index of theirs in sent, and the send under way has the last one. *)

IsSeq(s) == s \in Seq({s[i] : i \in DOMAIN s})

WholeLogs(L) == {name \in DOMAIN L: L[name].whole}
Covers(f, L, S) ==
  /\ f \in [WholeLogs(L) -> 1..Len(S)]
  /\ \A m, n \in WholeLogs(L): f[m] = f[n] => m = n
  /\ \A n \in WholeLogs(L): S[f[n]] = Transmission(L[n])
Spares(f, L, S, log) ==
  S[Len(S)] = Transmission(log) /\ Len(S) # 0 /\ \A n \in WholeLogs(L): f[n] # Len(S)

LogsInv ==
  /\ IsSeq(sent)
  /\ (send.step \in {"built", "sent", "opened"} => send.log.whole)
  /\ (send.step = "opened" => send.name \in DOMAIN logs /\ ~logs[send.name].whole)
  /\ \E f \in [WholeLogs(logs) -> 1..Len(sent)]:
       Covers(f, logs, sent) /\ (send.step \in {"sent", "opened"} => Spares(f, logs, sent, send.log))

\* A log that is whole stays as it is.
Keeps(L, M) == \A name \in WholeLogs(L): name \in DOMAIN M /\ M[name] = L[name]

LEMMA SeqFacts ==
  ASSUME NEW s, IsSeq(s), NEW x
  PROVE  /\ Len(s) \in Nat /\ DOMAIN s = 1..Len(s)
         /\ IsSeq(Append(s, x)) /\ Len(Append(s, x)) = Len(s) + 1
         /\ DOMAIN Append(s, x) = 1..(Len(s) + 1)
         /\ Append(s, x)[Len(s) + 1] = x /\ \A i \in 1..Len(s): Append(s, x)[i] = s[i]
<1> DEFINE T == {s[i] : i \in DOMAIN s} \cup {x}
<1>1. s \in Seq({s[i] : i \in DOMAIN s})
  BY DEF IsSeq
<1>2. Len(s) \in Nat /\ DOMAIN s = 1..Len(s) /\ \A i \in 1..Len(s): s[i] \in T
  BY <1>1
<1>3. s \in Seq(T) /\ x \in T
  BY <1>1, <1>2
<1> DEFINE a == Append(s, x)
<1>4. /\ a \in Seq(T) /\ Len(a) = Len(s) + 1 /\ a[Len(s) + 1] = x
      /\ \A i \in 1..Len(s): a[i] = s[i]
  <2> HIDE DEF T
  <2> QED BY <1>3, AppendProperties
<1>5. DOMAIN a = 1..(Len(s) + 1) /\ \A i \in 1..Len(a): a[i] \in {a[j] : j \in DOMAIN a}
  <2> HIDE DEF T, a
  <2> QED BY <1>4
<1>6. a \in Seq({a[j] : j \in DOMAIN a})
  <2> HIDE DEF T, a
  <2> QED BY <1>2, <1>4, <1>5
<1> QED BY <1>2, <1>4, <1>5, <1>6 DEF IsSeq

LEMMA LogsStep ==
  ASSUME LogsInv, [EvidenceNext]_evidence
  PROVE  LogsInv' /\ Keeps(logs, logs')
<1> DEFINE Goal == LogsInv' /\ Keeps(logs, logs')
<1>1. PICK f \in [WholeLogs(logs) -> 1..Len(sent)]:
        Covers(f, logs, sent) /\ (send.step \in {"sent", "opened"} => Spares(f, logs, sent, send.log))
  BY DEF LogsInv
<1>2. /\ IsSeq(sent) /\ Len(sent) \in Nat
      /\ (send.step \in {"built", "sent", "opened"} => send.log.whole)
      /\ (send.step = "opened" => send.name \in DOMAIN logs /\ ~logs[send.name].whole)
  BY SeqFacts DEF LogsInv
<1>3. ASSUME UNCHANGED <<logs, sent, send>> PROVE Goal
  BY <1>3 DEF LogsInv, Keeps, WholeLogs
<1>4. ASSUME UNCHANGED <<logs, sent>>, send'.step \in {"idle", "built"}, (send'.step = "built" => send'.log.whole)
      PROVE  Goal
  BY <1>1, <1>2, <1>4 DEF LogsInv, Keeps, WholeLogs
<1>5. CASE BuildSend \/ BuildRaw
  <2>1. UNCHANGED <<logs, sent>> /\ send'.step = "built" /\ send'.log.whole
    BY <1>5 DEF BuildSend, BuildRaw, Sending
  <2> QED BY <1>4, <2>1
<1>6. CASE KillSend
  BY <1>4, <1>6 DEF KillSend, Idle
<1>7. CASE Transmit
  <2>1. CASE sent' = Append(sent, Transmission(send.log)) /\ (send' = Sent \/ send' = Idle)
    <3>1. send.log.whole /\ logs' = logs
      BY <1>2, <1>7 DEF Transmit
    <3>2. /\ IsSeq(sent') /\ Len(sent') = Len(sent) + 1 /\ sent'[Len(sent')] = Transmission(send.log)
          /\ \A i \in 1..Len(sent): sent'[i] = sent[i]
      BY <1>2, <2>1, SeqFacts
    <3>3. /\ f \in [WholeLogs(logs') -> 1..Len(sent')] /\ Covers(f, logs', sent')
          /\ Spares(f, logs', sent', send.log)
      BY <1>1, <1>2, <3>1, <3>2 DEF Covers, Spares
    <3>4. send'.step \in {"sent", "idle"} /\ (send'.step = "sent" => send'.log = send.log)
      BY <2>1 DEF Sent, Idle
    <3>5. LogsInv'
      BY <3>1, <3>2, <3>3, <3>4 DEF LogsInv
    <3> QED BY <3>1, <3>5 DEF Keeps, WholeLogs
  <2>2. CASE sent' = sent /\ send' = Idle
    BY <1>4, <1>7, <2>2 DEF Transmit, Idle
  <2> QED BY <1>7, <2>1, <2>2 DEF Transmit
<1>8. CASE OpenLog
  <2>1. PICK stamp \in Stamps:
          IF <<send.log.entry, stamp>> \in DOMAIN logs
          THEN send' = Idle /\ logs' = logs
          ELSE /\ logs' = [n \in DOMAIN logs \cup {<<send.log.entry, stamp>>} |->
                             IF n = <<send.log.entry, stamp>> THEN TornLog ELSE logs[n]]
               /\ send' = [step |-> "opened", log |-> send.log, name |-> <<send.log.entry, stamp>>]
    BY <1>8 DEF OpenLog
  <2> DEFINE name == <<send.log.entry, stamp>>
  <2>2. CASE name \in DOMAIN logs
    BY <1>4, <1>8, <2>1, <2>2 DEF OpenLog, Idle
  <2>3. CASE name \notin DOMAIN logs
    <3>1. /\ logs' = [n \in DOMAIN logs \cup {name} |-> IF n = name THEN TornLog ELSE logs[n]]
          /\ send'.step = "opened" /\ send'.log = send.log /\ send'.name = name /\ sent' = sent
          /\ send.step = "sent"
      BY <1>8, <2>1, <2>3 DEF OpenLog
    <3> HIDE DEF name
    <3>2. WholeLogs(logs') = WholeLogs(logs) /\ name \in DOMAIN logs' /\ ~logs'[name].whole
      BY <2>3, <3>1 DEF WholeLogs, TornLog
    <3>3. \A n \in WholeLogs(logs): n \in DOMAIN logs' /\ logs'[n] = logs[n]
      BY <2>3, <3>1 DEF WholeLogs
    <3>4. Covers(f, logs', sent') /\ Spares(f, logs', sent', send'.log)
      <4>1. Covers(f, logs, sent) /\ Spares(f, logs, sent, send.log)
        BY <1>1, <3>1
      <4>2. Covers(f, logs', sent')
        <5>1. sent' = sent
          BY <3>1
        <5> QED BY <5>1, <3>2, <3>3, <4>1 DEF Covers
      <4> QED BY <3>1, <3>2, <4>1, <4>2 DEF Spares
    <3>5. LogsInv'
      BY <1>1, <1>2, <3>1, <3>2, <3>4 DEF LogsInv
    <3> QED BY <3>3, <3>5 DEF Keeps
  <2> QED BY <2>2, <2>3
<1>9. CASE FillLog
  <2>1. /\ send.step = "opened" /\ send.name \in DOMAIN logs /\ send.name \notin WholeLogs(logs)
        /\ send.log.whole /\ logs' = [logs EXCEPT ![send.name] = send.log] /\ sent' = sent
        /\ send'.step = "idle"
    BY <1>2, <1>9 DEF FillLog, WholeLogs, Idle
  <2>2. /\ WholeLogs(logs') = WholeLogs(logs) \cup {send.name} /\ logs'[send.name] = send.log
        /\ \A n \in WholeLogs(logs): n \in DOMAIN logs' /\ logs'[n] = logs[n]
    BY <2>1 DEF WholeLogs
  <2> DEFINE g == [n \in WholeLogs(logs') |-> IF n = send.name THEN Len(sent) ELSE f[n]]
  <2>3. Spares(f, logs, sent, send.log) /\ Covers(f, logs, sent)
    BY <1>1, <2>1
  <2>4. g \in [WholeLogs(logs') -> 1..Len(sent')]
    <3>1. Len(sent) \in 1..Len(sent) /\ f \in [WholeLogs(logs) -> 1..Len(sent)]
      BY <1>2, <2>3 DEF Covers, Spares
    <3>2. \A n \in WholeLogs(logs'): n # send.name => f[n] \in 1..Len(sent)
      BY <2>2, <3>1
    <3> QED BY <2>1, <3>1, <3>2
  <2>5. g[send.name] = Len(sent) /\ \A n \in WholeLogs(logs): g[n] = f[n] /\ n # send.name
    BY <2>1, <2>2
  <2> HIDE DEF g
  <2>6. \A m, n \in WholeLogs(logs'): g[m] = g[n] => m = n
    BY <2>2, <2>3, <2>5 DEF Covers, Spares
  <2>7. \A n \in WholeLogs(logs'): sent'[g[n]] = Transmission(logs'[n])
    BY <2>1, <2>2, <2>3, <2>5 DEF Covers, Spares
  <2>8. LogsInv'
    BY <1>2, <2>1, <2>4, <2>6, <2>7 DEF LogsInv, Covers
  <2> QED BY <2>2, <2>8 DEF Keeps
<1>10. ASSUME NEW p \in Confirmers,
              \/ \E id \in Ids, name \in DOMAIN logs: Check(p, id, name)
              \/ LoadRows(p) \/ OpenTemp(p) \/ FillTemp(p) \/ Replace(p) \/ KillConfirm(p)
       PROVE  Goal
  BY <1>3, <1>10 DEF Check, LoadRows, OpenTemp, FillTemp, Replace, KillConfirm
<1>11. CASE EditRow \/ EditProse \/ UNCHANGED evidence
  BY <1>3, <1>11 DEF EditRow, EditProse, evidence
<1> QED BY <1>5, <1>6, <1>7, <1>8, <1>9, <1>10, <1>11 DEF EvidenceNext
---------------------------------------------------------------------------

\* A row as the table has it, and rows whose citations are of whole logs of
\* sends of that entry at the parameters observed.
Shaped(e) == DOMAIN e = RowFields /\ e.status \in Statuses /\ IsSeq(e.observations)
Sound(L, id, name) ==
  name \in DOMAIN L /\ L[name].whole /\ L[name].kind = "send" /\ L[name].entry = id
Vouched(L, id, e) ==
  \A c \in Citations(e):
    /\ Sound(L, id, Cited(e, c).log)
    /\ L[Cited(e, c).log].parameters = e.observations[c[1]].parameters
RowsVouched(L, rows) == DOMAIN rows = Ids /\ \A id \in Ids: Shaped(rows[id]) /\ Vouched(L, id, rows[id])
FileVouched(L, file) == DOMAIN file = {"whole", "prose", "rows"} /\ RowsVouched(L, file.rows)

ConfirmVouched(L, c) ==
  \/ c.step = "idle"
  \/ c.step = "checked" /\ c.id \in Ids /\ Sound(L, c.id, c.name)
  \/ c.step = "loaded" /\ RowsVouched(L, c.rows)
  \/ c.step = "opened" /\ DOMAIN c = {"step", "file", "out"} /\ FileVouched(L, c.out)
  \/ c.step = "filled" /\ FileVouched(L, c.out)

VouchedInv ==
  /\ FileVouched(logs, table) /\ FileVouched(logs, temp) /\ DOMAIN confirm = Confirmers
  /\ \A p \in Confirmers: ConfirmVouched(logs, confirm[p])

\* The row with the observation that confirm adds, for any directory of logs.
Added(L, name) ==
  [parameters |-> L[name].parameters, logs |-> <<[log |-> name, dotted |-> FALSE]>>, withdrawn |-> FALSE]
Plus(L, e, name) ==
  [e EXCEPT !.status = "confirmed", !.observations = Append(@, Added(L, name))]
Place(e) == Len(e.observations) + 1

LEMMA CitationPlaces ==
  ASSUME NEW e, NEW c
  PROVE  c \in Citations(e) <=>
           \E i \in DOMAIN e.observations: \E j \in DOMAIN e.observations[i].logs: c = <<i, j>>
  BY DEF Citations

LEMMA PlusRow ==
  ASSUME NEW L, NEW e, NEW name, Shaped(e)
  PROVE  /\ Shaped(Plus(L, e, name)) /\ Plus(L, e, name).status = "confirmed"
         /\ Plus(L, e, name).observations = Append(e.observations, Added(L, name))
         /\ Plus(L, e, name).family = e.family /\ Plus(L, e, name).payload = e.payload
         /\ Plus(L, e, name).parameters = e.parameters
         /\ Plus(L, e, name).derivation = e.derivation /\ Plus(L, e, name).provenance = e.provenance
<1> DEFINE r == Plus(L, e, name)
           o == Added(L, name)
<1>1. r = [e EXCEPT !.status = "confirmed", !.observations = Append(e.observations, o)]
  BY DEF Plus
<1> HIDE DEF r, o
<1>2. /\ DOMAIN r = RowFields /\ r.status = "confirmed" /\ r.observations = Append(e.observations, o)
      /\ r.family = e.family /\ r.payload = e.payload /\ r.parameters = e.parameters
      /\ r.derivation = e.derivation /\ r.provenance = e.provenance
  BY <1>1 DEF Shaped, RowFields
<1>3. IsSeq(r.observations)
  BY <1>2, SeqFacts DEF Shaped
<1>4. Shaped(r)
  BY <1>2, <1>3 DEF Shaped, Statuses
<1> QED BY <1>2, <1>4 DEF r, o

LEMMA PlusPlaces ==
  ASSUME NEW L, NEW e, NEW name, Shaped(e), NEW r, r = Plus(L, e, name), NEW n, n = Place(e)
  PROVE  /\ n \in Nat \ {0} /\ n \notin DOMAIN e.observations /\ <<n, 1>> \notin Citations(e)
         /\ DOMAIN r.observations = DOMAIN e.observations \cup {n}
         /\ \A i \in DOMAIN e.observations: r.observations[i] = e.observations[i]
         /\ r.observations[n] = Added(L, name)
         /\ Citations(r) = Citations(e) \cup {<<n, 1>>}
         /\ \A c \in Citations(e): /\ Cited(r, c) = Cited(e, c) /\ c[1] \in DOMAIN e.observations
                                   /\ r.observations[c[1]] = e.observations[c[1]]
         /\ Cited(r, <<n, 1>>) = [log |-> name, dotted |-> FALSE]
<1> DEFINE o == Added(L, name)
<1>1. DOMAIN o.logs = {1} /\ o.logs[1] = [log |-> name, dotted |-> FALSE]
  BY DEF Added
<1> HIDE DEF o
<1>2. r.observations = Append(e.observations, o) /\ IsSeq(e.observations)
  BY PlusRow DEF Shaped, o
<1>3. /\ n \in Nat \ {0} /\ DOMAIN e.observations = 1..(n - 1) /\ DOMAIN r.observations = 1..n
      /\ r.observations[n] = o /\ \A i \in 1..(n - 1): r.observations[i] = e.observations[i]
  BY <1>2, SeqFacts DEF Place
<1>4. DOMAIN r.observations = DOMAIN e.observations \cup {n} /\ n \notin DOMAIN e.observations
  BY <1>3
<1>5. ASSUME NEW c
      PROVE  c \in Citations(r) <=> c \in Citations(e) \cup {<<n, 1>>}
  BY <1>1, <1>3, <1>4, CitationPlaces
<1>6. Citations(r) = Citations(e) \cup {<<n, 1>>}
  BY <1>5
<1>7. \A c \in Citations(e): /\ Cited(r, c) = Cited(e, c) /\ c[1] \in DOMAIN e.observations
                             /\ r.observations[c[1]] = e.observations[c[1]]
  <2> TAKE c \in Citations(e)
  <2>1. PICK i \in DOMAIN e.observations: \E j \in DOMAIN e.observations[i].logs: c = <<i, j>>
    BY CitationPlaces
  <2> QED BY <1>3, <2>1 DEF Cited
<1>8. Cited(r, <<n, 1>>) = [log |-> name, dotted |-> FALSE] /\ <<n, 1>> \notin Citations(e)
  BY <1>1, <1>3, <1>4, CitationPlaces DEF Cited
<1> QED BY <1>3, <1>4, <1>6, <1>7, <1>8 DEF o

LEMMA PlusVouched ==
  ASSUME NEW L, NEW id, NEW e, Shaped(e), Vouched(L, id, e), NEW name, Sound(L, id, name)
  PROVE  Shaped(Plus(L, e, name)) /\ Vouched(L, id, Plus(L, e, name))
<1> DEFINE r == Plus(L, e, name)
           n == Place(e)
<1>1. Shaped(r)
  BY PlusRow
<1>2. /\ Citations(r) = Citations(e) \cup {<<n, 1>>}
      /\ Cited(r, <<n, 1>>) = [log |-> name, dotted |-> FALSE] /\ r.observations[n] = Added(L, name)
      /\ \A c \in Citations(e): Cited(r, c) = Cited(e, c) /\ r.observations[c[1]] = e.observations[c[1]]
  <2> HIDE DEF r, n
  <2>1. r = Plus(L, e, name) /\ n = Place(e)
    BY DEF r, n
  <2> QED BY <2>1, PlusPlaces
<1>3. Added(L, name).parameters = L[name].parameters
  BY DEF Added
<1> HIDE DEF r, n
<1>4. Vouched(L, id, r)
  BY <1>2, <1>3 DEF Vouched
<1> QED BY <1>1, <1>4 DEF r

LEMMA VouchedStays ==
  ASSUME NEW L, NEW M, Keeps(L, M)
  PROVE  /\ \A id, name: Sound(L, id, name) => Sound(M, id, name) /\ M[name] = L[name]
         /\ \A rows: RowsVouched(L, rows) => RowsVouched(M, rows)
         /\ \A file: FileVouched(L, file) => FileVouched(M, file)
         /\ \A c: ConfirmVouched(L, c) => ConfirmVouched(M, c)
<1>1. \A id, name: Sound(L, id, name) => Sound(M, id, name) /\ M[name] = L[name]
  BY DEF Sound, Keeps, WholeLogs
<1>2. \A id, e: Vouched(L, id, e) => Vouched(M, id, e)
  BY <1>1 DEF Vouched
<1>3. \A rows: RowsVouched(L, rows) => RowsVouched(M, rows)
  BY <1>2 DEF RowsVouched
<1>4. \A file: FileVouched(L, file) => FileVouched(M, file)
  BY <1>3 DEF FileVouched
<1>5. \A c: ConfirmVouched(L, c) => ConfirmVouched(M, c)
  BY <1>1, <1>3, <1>4 DEF ConfirmVouched
<1> QED BY <1>1, <1>3, <1>4, <1>5

LEMMA RevisionShaped ==
  ASSUME NEW e, Shaped(e), NEW r \in Revisions(e)
  PROVE  Shaped(r)
<1> USE DEF RowFields, Statuses
<1>1. DOMAIN e = RowFields /\ e.status \in Statuses /\ IsSeq(e.observations)
  BY DEF Shaped
<1>2. ASSUME NEW s, NEW i \in DOMAIN s, NEW x, IsSeq(s) PROVE IsSeq([s EXCEPT ![i] = x])
  <2>1. s \in Seq({s[j] : j \in DOMAIN s} \cup {x})
    BY <1>2 DEF IsSeq
  <2> DEFINE t == [s EXCEPT ![i] = x]
  <2>2. DOMAIN s = 1..Len(s) /\ Len(s) \in Nat
    BY <2>1
  <2>3. t \in Seq({s[j] : j \in DOMAIN s} \cup {x})
    BY <2>1, <2>2, ExceptSeq
  <2> HIDE DEF t
  <2>4. t \in Seq({t[j] : j \in DOMAIN t})
    <3>1. Len(t) \in Nat /\ DOMAIN t = 1..Len(t) /\ \A j \in 1..Len(t): t[j] \in {t[k] : k \in DOMAIN t}
      BY <2>3
    <3> QED BY <2>3, <3>1
  <2> QED BY <2>4 DEF IsSeq, t
<1>3. ASSUME NEW i \in DOMAIN e.observations, NEW x
      PROVE  LET m == [e EXCEPT !.observations = [e.observations EXCEPT ![i] = x]]
             IN Shaped(m) /\ Shaped(Restated(m))
  <2> DEFINE os == [e.observations EXCEPT ![i] = x]
             m == [e EXCEPT !.observations = os]
  <2>1. IsSeq(os)
    BY <1>1, <1>2
  <2> HIDE DEF os
  <2>2. Shaped(m)
    BY <1>1, <2>1 DEF Shaped
  <2>3. DOMAIN m = RowFields /\ m.observations = os
    BY <1>1
  <2> HIDE DEF m
  <2>4. Shaped(Restated(m))
    BY <2>1, <2>3 DEF Restated, Shaped
  <2> QED BY <2>2, <2>4 DEF m, os
<1>4. CASE r \in Withdrawals(e)
  <2>1. PICK i \in DOMAIN e.observations:
          r = Restated([e EXCEPT !.observations = [e.observations EXCEPT ![i] =
                         [e.observations[i] EXCEPT !.withdrawn = TRUE]]])
    BY <1>4 DEF Withdrawals
  <2> QED BY <1>3, <2>1
<1>5. CASE r \in Respellings(e)
  <2>1. PICK c \in Citations(e):
          r = [e EXCEPT !.observations = [e.observations EXCEPT ![c[1]] =
                [e.observations[c[1]] EXCEPT !.logs[c[2]].dotted = TRUE]]]
    BY <1>5 DEF Respellings
  <2>2. PICK i \in DOMAIN e.observations: \E j \in DOMAIN e.observations[i].logs: c = <<i, j>>
    BY CitationPlaces
  <2> QED BY <1>3, <2>1, <2>2
<1>6. CASE r \in Defaults(e)
  <2>1. PICK ps: r = [e EXCEPT !.parameters = ps]
    BY <1>6 DEF Defaults
  <2>2. DOMAIN r = RowFields /\ r.status = e.status /\ r.observations = e.observations
    BY <1>1, <2>1
  <2> QED BY <1>1, <2>2 DEF Shaped
<1>7. CASE r = [e EXCEPT !.derivation = "blank"]
  BY <1>1, <1>7 DEF Shaped
<1>8. CASE r \in Decodings(e)
  <2>1. PICK t \in Templates:
          r = [e EXCEPT !.status = "decoded", !.derivation = "text", !.provenance = "decompile",
                        !.family = t.family, !.payload = t.payload, !.parameters = t.parameters]
    BY <1>8 DEF Decodings
  <2>2. DOMAIN r = RowFields /\ r.status = "decoded" /\ r.observations = e.observations
    BY <1>1, <2>1
  <2> QED BY <1>1, <2>2 DEF Shaped
<1> QED BY <1>4, <1>5, <1>6, <1>7, <1>8 DEF Revisions

\* The gate asks the same of a row as RowsVouched, of one with a frame; and a
\* row without has no observations.
LEMMA GateVouches ==
  ASSUME NEW id, NEW e, Shaped(e), ValidEntry(id, e)
  PROVE  Vouched(logs, id, e)
<1> SUFFICES ASSUME NEW c \in Citations(e)
             PROVE  /\ Sound(logs, id, Cited(e, c).log)
                    /\ logs[Cited(e, c).log].parameters = e.observations[c[1]].parameters
  BY DEF Vouched
<1>1. e.observations # <<>>
  <2>1. PICK i \in DOMAIN e.observations: \E j \in DOMAIN e.observations[i].logs: c = <<i, j>>
    BY CitationPlaces
  <2> QED BY <2>1
<1>2. HasFrame(e)
  BY <1>1 DEF ValidEntry, StateRules, Shaped, Statuses, HasFrame
<1>3. LogSupports(id, e, e.observations[c[1]], Cited(e, c).log)
  BY DEF ValidEntry, EvidenceRules
<1> QED BY <1>2, <1>3 DEF LogSupports, Promotable, Readable, Sound

LEMMA VouchedStep ==
  ASSUME LogsInv, VouchedInv, [EvidenceNext]_evidence
  PROVE  VouchedInv'
<1>1. LogsInv' /\ Keeps(logs, logs')
  BY LogsStep
<1>2. /\ FileVouched(logs', table) /\ FileVouched(logs', temp) /\ DOMAIN confirm = Confirmers
      /\ \A p \in Confirmers: ConfirmVouched(logs', confirm[p])
  BY <1>1, VouchedStays DEF VouchedInv
<1>3. ASSUME UNCHANGED <<table, temp, confirm>> PROVE VouchedInv'
  BY <1>2, <1>3 DEF VouchedInv
<1>4. ASSUME NEW p \in Confirmers, NEW c, ConfirmVouched(logs', c), confirm' = [confirm EXCEPT ![p] = c],
             FileVouched(logs', table'), FileVouched(logs', temp')
      PROVE  VouchedInv'
  <2>1. DOMAIN confirm' = Confirmers /\ \A q \in Confirmers: confirm'[q] = IF q = p THEN c ELSE confirm[q]
    BY <1>2, <1>4
  <2> QED BY <1>2, <1>4, <2>1 DEF VouchedInv
<1>5. CASE BuildSend \/ BuildRaw \/ Transmit \/ OpenLog \/ FillLog \/ KillSend \/ UNCHANGED evidence
  BY <1>3, <1>5 DEF BuildSend, BuildRaw, Transmit, OpenLog, FillLog, KillSend, evidence
<1>6. ASSUME NEW p \in Confirmers, NEW id \in Ids, NEW name \in DOMAIN logs, Check(p, id, name)
      PROVE  VouchedInv'
  <2> DEFINE c == [step |-> "checked", id |-> id, name |-> name]
  <2>1. name \in Promotable(id) /\ confirm' = [confirm EXCEPT ![p] = c] /\ UNCHANGED <<table, temp, logs>>
    BY <1>6 DEF Check
  <2>2. Sound(logs', id, name)
    BY <2>1 DEF Promotable, Readable, Sound
  <2>3. ConfirmVouched(logs', c)
    BY <2>2 DEF ConfirmVouched
  <2> HIDE DEF c
  <2> QED BY <1>2, <1>4, <2>1, <2>3
<1>7. ASSUME NEW p \in Confirmers, LoadRows(p) PROVE VouchedInv'
  <2> DEFINE id == confirm[p].id
             name == confirm[p].name
             rows == [table.rows EXCEPT ![id] = Plus(logs, @, name)]
             c == [step |-> "loaded", rows |-> rows]
  <2>1. confirm' = [confirm EXCEPT ![p] = c] /\ UNCHANGED <<table, temp, logs>> /\ confirm[p].step = "checked"
    BY <1>7 DEF LoadRows, Confirmed, Observation, Plus, Added
  <2>2. id \in Ids /\ Sound(logs, id, name)
    BY <1>2, <2>1 DEF ConfirmVouched
  <2>3. RowsVouched(logs, table.rows)
    BY DEF VouchedInv, FileVouched
  <2> HIDE DEF id, name
  <2>4. Shaped(Plus(logs, table.rows[id], name)) /\ Vouched(logs, id, Plus(logs, table.rows[id], name))
    BY <2>2, <2>3, PlusVouched DEF RowsVouched
  <2>5. DOMAIN rows = Ids /\ \A i \in Ids: rows[i] = IF i = id THEN Plus(logs, table.rows[id], name) ELSE table.rows[i]
    BY <2>2, <2>3 DEF RowsVouched
  <2> HIDE DEF rows
  <2>6. RowsVouched(logs, rows)
    BY <2>3, <2>4, <2>5 DEF RowsVouched
  <2>7. ConfirmVouched(logs', c)
    BY <2>1, <2>6 DEF ConfirmVouched
  <2> HIDE DEF c
  <2> QED BY <1>2, <1>4, <2>1, <2>7
<1>8. FileVouched(logs', Torn) /\ FileVouched(logs', Gone)
  <2>1. \A id \in Ids: Shaped(FirstRows[id]) /\ Citations(FirstRows[id]) = {}
    <3>1. IsSeq(<<>>)
      BY DEF IsSeq
    <3> QED BY <3>1, FirstRowsAssumption, CitationPlaces DEF Shaped
  <2>2. RowsVouched(logs', FirstRows)
    BY <2>1, FirstRowsAssumption DEF RowsVouched, Vouched
  <2> QED BY <2>2 DEF FileVouched, Torn, Gone
<1>9. ASSUME NEW p \in Confirmers, OpenTemp(p) PROVE VouchedInv'
  <2> DEFINE out == [whole |-> TRUE, prose |-> table.prose, rows |-> confirm[p].rows]
             c == [step |-> "opened", file |-> "temp", out |-> out]
  <2>1. confirm' = [confirm EXCEPT ![p] = c] /\ UNCHANGED <<table, logs>> /\ confirm[p].step = "loaded" /\ temp' = Torn
    BY <1>9 DEF OpenTemp
  <2>2. RowsVouched(logs', confirm[p].rows)
    BY <1>2, <2>1 DEF ConfirmVouched
  <2>3. FileVouched(logs', out)
    BY <2>2 DEF FileVouched
  <2> HIDE DEF out
  <2>4. ConfirmVouched(logs', c)
    BY <2>3 DEF ConfirmVouched
  <2> HIDE DEF c
  <2> QED BY <1>2, <1>4, <1>8, <2>1, <2>4
<1>10. ASSUME NEW p \in Confirmers, FillTemp(p) PROVE VouchedInv'
  <2> DEFINE c == [step |-> "filled", out |-> confirm[p].out]
  <2>1. confirm' = [confirm EXCEPT ![p] = c] /\ confirm[p].step = "opened"
    BY <1>10 DEF FillTemp
  <2>2. FileVouched(logs', confirm[p].out)
    BY <1>2, <2>1 DEF ConfirmVouched
  <2>3. ConfirmVouched(logs', c)
    BY <2>2 DEF ConfirmVouched
  <2>4. temp' \in {confirm[p].out, temp} /\ table' \in {confirm[p].out, table}
    BY <1>10 DEF FillTemp
  <2> HIDE DEF c
  <2> QED BY <1>2, <1>4, <2>1, <2>2, <2>3, <2>4
<1>11. ASSUME NEW p \in Confirmers, Replace(p) PROVE VouchedInv'
  <2>1. table' \in {table, temp} /\ temp' \in {temp, Gone}
    BY <1>11 DEF Replace
  <2>2. DOMAIN confirm' = Confirmers /\ \A q \in Confirmers: confirm'[q] \in {Idle, confirm[q], Renamed(confirm[q])}
    BY <1>11 DEF Replace
  <2>3. ConfirmVouched(logs', Idle)
    BY DEF ConfirmVouched, Idle
  <2>4. ASSUME NEW c, ConfirmVouched(logs', c) PROVE ConfirmVouched(logs', Renamed(c))
    BY <2>4 DEF Renamed, ConfirmVouched
  <2>5. \A q \in Confirmers: ConfirmVouched(logs', confirm'[q])
    BY <1>2, <2>2, <2>3, <2>4
  <2>6. FileVouched(logs', table') /\ FileVouched(logs', temp')
    BY <1>2, <1>8, <2>1
  <2> QED BY <2>2, <2>5, <2>6 DEF VouchedInv
<1>12. ASSUME NEW p \in Confirmers, KillConfirm(p) PROVE VouchedInv'
  <2>1. confirm' = [confirm EXCEPT ![p] = Idle] /\ UNCHANGED <<table, temp>>
    BY <1>12 DEF KillConfirm
  <2>2. ConfirmVouched(logs', Idle)
    BY DEF ConfirmVouched, Idle
  <2> QED BY <1>2, <1>4, <2>1, <2>2
<1>13. CASE EditRow
  <2>0. PICK id \in Ids: \E r \in Revisions(table.rows[id]):
          ValidEntry(id, r) /\ table' = [table EXCEPT !.rows[id] = r]
    BY <1>13 DEF EditRow
  <2>1. PICK e \in Revisions(table.rows[id]):
          ValidEntry(id, e) /\ table' = [table EXCEPT !.rows[id] = e]
    BY <2>0
  <2>2. FileVouched(logs, table) /\ UNCHANGED <<temp, confirm, logs>>
    BY <1>13 DEF VouchedInv, EditRow
  <2>3. Shaped(e) /\ Vouched(logs, id, e)
    BY <2>1, <2>2, RevisionShaped, GateVouches DEF FileVouched, RowsVouched
  <2>4. /\ DOMAIN table' = {"whole", "prose", "rows"} /\ table'.rows = [table.rows EXCEPT ![id] = e]
    BY <2>1, <2>2 DEF FileVouched
  <2>5. RowsVouched(logs, table.rows)
    BY <2>2 DEF FileVouched
  <2>6. DOMAIN table'.rows = Ids /\ \A i \in Ids: table'.rows[i] = IF i = id THEN e ELSE table.rows[i]
    BY <2>4, <2>5 DEF RowsVouched
  <2>7. RowsVouched(logs', table'.rows)
    BY <2>2, <2>3, <2>5, <2>6 DEF RowsVouched
  <2> QED BY <1>2, <2>2, <2>4, <2>7 DEF VouchedInv, FileVouched
<1>14. CASE EditProse
  <2>1. FileVouched(logs, table) /\ UNCHANGED <<temp, confirm, logs>> /\ table' = [table EXCEPT !.prose = @ + 1]
    BY <1>14 DEF VouchedInv, EditProse
  <2>2. FileVouched(logs', table')
    BY <2>1 DEF FileVouched
  <2> QED BY <1>2, <2>1, <2>2 DEF VouchedInv
<1> QED BY <1>5, <1>6, <1>7, <1>9, <1>10, <1>11, <1>12, <1>13, <1>14 DEF EvidenceNext

LEMMA EvidenceStart == EvidenceInit => LogsInv /\ VouchedInv
<1> SUFFICES ASSUME EvidenceInit PROVE LogsInv /\ VouchedInv
  OBVIOUS
<1>1. IsSeq(<<>>)
  BY DEF IsSeq
<1>2. LogsInv
  <2>1. WholeLogs(logs) = {} /\ IsSeq(sent) /\ send.step = "idle" /\ Len(sent) = 0
    BY <1>1 DEF EvidenceInit, WholeLogs, Idle
  <2>2. [x \in {} |-> 0] \in [{} -> 1..0]
    OBVIOUS
  <2> QED BY <2>1, <2>2 DEF LogsInv, Covers
<1>3. \A id \in Ids: Shaped(FirstRows[id]) /\ Citations(FirstRows[id]) = {}
  BY <1>1, FirstRowsAssumption, CitationPlaces DEF Shaped
<1>4. RowsVouched(logs, FirstRows)
  BY <1>3, FirstRowsAssumption DEF RowsVouched, Vouched
<1>5. FileVouched(logs, table) /\ FileVouched(logs, temp)
  BY <1>4 DEF FileVouched, Gone, EvidenceInit
<1>6. DOMAIN confirm = Confirmers /\ \A p \in Confirmers: ConfirmVouched(logs, confirm[p])
  BY DEF ConfirmVouched, Idle, EvidenceInit
<1> QED BY <1>2, <1>5, <1>6 DEF VouchedInv

LEMMA ClaimsBacked == LogsInv /\ VouchedInv => Backed
<1> SUFFICES ASSUME LogsInv, VouchedInv, NEW id \in Ids, NEW x \in Claims(id)
             PROVE  /\ Readable(x[1])
                    /\ Cardinality({y \in Claims(id): logs[y[1]] = logs[x[1]]}) <=
                       Cardinality({i \in DOMAIN sent:
                         sent[i] = [entry |-> id, parameters |-> x[2], frame |-> logs[x[1]].frame]})
  BY DEF Backed
<1>1. Vouched(logs, id, table.rows[id])
  BY DEF VouchedInv, FileVouched, RowsVouched
<1>2. \A y \in Claims(id): y = <<y[1], y[2]>> /\ Sound(logs, id, y[1]) /\ logs[y[1]].parameters = y[2]
  <2> TAKE y \in Claims(id)
  <2>1. PICK c \in Citations(table.rows[id]):
          y = <<Cited(table.rows[id], c).log, table.rows[id].observations[c[1]].parameters>>
    BY DEF Claims
  <2> QED BY <1>1, <2>1 DEF Vouched
<1>3. PICK f \in [WholeLogs(logs) -> 1..Len(sent)]: Covers(f, logs, sent)
  BY DEF LogsInv
<1>4. Len(sent) \in Nat /\ DOMAIN sent = 1..Len(sent)
  BY SeqFacts DEF LogsInv
<1> DEFINE Y == {y \in Claims(id): logs[y[1]] = logs[x[1]]}
           T == {i \in DOMAIN sent: sent[i] = [entry |-> id, parameters |-> x[2], frame |-> logs[x[1]].frame]}
           g == [y \in Y |-> f[y[1]]]
<1>5. \A y \in Y: y[1] \in WholeLogs(logs) /\ y[2] = x[2] /\ logs[y[1]] = logs[x[1]] /\ y = <<y[1], y[2]>>
  BY <1>2 DEF Sound, WholeLogs
<1>6. \A y \in Y: f[y[1]] \in T
  <2> TAKE y \in Y
  <2>1. f[y[1]] \in DOMAIN sent /\ sent[f[y[1]]] = Transmission(logs[y[1]])
    BY <1>3, <1>4, <1>5 DEF Covers
  <2>2. logs[y[1]].entry = id /\ logs[y[1]].parameters = x[2] /\ logs[y[1]] = logs[x[1]]
    BY <1>2, <1>5 DEF Sound
  <2> QED BY <2>1, <2>2 DEF Transmission
<1>7. \A y, z \in Y: f[y[1]] = f[z[1]] => y = z
  BY <1>3, <1>5 DEF Covers
<1>8. IsFiniteSet(T)
  <2>1. IsFiniteSet(1..Len(sent)) /\ T \subseteq 1..Len(sent)
    BY <1>4, FS_Interval
  <2> QED BY <2>1, FS_Subset
<1> HIDE DEF Y, T
<1>9. g \in Injection(Y, T)
  BY <1>6, <1>7 DEF Injection, IsInjective
<1> HIDE DEF g
<1>10. Cardinality(Y) <= Cardinality(T)
  BY <1>8, <1>9, FS_Injection
<1> QED BY <1>2, <1>10 DEF Y, T, Sound, Readable

\* Every observation of the table cites logs of transmissions that the robot got,
\* one each. (cli.py's _run_send and _run_confirm, evidence.py's write_log)
THEOREM AllBacked == EvidenceSpec => []Backed
<1>1. LogsInv /\ VouchedInv /\ [EvidenceNext]_evidence => (LogsInv /\ VouchedInv)'
  BY LogsStep, VouchedStep
<1> QED BY <1>1, EvidenceStart, ClaimsBacked, PTL DEF EvidenceSpec
---------------------------------------------------------------------------

\* What the gate would find of a row, for any directory of logs.
Evidenced(L, id, e) ==
  /\ \A i \in DOMAIN e.observations: e.observations[i].logs # <<>>
  /\ \A c \in Citations(e):
       /\ Sound(L, id, Cited(e, c).log)
       /\ HasFrame(e) =>
            /\ BuildsAt(e, e.observations[c[1]].parameters)
            /\ L[Cited(e, c).log].frame = FrameAt(e, e.observations[c[1]].parameters)
            /\ L[Cited(e, c).log].parameters = e.observations[c[1]].parameters
  /\ \A c, d \in Citations(e): Cited(e, c).log = Cited(e, d).log => c = d
Passes(L, id, e) == StateRules(e) /\ FrameRules(e) /\ Evidenced(L, id, e)
Kept(L, id, e) ==
  Passes(L, id, e) \/ e.derivation = "blank" \/ \E c \in Citations(e): Cited(e, c).dotted

\* What a confirm has checked of a row and a log, and the table it makes of them.
Checked(L, id, e, name) ==
  /\ Sound(L, id, name) /\ HasFrame(e)
  /\ \A c \in Citations(e): Cited(e, c).log = name => Cited(e, c).dotted
  /\ BuildsAt(e, L[name].parameters) /\ L[name].frame = FrameAt(e, L[name].parameters)
Follows(L, rows, new) ==
  \E id \in Ids: \E name \in DOMAIN L:
    Checked(L, id, rows[id], name) /\ new = [rows EXCEPT ![id] = Plus(L, rows[id], name)]

\* While nobody else writes, one confirm is under way at most: what it has checked
\* still holds, and what it will put in place is the table and its observation.
ConfirmAlone(L, t, u, c) ==
  /\ (c.step = "checked" => Checked(L, c.id, t.rows[c.id], c.name))
  /\ (c.step = "loaded" => Follows(L, t.rows, c.rows))
  /\ (c.step = "opened" => c.file = "temp")
  /\ (c.step \in {"opened", "filled"} =>
       c.out.whole = TRUE /\ c.out.prose = t.prose /\ Follows(L, t.rows, c.out.rows))
  /\ (c.step = "filled" => u = c.out)
AloneInv == ~overlapped =>
  /\ table.whole = TRUE /\ \A id \in Ids: Kept(logs, id, table.rows[id])
  /\ \A p, q \in Active: p = q
  /\ \A p \in Confirmers: ConfirmAlone(logs, table, temp, confirm[p])

LEMMA GateIsPasses ==
  ASSUME NEW id, NEW e
  PROVE  ValidEntry(id, e) <=> Passes(logs, id, e)
<1>1. \A o, name: LogSupports(id, e, o, name) <=>
        /\ Sound(logs, id, name)
        /\ HasFrame(e) => /\ BuildsAt(e, o.parameters) /\ logs[name].frame = FrameAt(e, o.parameters)
                          /\ logs[name].parameters = o.parameters
  BY DEF LogSupports, Promotable, Readable, Sound
<1>2. EvidenceRules(id, e) <=> Evidenced(logs, id, e)
  BY <1>1 DEF EvidenceRules, Evidenced
<1> QED BY <1>2 DEF ValidEntry, Passes

LEMMA AloneStays ==
  ASSUME NEW L, NEW M, Keeps(L, M)
  PROVE  /\ \A id, e: Kept(L, id, e) => Kept(M, id, e)
         /\ \A id, e, name: Checked(L, id, e, name) => Checked(M, id, e, name)
         /\ \A rows, new: Follows(L, rows, new) => Follows(M, rows, new)
         /\ \A t, u, c: ConfirmAlone(L, t, u, c) => ConfirmAlone(M, t, u, c)
<1>1. \A id, name: Sound(L, id, name) => Sound(M, id, name) /\ M[name] = L[name]
  BY VouchedStays
<1>2. \A id, e: Evidenced(L, id, e) => Evidenced(M, id, e)
  BY <1>1 DEF Evidenced
<1>3. \A id, e: Kept(L, id, e) => Kept(M, id, e)
  BY <1>2 DEF Kept, Passes
<1>4. \A id, e, name: Checked(L, id, e, name) => Checked(M, id, e, name) /\ M[name] = L[name] /\ name \in DOMAIN M
  BY <1>1 DEF Checked, Sound
<1>5. \A e, name: M[name] = L[name] => Plus(L, e, name) = Plus(M, e, name)
  BY DEF Plus, Added
<1>6. \A rows, new: Follows(L, rows, new) => Follows(M, rows, new)
  <2> SUFFICES ASSUME NEW rows, NEW new, Follows(L, rows, new) PROVE Follows(M, rows, new)
    OBVIOUS
  <2>1. PICK id \in Ids: \E name \in DOMAIN L:
          Checked(L, id, rows[id], name) /\ new = [rows EXCEPT ![id] = Plus(L, rows[id], name)]
    BY DEF Follows
  <2>2. PICK name \in DOMAIN L:
          Checked(L, id, rows[id], name) /\ new = [rows EXCEPT ![id] = Plus(L, rows[id], name)]
    BY <2>1
  <2>3. /\ name \in DOMAIN M /\ Checked(M, id, rows[id], name)
        /\ new = [rows EXCEPT ![id] = Plus(M, rows[id], name)]
    <3>1. Checked(M, id, rows[id], name) /\ M[name] = L[name] /\ name \in DOMAIN M
      BY <1>4, <2>2
    <3>2. Plus(L, rows[id], name) = Plus(M, rows[id], name)
      BY <1>5, <3>1
    <3> QED BY <2>2, <3>1, <3>2
  <2> QED BY <2>3 DEF Follows
<1>7. \A t, u, c: ConfirmAlone(L, t, u, c) => ConfirmAlone(M, t, u, c)
  BY <1>4, <1>6 DEF ConfirmAlone
<1> QED BY <1>3, <1>4, <1>6, <1>7

\* The observation that confirm adds keeps the row in the gate's rules.
LEMMA PlusKept ==
  ASSUME NEW L, NEW id, NEW e, Shaped(e), Kept(L, id, e), NEW name, Checked(L, id, e, name)
  PROVE  Kept(L, id, Plus(L, e, name))
<1> DEFINE r == Plus(L, e, name)
           n == Place(e)
<1>1. /\ r.status = "confirmed" /\ r.family = e.family /\ r.payload = e.payload
      /\ r.parameters = e.parameters /\ r.derivation = e.derivation /\ r.provenance = e.provenance
  BY PlusRow
<1>2. /\ n \notin DOMAIN e.observations /\ <<n, 1>> \notin Citations(e)
      /\ DOMAIN r.observations = DOMAIN e.observations \cup {n}
      /\ \A i \in DOMAIN e.observations: r.observations[i] = e.observations[i]
      /\ r.observations[n] = Added(L, name)
      /\ Citations(r) = Citations(e) \cup {<<n, 1>>}
      /\ \A c \in Citations(e): /\ Cited(r, c) = Cited(e, c) /\ r.observations[c[1]] = e.observations[c[1]]
      /\ Cited(r, <<n, 1>>) = [log |-> name, dotted |-> FALSE]
  <2> HIDE DEF r, n
  <2>1. r = Plus(L, e, name) /\ n = Place(e)
    BY DEF r, n
  <2> QED BY <2>1, PlusPlaces
<1>3. /\ Added(L, name).parameters = L[name].parameters /\ Added(L, name).withdrawn = FALSE
      /\ Added(L, name).logs # <<>>
  BY DEF Added
<1> HIDE DEF r, n
<1>4. CASE e.derivation = "blank"
  BY <1>1, <1>4 DEF Kept, r
<1>5. ASSUME NEW c \in Citations(e), Cited(e, c).dotted PROVE Kept(L, id, r)
  BY <1>2, <1>5 DEF Kept
<1>6. CASE Passes(L, id, e) /\ e.derivation # "blank" /\ \A c \in Citations(e): ~Cited(e, c).dotted
  <2>1. StateRules(e) /\ FrameRules(e) /\ Evidenced(L, id, e) /\ HasFrame(e)
    BY <1>6 DEF Passes, Checked
  <2>2. HasFrame(r) /\ \A p: BuildsAt(r, p) = BuildsAt(e, p) /\ FrameAt(r, p) = FrameAt(e, p)
    BY <1>1, <2>1 DEF HasFrame, BuildsAt, FrameAt
  <2>3. n \in Live(r)
    BY <1>2, <1>3 DEF Live
  <2>4. StateRules(r)
    BY <1>1, <1>6, <2>1, <2>2, <2>3 DEF StateRules, HasFrame, Shaped, Statuses
  <2>5. FrameRules(r)
    BY <1>1, <2>1, <2>2 DEF FrameRules
  <2>6. \A i \in DOMAIN r.observations: r.observations[i].logs # <<>>
    BY <1>2, <1>3, <2>1 DEF Evidenced
  <2>7. \A c \in Citations(r):
          /\ Sound(L, id, Cited(r, c).log)
          /\ BuildsAt(r, r.observations[c[1]].parameters)
          /\ L[Cited(r, c).log].frame = FrameAt(r, r.observations[c[1]].parameters)
          /\ L[Cited(r, c).log].parameters = r.observations[c[1]].parameters
    BY <1>2, <1>3, <2>1, <2>2 DEF Evidenced, Checked
  <2>8. \A c \in Citations(e): Cited(e, c).log # name
    BY <1>6 DEF Checked
  <2>9. \A c, d \in Citations(r): Cited(r, c).log = Cited(r, d).log => c = d
    BY <1>2, <2>1, <2>8 DEF Evidenced
  <2> QED BY <2>4, <2>5, <2>6, <2>7, <2>9 DEF Kept, Passes, Evidenced, r
<1> QED BY <1>4, <1>5, <1>6 DEF Kept, r

EvidenceInv == LogsInv /\ VouchedInv /\ AloneInv /\ edits \in Nat

LEMMA AloneStep ==
  ASSUME EvidenceInv, [EvidenceNext]_evidence
  PROVE  /\ AloneInv'
         /\ (~overlapped' /\ edits' = edits =>
              \/ UNCHANGED table
              \/ table'.prose = table.prose /\ Follows(logs, table.rows, table'.rows))
<1> SUFFICES ASSUME ~overlapped'
             PROVE  /\ AloneInv'
                    /\ (edits' = edits =>
                         \/ UNCHANGED table
                         \/ table'.prose = table.prose /\ Follows(logs, table.rows, table'.rows))
  BY DEF AloneInv
<1> DEFINE Goal == /\ AloneInv'
                   /\ (edits' = edits =>
                        \/ UNCHANGED table
                        \/ table'.prose = table.prose /\ Follows(logs, table.rows, table'.rows))
<1>1. ~overlapped
  BY DEF EvidenceNext, evidence, BuildSend, BuildRaw, Transmit, OpenLog, FillLog, KillSend, Check, LoadRows,
         OpenTemp, FillTemp, Replace, KillConfirm, EditRow, EditProse
<1>2. Keeps(logs, logs') /\ VouchedInv
  BY LogsStep DEF EvidenceInv
<1>3. /\ table.whole = TRUE /\ \A id \in Ids: Kept(logs, id, table.rows[id])
      /\ \A p, q \in Active: p = q
      /\ \A p \in Confirmers: ConfirmAlone(logs, table, temp, confirm[p])
      /\ DOMAIN confirm = Confirmers
  BY <1>1, <1>2 DEF EvidenceInv, AloneInv, VouchedInv
<1>4. /\ \A id \in Ids: Kept(logs', id, table.rows[id])
      /\ \A p \in Confirmers: ConfirmAlone(logs', table, temp, confirm[p])
  BY <1>2, <1>3, AloneStays
<1>5. ASSUME UNCHANGED <<table, temp, confirm>> PROVE Goal
  BY <1>3, <1>4, <1>5 DEF AloneInv, Active
\* One confirm moves, the others are idle.
<1>6. ASSUME NEW p \in Confirmers, confirm[p].step # "idle",
             DOMAIN confirm' = Confirmers, \A q \in Confirmers: q # p => confirm'[q] = confirm[q],
             table'.whole = TRUE, \A id \in Ids: Kept(logs', id, table'.rows[id]),
             ConfirmAlone(logs', table', temp', confirm'[p])
      PROVE  AloneInv'
  <2>1. \A q \in Confirmers: q # p => confirm[q].step = "idle"
    BY <1>3, <1>6 DEF Active
  <2>2. \A q \in Confirmers: q # p => confirm'[q].step = "idle"
    BY <1>6, <2>1
  <2>3. \A q \in Confirmers: ConfirmAlone(logs', table', temp', confirm'[q])
    BY <1>6, <2>2 DEF ConfirmAlone
  <2>4. \A q, r \in Active': q = r
    BY <2>2 DEF Active
  <2> QED BY <1>6, <2>3, <2>4 DEF AloneInv
\* Nobody is at work, and a hand edits the table.
<1>7. ASSUME Active = {}, confirm' = confirm,
             table'.whole = TRUE, \A id \in Ids: Kept(logs', id, table'.rows[id])
      PROVE  AloneInv'
  <2>1. \A q \in Confirmers: confirm'[q].step = "idle"
    BY <1>7 DEF Active
  <2>2. \A q \in Confirmers: ConfirmAlone(logs', table', temp', confirm'[q])
    BY <2>1 DEF ConfirmAlone
  <2>3. Active' = {}
    BY <2>1 DEF Active
  <2> QED BY <1>7, <2>2, <2>3 DEF AloneInv
<1>8. CASE BuildSend \/ BuildRaw \/ Transmit \/ OpenLog \/ FillLog \/ KillSend \/ UNCHANGED evidence
  BY <1>5, <1>8 DEF BuildSend, BuildRaw, Transmit, OpenLog, FillLog, KillSend, evidence
<1>9. ASSUME NEW p \in Confirmers, NEW id \in Ids, NEW name \in DOMAIN logs, Check(p, id, name)
      PROVE  Goal
  <2> DEFINE c == [step |-> "checked", id |-> id, name |-> name]
  <2>1. confirm' = [confirm EXCEPT ![p] = c] /\ UNCHANGED <<table, temp, logs>> /\ Active = {}
    BY <1>1, <1>9 DEF Check
  <2>2. Checked(logs, id, table.rows[id], name)
    BY <1>9 DEF Check, Checked, Sound, Promotable, Readable
  <2>3. ConfirmAlone(logs', table', temp', c)
    BY <2>1, <2>2 DEF ConfirmAlone
  <2> HIDE DEF c
  <2>4. \A q \in Confirmers: confirm'[q] = IF q = p THEN c ELSE confirm[q]
    BY <1>3, <2>1
  <2>5. \A q \in Confirmers: q # p => confirm'[q].step = "idle"
    BY <2>1, <2>4 DEF Active
  <2>6. \A q \in Confirmers: ConfirmAlone(logs', table', temp', confirm'[q])
    BY <2>3, <2>4, <2>5 DEF ConfirmAlone
  <2>7. \A q, r \in Active': q = r
    BY <2>5 DEF Active
  <2> QED BY <1>3, <1>4, <2>1, <2>6, <2>7 DEF AloneInv
<1>10. ASSUME NEW p \in Confirmers, LoadRows(p) PROVE Goal
  <2> DEFINE id == confirm[p].id
             name == confirm[p].name
             rows == [table.rows EXCEPT ![id] = Plus(logs, table.rows[id], name)]
             c == [step |-> "loaded", rows |-> rows]
  <2>1. confirm' = [confirm EXCEPT ![p] = c] /\ UNCHANGED <<table, temp, logs>> /\ confirm[p].step = "checked"
    BY <1>10 DEF LoadRows, Confirmed, Observation, Plus, Added
  <2>2. id \in Ids /\ Checked(logs, id, table.rows[id], name) /\ name \in DOMAIN logs
    BY <1>2, <1>3, <2>1 DEF VouchedInv, ConfirmVouched, ConfirmAlone, Sound
  <2> HIDE DEF id, name
  <2>3. Follows(logs, table.rows, rows)
    BY <2>2 DEF Follows
  <2> HIDE DEF rows
  <2>4. ConfirmAlone(logs', table', temp', c)
    BY <2>1, <2>3 DEF ConfirmAlone
  <2>5. confirm'[p] = c /\ DOMAIN confirm' = Confirmers /\ \A q \in Confirmers: q # p => confirm'[q] = confirm[q]
    BY <1>3, <2>1
  <2> HIDE DEF c
  <2> QED BY <1>3, <1>4, <1>6, <2>1, <2>4, <2>5
<1>11. ASSUME NEW p \in Confirmers, OpenTemp(p) PROVE Goal
  <2> DEFINE out == [whole |-> TRUE, prose |-> table.prose, rows |-> confirm[p].rows]
             c == [step |-> "opened", file |-> "temp", out |-> out]
  <2>1. confirm' = [confirm EXCEPT ![p] = c] /\ UNCHANGED <<table, logs>> /\ confirm[p].step = "loaded"
    BY <1>11 DEF OpenTemp
  <2>2. Follows(logs, table.rows, confirm[p].rows)
    BY <1>3, <2>1 DEF ConfirmAlone
  <2>3. ConfirmAlone(logs', table', temp', c)
    BY <2>1, <2>2 DEF ConfirmAlone
  <2>4. confirm'[p] = c /\ DOMAIN confirm' = Confirmers /\ \A q \in Confirmers: q # p => confirm'[q] = confirm[q]
    BY <1>3, <2>1
  <2> HIDE DEF c
  <2> QED BY <1>3, <1>4, <1>6, <2>1, <2>3, <2>4
<1>12. ASSUME NEW p \in Confirmers, FillTemp(p) PROVE Goal
  <2> DEFINE out == confirm[p].out
             c == [step |-> "filled", out |-> out]
  <2>1. confirm' = [confirm EXCEPT ![p] = c] /\ logs' = logs /\ confirm[p].step = "opened"
    BY <1>12 DEF FillTemp
  <2>2. confirm[p].file = "temp" /\ out.whole = TRUE /\ out.prose = table.prose /\ Follows(logs, table.rows, out.rows)
    BY <1>3, <2>1 DEF ConfirmAlone
  <2>3. table' = table /\ temp' = out
    BY <1>12, <2>2 DEF FillTemp
  <2> HIDE DEF out
  <2>4. ConfirmAlone(logs', table', temp', c)
    BY <2>1, <2>2, <2>3 DEF ConfirmAlone
  <2>5. confirm'[p] = c /\ DOMAIN confirm' = Confirmers /\ \A q \in Confirmers: q # p => confirm'[q] = confirm[q]
    BY <1>3, <2>1
  <2> HIDE DEF c
  <2> QED BY <1>3, <1>4, <1>6, <2>1, <2>3, <2>4, <2>5
<1>13. ASSUME NEW p \in Confirmers, Replace(p) PROVE Goal
  <2>1. /\ confirm[p].step = "filled" /\ temp = confirm[p].out /\ temp.whole = TRUE /\ temp.prose = table.prose
        /\ Follows(logs, table.rows, temp.rows) /\ logs' = logs
    BY <1>3, <1>13 DEF Replace, ConfirmAlone
  <2>2. temp # Gone
    BY <2>1 DEF Gone
  <2>3. table' = temp
    BY <1>13, <2>2 DEF Replace
  <2>4. PICK id \in Ids: \E name \in DOMAIN logs:
          Checked(logs, id, table.rows[id], name) /\ temp.rows = [table.rows EXCEPT ![id] = Plus(logs, table.rows[id], name)]
    BY <2>1 DEF Follows
  <2>5. PICK name \in DOMAIN logs:
          Checked(logs, id, table.rows[id], name) /\ temp.rows = [table.rows EXCEPT ![id] = Plus(logs, table.rows[id], name)]
    BY <2>4
  <2>6. Shaped(table.rows[id]) /\ DOMAIN table.rows = Ids
    BY <1>2 DEF VouchedInv, FileVouched, RowsVouched
  <2>7. Kept(logs, id, Plus(logs, table.rows[id], name))
    BY <1>3, <2>5, <2>6, PlusKept
  <2>8. \A i \in Ids: table'.rows[i] = IF i = id THEN Plus(logs, table.rows[id], name) ELSE table.rows[i]
    BY <2>3, <2>5, <2>6
  <2>9. \A i \in Ids: Kept(logs', i, table'.rows[i])
    BY <1>3, <2>1, <2>7, <2>8
  <2>10. DOMAIN confirm' = Confirmers /\ confirm'[p] = Idle /\ \A q \in Confirmers: q # p => confirm'[q] = confirm[q]
    <3>1. \A q \in Confirmers: q # p => confirm[q].step = "idle"
      BY <1>3, <2>1 DEF Active
    <3>2. \A q \in Confirmers: q # p => Renamed(confirm[q]) = confirm[q]
      BY <3>1 DEF Renamed
    <3> QED BY <1>13, <2>2, <3>2 DEF Replace
  <2>11. ConfirmAlone(logs', table', temp', confirm'[p])
    BY <2>10 DEF ConfirmAlone, Idle
  <2>12. AloneInv'
    BY <1>6, <2>1, <2>3, <2>9, <2>10, <2>11
  <2> QED BY <2>1, <2>3, <2>12
<1>14. ASSUME NEW p \in Confirmers, KillConfirm(p) PROVE Goal
  <2>1. confirm' = [confirm EXCEPT ![p] = Idle] /\ UNCHANGED <<table, temp>> /\ confirm[p].step # "idle"
    BY <1>14 DEF KillConfirm
  <2>2. confirm'[p] = Idle /\ DOMAIN confirm' = Confirmers /\ \A q \in Confirmers: q # p => confirm'[q] = confirm[q]
    BY <1>3, <2>1
  <2>3. ConfirmAlone(logs', table', temp', confirm'[p])
    BY <2>2 DEF ConfirmAlone, Idle
  <2> QED BY <1>3, <1>4, <1>6, <2>1, <2>2, <2>3
<1>15. CASE EditRow
  <2>0. PICK id \in Ids: \E r \in Revisions(table.rows[id]):
          ValidEntry(id, r) /\ table' = [table EXCEPT !.rows[id] = r]
    BY <1>15 DEF EditRow
  <2>1. PICK e \in Revisions(table.rows[id]):
          ValidEntry(id, e) /\ table' = [table EXCEPT !.rows[id] = e]
    BY <2>0
  <2>2. /\ DOMAIN table = {"whole", "prose", "rows"} /\ DOMAIN table.rows = Ids
        /\ UNCHANGED <<confirm, logs>> /\ Active = {}
    BY <1>1, <1>2, <1>15 DEF VouchedInv, EditRow, FileVouched, RowsVouched
  <2>3. Kept(logs, id, e)
    BY <2>1, GateIsPasses DEF Kept
  <2>4. table'.whole = table.whole /\ \A i \in Ids: table'.rows[i] = IF i = id THEN e ELSE table.rows[i]
    BY <2>1, <2>2
  <2>5. edits' # edits
    BY <1>15 DEF EditRow, EvidenceInv
  <2> QED BY <1>3, <1>7, <2>2, <2>3, <2>4, <2>5
<1>16. CASE EditProse
  <2>1. /\ table' = [table EXCEPT !.prose = @ + 1] /\ UNCHANGED <<confirm, logs>> /\ Active = {}
        /\ DOMAIN table = {"whole", "prose", "rows"}
    BY <1>1, <1>2, <1>16 DEF VouchedInv, EditProse, FileVouched
  <2>2. table'.whole = table.whole /\ table'.rows = table.rows
    BY <2>1
  <2>3. edits' # edits
    BY <1>16 DEF EditProse, EvidenceInv
  <2> QED BY <1>3, <1>7, <2>1, <2>2, <2>3
<1> QED
  BY <1>8, <1>9, <1>10, <1>11, <1>12, <1>13, <1>14, <1>15, <1>16 DEF EvidenceNext

LEMMA EvidenceStep == EvidenceInv /\ [EvidenceNext]_evidence => EvidenceInv'
<1> SUFFICES ASSUME EvidenceInv, [EvidenceNext]_evidence PROVE EvidenceInv'
  OBVIOUS
<1>1. edits' \in Nat
  BY DEF EvidenceInv, EvidenceNext, evidence, BuildSend, BuildRaw, Transmit, OpenLog, FillLog, KillSend, Check,
         LoadRows, OpenTemp, FillTemp, Replace, KillConfirm, EditRow, EditProse
<1> QED BY <1>1, LogsStep, VouchedStep, AloneStep DEF EvidenceInv

LEMMA EvidenceHolds == EvidenceInit => EvidenceInv
<1> SUFFICES ASSUME EvidenceInit PROVE EvidenceInv
  OBVIOUS
<1>1. \A id \in Ids: Kept(logs, id, FirstRows[id])
  <2> TAKE id \in Ids
  <2>1. /\ FirstRows[id].observations = <<>>
        /\ StateRules(FirstRows[id]) /\ FrameRules(FirstRows[id])
    BY FirstRowsAssumption
  <2>2. Citations(FirstRows[id]) = {}
    BY <2>1, CitationPlaces
  <2>3. Evidenced(logs, id, FirstRows[id])
    BY <2>1, <2>2 DEF Evidenced
  <2> QED BY <2>1, <2>3 DEF Kept, Passes
<1>2. \A p \in Confirmers: confirm[p].step = "idle"
  BY DEF EvidenceInit, Idle
<1>3. Active = {} /\ \A p \in Confirmers: ConfirmAlone(logs, table, temp, confirm[p])
  BY <1>2 DEF Active, ConfirmAlone
<1>4. table.whole = TRUE /\ table.rows = FirstRows /\ edits = 0
  BY DEF EvidenceInit
<1>5. AloneInv
  BY <1>1, <1>3, <1>4 DEF AloneInv
<1> QED BY <1>4, <1>5, EvidenceStart DEF EvidenceInv

\* A confirm leaves the table as the gate passes it, whatever was sent, edited
\* or killed before, but for blank derivations and respelled citations, unless
\* something else wrote meanwhile. (cli.py's _run_confirm, table.py's validate_entry)
THEOREM GateHolds == EvidenceSpec => []GateKept
<1>1. EvidenceInv => GateKept
  <2> SUFFICES ASSUME EvidenceInv, ~overlapped PROVE GateKept
    BY DEF GateKept
  <2>1. table.whole = TRUE /\ \A id \in Ids: Kept(logs, id, table.rows[id])
    BY DEF EvidenceInv, AloneInv
  <2>2. \A id \in Ids: \/ ValidEntry(id, table.rows[id])
                       \/ table.rows[id].derivation = "blank"
                       \/ \E c \in Citations(table.rows[id]): Cited(table.rows[id], c).dotted
    BY <2>1, GateIsPasses DEF Kept
  <2> QED BY <2>1, <2>2 DEF GateKept
<1> QED BY <1>1, EvidenceHolds, EvidenceStep, PTL DEF EvidenceSpec

LEMMA PrefixFacts ==
  ASSUME NEW s, IsSeq(s), NEW x
  PROVE  IsPrefix(s, s) /\ IsPrefix(s, Append(s, x))
<1> DEFINE S == {s[i] : i \in DOMAIN s} \cup {x}
<1>1. s \in Seq(S) /\ x \in S
  BY DEF IsSeq
<1> HIDE DEF S
<1> QED BY <1>1 DEF IsPrefix

Differ(rows, new) == {id \in Ids: new[id] # rows[id]}

\* What follows from the table differs in one row, and only extends what it observed.
LEMMA OneRowGrows ==
  ASSUME NEW L, NEW rows, NEW new, RowsVouched(L, rows), Follows(L, rows, new)
  PROVE  /\ \A id \in Ids: IsPrefix(rows[id].observations, new[id].observations)
         /\ Cardinality(Differ(rows, new)) <= 1
<1>1. PICK id \in Ids: \E name \in DOMAIN L: new = [rows EXCEPT ![id] = Plus(L, rows[id], name)]
  BY DEF Follows
<1>2. PICK name \in DOMAIN L: new = [rows EXCEPT ![id] = Plus(L, rows[id], name)]
  BY <1>1
<1>3. DOMAIN rows = Ids /\ \A i \in Ids: Shaped(rows[i])
  BY DEF RowsVouched
<1>4. \A i \in Ids: new[i] = IF i = id THEN Plus(L, rows[id], name) ELSE rows[i]
  BY <1>2, <1>3
<1>5. \A s: IsSeq(s) => IsPrefix(s, s) /\ \A x: IsPrefix(s, Append(s, x))
  BY PrefixFacts
<1>6. \A i \in Ids: IsPrefix(rows[i].observations, new[i].observations)
  <2> TAKE i \in Ids
  <2>1. IsSeq(rows[i].observations)
    BY <1>3 DEF Shaped
  <2>2. Plus(L, rows[id], name).observations = Append(rows[id].observations, Added(L, name))
    BY <1>3, PlusRow
  <2> QED BY <1>4, <1>5, <2>1, <2>2
<1>7. Differ(rows, new) \in SUBSET {id}
  BY <1>4 DEF Differ
<1>8. IsFiniteSet({id}) /\ Cardinality({id}) = 1
  BY FS_Singleton
<1>9. Cardinality(Differ(rows, new)) <= 1
  BY <1>7, <1>8, FS_Subset
<1> QED BY <1>6, <1>9

\* A confirm that nobody disturbs adds one observation to one row of the table
\* and keeps the rest, the prose above the rows too. (cli.py's _run_confirm,
\* table.py's save_table)
THEOREM AppendsOnly == EvidenceSpec => OnlyAppends
<1>1. EvidenceInv /\ [EvidenceNext]_evidence =>
        [ (overlapped' \/ edits' # edits) \/
            /\ table'.prose = table.prose
            /\ \A id \in Ids: IsPrefix(table.rows[id].observations, table'.rows[id].observations)
            /\ Cardinality({id \in Ids: table'.rows[id] # table.rows[id]}) <= 1 ]_evidence
  <2> SUFFICES ASSUME EvidenceInv, [EvidenceNext]_evidence, ~overlapped', edits' = edits
               PROVE  /\ table'.prose = table.prose
                      /\ \A id \in Ids: IsPrefix(table.rows[id].observations, table'.rows[id].observations)
                      /\ Cardinality({id \in Ids: table'.rows[id] # table.rows[id]}) <= 1
    OBVIOUS
  <2>1. RowsVouched(logs, table.rows)
    BY DEF EvidenceInv, VouchedInv, FileVouched
  <2>2. CASE table'.prose = table.prose /\ Follows(logs, table.rows, table'.rows)
    <3>1. /\ \A id \in Ids: IsPrefix(table.rows[id].observations, table'.rows[id].observations)
          /\ Cardinality(Differ(table.rows, table'.rows)) <= 1
      BY <2>1, <2>2, OneRowGrows
    <3> QED BY <2>2, <3>1 DEF Differ
  <2>3. CASE table' = table
    <3>1. \A id \in Ids: IsPrefix(table.rows[id].observations, table'.rows[id].observations)
      BY <2>1, <2>3, PrefixFacts DEF RowsVouched, Shaped
    <3>2. {id \in Ids: table'.rows[id] # table.rows[id]} = {}
      BY <2>3
    <3> QED BY <2>3, <3>1, <3>2, FS_EmptySet
  <2> QED BY <2>2, <2>3, AloneStep
<1> QED BY <1>1, EvidenceHolds, EvidenceStep, PTL DEF EvidenceSpec, OnlyAppends

---------------------------------------------------------------------------
(* The audio of a body, for any sizes of chunks, reads, frames and blocks. *)

LEMMA Division ==
  ASSUME NEW n \in Nat, NEW size \in Nat \ {0}, NEW q, q = n \div size
  PROVE  /\ q \in Nat /\ q * size \in Nat /\ q * size <= n /\ n - q * size < size
         /\ n % size = n - q * size
<1>1. q \in Nat /\ q * size \in Nat
  OBVIOUS
<1>2. (n \div size) * size <= n
  OBVIOUS
<1>3. n - (n \div size) * size = n % size /\ n % size < size
  OBVIOUS
<1> QED BY <1>1, <1>2, <1>3

LEMMA Multiples ==
  ASSUME NEW size \in Nat \ {0}, NEW q \in Nat, NEW i \in 1..q
  PROVE  /\ (i - 1) * size \in Nat /\ i * size = (i - 1) * size + size
         /\ i * size <= q * size
<1>1. i * size = (i - 1) * size + size /\ (i - 1) * size \in Nat
  OBVIOUS
<1>2. q * size = i * size + (q - i) * size /\ (q - i) * size \in Nat
  OBVIOUS
<1>3. i * size \in Nat
  OBVIOUS
<1> QED BY <1>1, <1>2, <1>3

LEMMA Remainder ==
  ASSUME NEW k \in Nat, NEW size \in Nat \ {0}, NEW b \in Nat, b < size
  PROVE  (k * size + b) % size = b
<1> DEFINE m == k * size
           n == m + b
           q == n \div size
           d == q * size
<1>1. m \in Nat
  OBVIOUS
<1> HIDE DEF m
<1>2. n \in Nat
  BY <1>1
<1> HIDE DEF n
<1>3. q \in Nat /\ d \in Nat /\ d <= n /\ n - d < size /\ n % size = n - d
  BY <1>2, Division
<1> HIDE DEF q
<1>4. CASE q = k
  BY <1>1, <1>3, <1>4 DEF m, n
<1>5. CASE q < k
  <2>1. m = d + (k - q) * size /\ (k - q) * size >= size
    BY <1>3, <1>5 DEF m
  <2> DEFINE e == (k - q) * size
  <2>2. e \in Int
    BY <1>3
  <2> HIDE DEF d, e
  <2>3. m >= d + size
    BY <1>1, <1>3, <2>1, <2>2 DEF e
  <2> QED BY <1>1, <1>3, <2>3 DEF n
<1>6. CASE q > k
  <2>1. d = m + (q - k) * size /\ (q - k) * size >= size
    BY <1>3, <1>6 DEF m
  <2> DEFINE e == (q - k) * size
  <2>2. e \in Int
    BY <1>3
  <2> HIDE DEF d, e
  <2>3. d >= m + size
    BY <1>1, <1>3, <2>1, <2>2 DEF e
  <2> QED BY <1>1, <1>3, <2>3 DEF n
<1>7. q = k \/ q < k \/ q > k
  BY <1>3
<1> QED BY <1>4, <1>5, <1>6, <1>7 DEF m, n

LEMMA FromFacts ==
  ASSUME NEW n \in Nat, NEW l \in Nat
  PROVE  From(n, l) \in Seq(Nat) /\ Len(From(n, l)) = l /\ \A k \in 1..l: From(n, l)[k] = n + k
BY DEF From

LEMMA FromJoin ==
  ASSUME NEW n \in Nat, NEW l \in Nat, NEW m \in Nat
  PROVE  From(n, l) \o From(n + l, m) = From(n, l + m)
BY DEF From

\* Cut in pieces of the size, a sequence keeps every element at its place.
IsCut(S, s, size, q) ==
  /\ q \in Nat /\ q * size \in Nat /\ Pieces(s, size) \in Seq(Seq(S)) /\ Len(Pieces(s, size)) = q
  /\ \A i \in 1..q: /\ (i - 1) * size \in Nat /\ i * size <= Len(s)
                    /\ Pieces(s, size)[i] = SubSeq(s, (i - 1) * size + 1, i * size)
                    /\ Len(Pieces(s, size)[i]) = size
                    /\ \A j \in 1..size: Pieces(s, size)[i][j] = s[(i - 1) * size + j]
  /\ Rest(s, size) \in Seq(S) /\ Len(Rest(s, size)) = Len(s) - q * size
  /\ Len(Rest(s, size)) < size
  /\ \A j \in 1..Len(Rest(s, size)): Rest(s, size)[j] = s[q * size + j]

LEMMA Cut ==
  ASSUME NEW S, NEW s \in Seq(S), NEW size \in Nat \ {0}, NEW q, q = Len(s) \div size
  PROVE  IsCut(S, s, size, q)
<1>0. Len(s) \in Nat
  OBVIOUS
<1>1. /\ q \in Nat /\ q * size \in Nat /\ q * size <= Len(s) /\ Len(s) - q * size < size
      /\ Len(s) % size = Len(s) - q * size
  BY <1>0, Division
<1>2. \A i \in 1..q: /\ (i - 1) * size \in Nat /\ i * size = (i - 1) * size + size /\ i * size <= Len(s)
                     /\ i * size \in Nat
  BY <1>1, Multiples
<1>4. \A i \in 1..q: /\ Pieces(s, size)[i] = SubSeq(s, (i - 1) * size + 1, i * size)
                     /\ Pieces(s, size)[i] \in Seq(S) /\ Len(Pieces(s, size)[i]) = size
                     /\ \A j \in 1..size: Pieces(s, size)[i][j] = s[(i - 1) * size + j]
  <2> TAKE i \in 1..q
  <2>1. Pieces(s, size)[i] = SubSeq(s, (i - 1) * size + 1, i * size)
    BY DEF Pieces
  <2> DEFINE a == (i - 1) * size
             b == i * size
  <2>2. a \in Nat /\ b \in Nat /\ b = a + size /\ b <= Len(s)
    BY <1>2
  <2>3. Pieces(s, size)[i] = SubSeq(s, a + 1, b)
    BY <2>1
  <2> HIDE DEF a, b
  <2>4. /\ SubSeq(s, a + 1, b) \in Seq(S) /\ Len(SubSeq(s, a + 1, b)) = size
        /\ \A j \in 1..size: SubSeq(s, a + 1, b)[j] = s[a + j]
    <3>1. a \in Nat /\ b = a + size /\ a + size <= Len(s) /\ s \in Seq(S) /\ Len(s) \in Nat
      BY <1>0, <2>2
    <3>2. SubSeq(s, a + 1, b) \in Seq(S)
      BY <3>1
    <3>3. Len(SubSeq(s, a + 1, b)) = size
      BY <3>1
    <3>4. \A j \in 1..size: SubSeq(s, a + 1, b)[j] = s[a + j]
      BY <3>1
    <3> QED BY <3>2, <3>3, <3>4
  <2> QED BY <2>1, <2>3, <2>4 DEF a
<1>5. Pieces(s, size) \in Seq(Seq(S)) /\ Len(Pieces(s, size)) = q
  <2>1. Pieces(s, size) = [i \in 1..q |-> Pieces(s, size)[i]]
    BY DEF Pieces
  <2>2. \A i \in 1..q: Pieces(s, size)[i] \in Seq(S)
    BY <1>4
  <2> DEFINE T == Seq(S)
  <2>3. \A i \in 1..q: Pieces(s, size)[i] \in T
    BY <2>2
  <2> HIDE DEF T
  <2>4. DOMAIN Pieces(s, size) = 1..q
    BY DEF Pieces
  <2>5. Pieces(s, size) \in [1..q -> T]
    BY <2>1, <2>3
  <2>6. Pieces(s, size) \in Seq(T) /\ Len(Pieces(s, size)) = q
    BY <1>1, <2>4, <2>5
  <2> QED BY <2>6 DEF T
<1>6. /\ Rest(s, size) \in Seq(S) /\ Len(Rest(s, size)) = Len(s) - q * size
      /\ \A j \in 1..Len(Rest(s, size)): Rest(s, size)[j] = s[q * size + j]
  <2> DEFINE a == q * size
  <2>1. Rest(s, size) = SubSeq(s, a + 1, Len(s))
    BY DEF Rest
  <2>2. a \in Nat /\ Len(s) \in Nat /\ a <= Len(s)
    BY <1>0, <1>1
  <2> HIDE DEF a
  <2>3. /\ Rest(s, size) \in Seq(S) /\ Len(Rest(s, size)) = Len(s) - a
        /\ \A j \in 1..Len(Rest(s, size)): Rest(s, size)[j] = s[a + j]
    <3> DEFINE r == Rest(s, size)
    <3>1. r = SubSeq(s, a + 1, Len(s)) /\ s \in Seq(S)
      BY <2>1
    <3> HIDE DEF r
    <3>2. r \in Seq(S) /\ Len(r) = Len(s) - a
      BY <2>2, <3>1
    <3>3. \A j \in 1..(Len(s) - a): r[j] = s[a + j]
      BY <2>2, <3>1
    <3> QED BY <3>2, <3>3 DEF r
  <2> QED BY <2>3 DEF a
<1> QED BY <1>0, <1>1, <1>2, <1>4, <1>5, <1>6 DEF IsCut

\* A run of the body's bytes, cut into frames, is a run of its frames.
IsFramed(n, m, p, r) ==
  /\ Frames(p) \in Seq(Seq(Nat)) /\ FramesFrom(n, Frames(p))
  /\ r \in Seq(Nat) /\ Len(r) < FrameBytes
  /\ r = From((n + Len(Frames(p))) * FrameBytes, Len(r))
  /\ n * FrameBytes + m = (n + Len(Frames(p))) * FrameBytes + Len(r)

LEMMA CutFrames ==
  ASSUME NEW n \in Nat, NEW m \in Nat, NEW p, p = From(n * FrameBytes, m), NEW r, r = Rest(p, FrameBytes)
  PROVE  IsFramed(n, m, p, r)
<1> DEFINE q == Len(p) \div FrameBytes
<1>1. FrameBytes \in Nat \ {0}
  BY AudioAssumption
<1>2. n * FrameBytes \in Nat
  BY <1>1
<1>3. p \in Seq(Nat) /\ Len(p) = m /\ \A k \in 1..m: p[k] = n * FrameBytes + k
  BY <1>2, FromFacts
<1>4. /\ q \in Nat /\ q * FrameBytes \in Nat /\ Frames(p) \in Seq(Seq(Nat)) /\ Len(Frames(p)) = q
      /\ \A i \in 1..q: /\ (i - 1) * FrameBytes \in Nat /\ i * FrameBytes <= m
                        /\ Frames(p)[i] = SubSeq(p, (i - 1) * FrameBytes + 1, i * FrameBytes)
      /\ r \in Seq(Nat) /\ Len(r) = m - q * FrameBytes /\ Len(r) < FrameBytes
      /\ \A j \in 1..Len(r): r[j] = p[q * FrameBytes + j]
  <2> HIDE DEF q
  <2>1. q = Len(p) \div FrameBytes
    BY DEF q
  <2> DEFINE z == FrameBytes
             P == Pieces(p, z)
             R == Rest(p, z)
  <2>2. P = Frames(p) /\ R = r /\ z \in Nat \ {0} /\ q = Len(p) \div z
    BY <1>1, <2>1 DEF Frames
  <2> HIDE DEF z
  <2>3. /\ q \in Nat /\ q * z \in Nat /\ P \in Seq(Seq(Nat)) /\ Len(P) = q
        /\ \A i \in 1..q: /\ (i - 1) * z \in Nat /\ i * z <= Len(p)
                          /\ P[i] = SubSeq(p, (i - 1) * z + 1, i * z)
        /\ R \in Seq(Nat) /\ Len(R) = Len(p) - q * z /\ Len(R) < z
        /\ \A j \in 1..Len(R): R[j] = p[q * z + j]
    <3>1. IsCut(Nat, p, z, q)
      BY <1>3, <2>2, Cut
    <3> QED BY <3>1 DEF IsCut
  <2> HIDE DEF P, R
  <2> QED BY <1>3, <2>2, <2>3 DEF z
<1> HIDE DEF q
<1>5. ASSUME NEW i \in 1..q PROVE Frames(p)[i] = From((n + i - 1) * FrameBytes, FrameBytes)
  <2> DEFINE a == (i - 1) * FrameBytes
             b == i * FrameBytes
  <2>0. a \in Nat /\ b \in Nat /\ b = a + FrameBytes /\ b <= m
    <3>1. a \in Nat /\ b = a + FrameBytes
      BY <1>1, <1>4, Multiples
    <3>2. b <= m
      BY <1>4
    <3> HIDE DEF a, b
    <3> QED BY <1>1, <3>1, <3>2
  <2>1. a \in Nat /\ b \in Nat /\ a <= b /\ b - a = FrameBytes /\ b <= m
    <3> HIDE DEF a, b
    <3> QED BY <1>1, <2>0
  <2>2. n * FrameBytes + a = (n + i - 1) * FrameBytes
    BY <1>1, <1>4
  <2> HIDE DEF a, b
  <2>3. SubSeq(p, a + 1, b) = From(n * FrameBytes + a, FrameBytes)
    <3> DEFINE c == n * FrameBytes
    <3>1. c \in Nat
      BY <1>2
    <3> HIDE DEF c
    <3> DEFINE f == a + 1
               g == c + a
    <3>2. f \in Nat \ {0} /\ f <= b + 1 /\ b <= m /\ g = c + f - 1 /\ FrameBytes = b - f + 1
      BY <1>1, <2>1, <3>1
    <3> HIDE DEF f, g
    <3>3. SubSeq(From(c, m), f, b) = From(g, FrameBytes)
      BY <2>1, <3>1, <3>2 DEF From
    <3>4. p = From(c, m)
      BY DEF c
    <3> QED BY <3>3, <3>4 DEF c, f, g
  <2> QED BY <1>4, <2>2, <2>3 DEF a, b
<1>6. FramesFrom(n, Frames(p))
  BY <1>4, <1>5 DEF FramesFrom
<1>7. (n + q) * FrameBytes = n * FrameBytes + q * FrameBytes /\ (n + q) * FrameBytes \in Nat
  BY <1>1, <1>4
<1>8. r = From((n + q) * FrameBytes, Len(r))
  <2> DEFINE a == q * FrameBytes
             c == n * FrameBytes
  <2>1. r = SubSeq(p, a + 1, m)
    <3>1. Len(p) \div FrameBytes = q
      BY DEF q
    <3> QED BY <1>3, <3>1 DEF Rest
  <2>2. a \in Nat /\ c \in Nat /\ a <= m /\ Len(r) = m - a /\ (n + q) * FrameBytes = c + a
    <3>1. a \in Nat /\ c \in Nat /\ Len(r) = m - a /\ Len(r) \in Nat
      BY <1>2, <1>4
    <3>2. (n + q) * FrameBytes = c + a
      BY <1>7
    <3> HIDE DEF a, c
    <3> QED BY <3>1, <3>2
  <2>3. p = From(c, m)
    OBVIOUS
  <2> HIDE DEF a, c
  <2>4. SubSeq(From(c, m), a + 1, m) = From(c + a, m - a)
    <3> DEFINE f == a + 1
               g == c + a
               h == m - a
    <3>1. f \in Nat \ {0} /\ f <= m + 1 /\ m <= m /\ g = c + f - 1 /\ h = m - f + 1
      BY <2>2
    <3> HIDE DEF f, g, h
    <3>2. SubSeq(From(c, m), f, m) = From(g, h)
      BY <2>2, <3>1 DEF From
    <3> QED BY <3>2 DEF f, g, h
  <2> QED BY <2>1, <2>2, <2>3, <2>4
<1>9. n * FrameBytes + m = (n + q) * FrameBytes + Len(r)
  <2> DEFINE a == q * FrameBytes
             c == n * FrameBytes
             d == (n + q) * FrameBytes
  <2>1. Len(r) = m - a /\ d = c + a /\ a \in Nat /\ c \in Nat
    BY <1>2, <1>4, <1>7
  <2> HIDE DEF a, c, d
  <2>2. c + m = d + Len(r)
    BY <2>1
  <2> QED BY <2>2 DEF c, d
<1> QED BY <1>4, <1>6, <1>8, <1>9 DEF IsFramed

LEMMA JoinFrames ==
  ASSUME NEW n \in Nat, NEW fs \in Seq(Seq(Nat)), FramesFrom(n, fs),
         NEW gs \in Seq(Seq(Nat)), FramesFrom(n + Len(fs), gs)
  PROVE  FramesFrom(n, fs \o gs)
<1> SUFFICES ASSUME NEW j \in DOMAIN (fs \o gs) PROVE (fs \o gs)[j] = From((n + j - 1) * FrameBytes, FrameBytes)
  BY DEF FramesFrom
<1>1. CASE j <= Len(fs)
  BY <1>1 DEF FramesFrom
<1>2. CASE j > Len(fs)
  <2>1. j - Len(fs) \in DOMAIN gs /\ (fs \o gs)[j] = gs[j - Len(fs)]
    BY <1>2
  <2>2. n + Len(fs) + (j - Len(fs)) - 1 = n + j - 1
    OBVIOUS
  <2> QED BY <2>1, <2>2 DEF FramesFrom
<1> QED BY <1>1, <1>2

\* A run of frames, cut into blocks, is a run of frames in each of them.
LEMMA CutBlocks ==
  ASSUME NEW n \in Nat, NEW fs \in Seq(Seq(Nat)), FramesFrom(n, fs), NEW r, r = Rest(fs, BlockFrames)
  PROVE  /\ Blocks(fs) \in Seq(Seq(Seq(Nat)))
         /\ \A i \in 1..Len(Blocks(fs)): /\ Len(Blocks(fs)[i]) = BlockFrames
                                         /\ FramesFrom(n + (i - 1) * BlockFrames, Blocks(fs)[i])
         /\ r \in Seq(Seq(Nat)) /\ Len(r) < BlockFrames
         /\ FramesFrom(n + Len(Blocks(fs)) * BlockFrames, r)
         /\ Len(fs) = Len(Blocks(fs)) * BlockFrames + Len(r)
<1> DEFINE q == Len(fs) \div BlockFrames
<1>1. BlockFrames \in Nat \ {0} /\ Len(fs) \in Nat
  BY AudioAssumption
<1>2. /\ q \in Nat /\ q * BlockFrames \in Nat /\ Blocks(fs) \in Seq(Seq(Seq(Nat))) /\ Len(Blocks(fs)) = q
      /\ \A i \in 1..q: /\ (i - 1) * BlockFrames \in Nat /\ i * BlockFrames <= Len(fs)
                        /\ Len(Blocks(fs)[i]) = BlockFrames
                        /\ \A j \in 1..BlockFrames: Blocks(fs)[i][j] = fs[(i - 1) * BlockFrames + j]
      /\ r \in Seq(Seq(Nat)) /\ Len(r) = Len(fs) - q * BlockFrames /\ Len(r) < BlockFrames
      /\ \A j \in 1..Len(r): r[j] = fs[q * BlockFrames + j]
  <2> DEFINE S == Seq(Nat)
  <2> HIDE DEF q, S
  <2> DEFINE z == BlockFrames
             P == Pieces(fs, z)
             R == Rest(fs, z)
  <2>1. q = Len(fs) \div z /\ fs \in Seq(S) /\ P = Blocks(fs) /\ R = r /\ z \in Nat \ {0}
    BY <1>1 DEF q, S, Blocks
  <2> HIDE DEF z
  <2>2. /\ q \in Nat /\ q * z \in Nat /\ P \in Seq(Seq(S)) /\ Len(P) = q
        /\ \A i \in 1..q: /\ (i - 1) * z \in Nat /\ i * z <= Len(fs) /\ Len(P[i]) = z
                          /\ \A j \in 1..z: P[i][j] = fs[(i - 1) * z + j]
        /\ R \in Seq(S) /\ Len(R) = Len(fs) - q * z /\ Len(R) < z
        /\ \A j \in 1..Len(R): R[j] = fs[q * z + j]
    <3>1. IsCut(S, fs, z, q)
      BY <2>1, Cut
    <3> QED BY <3>1 DEF IsCut
  <2> HIDE DEF P, R
  <2> QED BY <2>1, <2>2 DEF z, S
<1> HIDE DEF q
<1>3. \A k \in 1..Len(fs): fs[k] = From((n + k - 1) * FrameBytes, FrameBytes)
  BY DEF FramesFrom
<1>4. ASSUME NEW i \in 1..q PROVE FramesFrom(n + (i - 1) * BlockFrames, Blocks(fs)[i])
  <2> DEFINE a == (i - 1) * BlockFrames
  <2>1. a \in Nat /\ i * BlockFrames = a + BlockFrames
    BY <1>1, <1>2, Multiples
  <2>2. a + BlockFrames <= Len(fs) /\ DOMAIN Blocks(fs)[i] = 1..BlockFrames
    BY <1>2, <2>1
  <2> HIDE DEF a
  <2>3. ASSUME NEW j \in 1..BlockFrames
        PROVE  Blocks(fs)[i][j] = From((n + a + j - 1) * FrameBytes, FrameBytes)
    <3>0. Blocks(fs)[i][j] = fs[a + j]
      BY <1>2 DEF a
    <3>1. a + j \in 1..Len(fs) /\ Blocks(fs)[i][j] = fs[a + j]
      BY <1>1, <2>1, <2>2, <3>0
    <3>2. n + (a + j) - 1 = n + a + j - 1
      BY <2>1
    <3> QED BY <1>3, <3>1, <3>2
  <2> QED BY <2>2, <2>3 DEF FramesFrom, a
<1>5. FramesFrom(n + q * BlockFrames, r)
  <2> DEFINE a == q * BlockFrames
  <2>1. a \in Nat /\ Len(r) = Len(fs) - a
    BY <1>2
  <2> HIDE DEF a
  <2>2. ASSUME NEW j \in 1..Len(r) PROVE r[j] = From((n + a + j - 1) * FrameBytes, FrameBytes)
    <3>1. a + j \in 1..Len(fs) /\ r[j] = fs[a + j]
      BY <1>1, <1>2, <2>1 DEF a
    <3>2. n + (a + j) - 1 = n + a + j - 1
      BY <2>1
    <3> QED BY <1>3, <3>1, <3>2
  <2> QED BY <1>2, <2>2 DEF FramesFrom, a
<1>6. \A i \in 1..Len(Blocks(fs)): /\ Len(Blocks(fs)[i]) = BlockFrames
                                   /\ FramesFrom(n + (i - 1) * BlockFrames, Blocks(fs)[i])
  BY <1>2, <1>4
<1>7. Len(fs) = Len(Blocks(fs)) * BlockFrames + Len(r)
  <2> DEFINE p == q * BlockFrames
  <2>1. Len(r) = Len(fs) - p /\ p \in Nat /\ p = Len(Blocks(fs)) * BlockFrames
    BY <1>2
  <2> HIDE DEF p
  <2>2. Len(fs) = p + Len(r)
    BY <1>1, <2>1
  <2> QED BY <2>1, <2>2
<1>8. FramesFrom(n + Len(Blocks(fs)) * BlockFrames, r)
  BY <1>2, <1>5
<1> QED BY <1>2, <1>6, <1>7, <1>8

\* While a body is open: what was yielded is its beginning, and each consumer
\* holds all of it, in order, in its own parts.
Bodied ==
  /\ body \in Bodies /\ piece \in Nat \ {0} /\ offset \in Int
  /\ got = From(0, Len(got)) /\ Len(got) \in Nat /\ Len(got) <= body.sent
RawOpen ==
  /\ blocks \in Seq(Seq(Seq(Nat))) /\ frames \in Seq(Seq(Nat)) /\ buffer \in Seq(Nat)
  /\ \A i \in DOMAIN blocks: Len(blocks[i]) = BlockFrames /\ FramesFrom((i - 1) * BlockFrames, blocks[i])
  /\ FramesFrom(Len(blocks) * BlockFrames, frames) /\ Len(frames) < BlockFrames
  /\ buffer = From((Len(blocks) * BlockFrames + Len(frames)) * FrameBytes, Len(buffer))
  /\ Len(buffer) < FrameBytes
  /\ Len(got) = (Len(blocks) * BlockFrames + Len(frames)) * FrameBytes + Len(buffer)
AvOpen ==
  /\ want \in Nat /\ taken \in Seq(Nat) /\ buffer \in Seq(Nat)
  /\ taken = From(0, Len(taken)) /\ buffer = From(Len(taken), Len(buffer))
  /\ Len(got) = Len(taken) + Len(buffer)
OpenInv ==
  /\ way # "raw" => blocks = <<>>
  /\ way = "raw" => RawOpen
  /\ way \in Whole => buffer = got /\ Len(got) <= MaxClip
  /\ way \in {"av", "named"} => AvOpen
AudioInv == Bodied /\ IF outcome = "open" THEN OpenInv ELSE AudioIsBody /\ OutcomeOfBody

\* What the iterator yields is the body's next bytes.
LEMMA Yielding ==
  ASSUME Bodied, Yields, NEW n, n = ReadLength
  PROVE  /\ n \in Nat \ {0} /\ Len(got) + n <= body.sent /\ Bytes = From(Len(got), n)
         /\ Bytes \in Seq(Nat) /\ Len(Bytes) = n
<1>1. /\ body.sizes \in Seq(Nat) /\ body.sent \in Nat /\ ReadSize \in Nat
      /\ piece \in 1..Len(body.sizes) /\ offset \in Int /\ Len(got) \in Nat /\ n > 0
  BY AudioAssumption DEF Bodied, Yields, HasChunk
<1>2. body.sizes[piece] \in Nat
  BY <1>1
<1>3. n \in Int /\ n <= body.sent - Len(got)
  <2> DEFINE rest == body.sizes[piece] - offset
             most == IF body.chunked THEN rest ELSE Smaller(ReadSize, rest)
  <2>1. most \in Int /\ Unread \in Int
    BY <1>1, <1>2 DEF Smaller, Unread
  <2>2. n = Smaller(Unread, most)
    BY DEF ReadLength
  <2> HIDE DEF most
  <2> QED BY <2>1, <2>2 DEF Smaller, Unread
<1>4. n \in Nat \ {0} /\ Len(got) + n <= body.sent
  BY <1>1, <1>3
<1>5. Bytes = From(Len(got), n)
  BY DEF Bytes, From
<1> QED BY <1>1, <1>4, <1>5, FromFacts

LEMMA Stepping ==
  ASSUME Bodied, Yields, Step, NEW n, n = ReadLength
  PROVE  Bodied' /\ Len(got') = Len(got) + n /\ way' = way /\ body' = body /\ over' = over
<1>1. /\ n \in Nat \ {0} /\ Len(got) + n <= body.sent /\ Bytes = From(Len(got), n)
  BY Yielding
<1>2. Len(got) \in Nat /\ got = From(0, Len(got)) /\ 0 + Len(got) = Len(got)
  BY DEF Bodied
<1>3. got' = From(0, Len(got)) \o From(0 + Len(got), n)
  BY <1>1, <1>2 DEF Step
<1>4. got' = From(0, Len(got) + n)
  BY <1>1, <1>2, <1>3, FromJoin
<1>5. Len(got') = Len(got) + n
  BY <1>1, <1>2, <1>4, FromFacts
<1>6. piece' \in Nat \ {0} /\ offset' \in Int /\ UNCHANGED <<body, way, over>>
  BY <1>1 DEF Step, Bodied
<1>7. Bodied'
  BY <1>1, <1>2, <1>4, <1>5, <1>6 DEF Bodied
<1> QED BY <1>5, <1>6, <1>7
\* An open body's audio is the body's.
LEMMA OpenIsBody == Bodied /\ OpenInv /\ outcome = "open" => AudioIsBody /\ OutcomeOfBody
<1> SUFFICES ASSUME Bodied, OpenInv, outcome = "open" PROVE AudioIsBody /\ OutcomeOfBody
  OBVIOUS
<1>1. FrameBytes \in Nat \ {0} /\ BlockFrames \in Nat \ {0} /\ MaxClip \in Nat
  BY AudioAssumption
<1>2. CASE way = "raw"
  <2>1. RawOpen
    BY <1>2 DEF OpenInv
  <2>2. Framed = Len(blocks) * BlockFrames
    <3>1. CASE blocks = <<>>
      BY <1>1, <3>1 DEF Framed
    <3>2. CASE blocks # <<>>
      <4>1. Len(blocks) \in Nat \ {0} /\ Len(blocks) \in DOMAIN blocks
        BY <2>1, <3>2 DEF RawOpen
      <4>2. Framed = (Len(blocks) - 1) * BlockFrames + BlockFrames
        BY <2>1, <3>2, <4>1 DEF RawOpen, Framed
      <4> QED BY <1>1, <4>1, <4>2
    <3> QED BY <3>1, <3>2
  <2>3. DeviceBlocks
    BY <1>1, <2>1 DEF RawOpen, DeviceBlocks
  <2>4. AudioIsBody
    BY <1>2, <2>1, <2>2, <2>3 DEF RawOpen, Bodied, AudioIsBody, Whole
  <2>5. OutcomeOfBody
    BY <1>2 DEF OutcomeOfBody, Whole
  <2> QED BY <2>4, <2>5
<1>3. CASE way # "raw"
  <2>1. blocks = <<>> /\ DeviceBlocks
    BY <1>3 DEF OpenInv, DeviceBlocks
  <2>2. way \in {"av", "named"} => taken \o buffer = got
    <3> SUFFICES ASSUME way \in {"av", "named"} PROVE taken \o buffer = got
      OBVIOUS
    <3> DEFINE t == Len(taken)
               b == Len(buffer)
    <3>1. taken = From(0, t) /\ buffer = From(t, b) /\ Len(got) = t + b /\ t \in Nat /\ b \in Nat /\ 0 + t = t
      BY DEF OpenInv, AvOpen
    <3> HIDE DEF t, b
    <3>2. From(0, t) \o From(0 + t, b) = From(0, t + b)
      BY <3>1, FromJoin
    <3> QED BY <3>1, <3>2 DEF Bodied
  <2>3. way \in Whole => buffer = got /\ Len(buffer) <= MaxClip /\ Len(got) \in Nat
    BY DEF OpenInv, Bodied
  <2> QED BY <1>1, <1>3, <2>1, <2>2, <2>3 DEF AudioIsBody, OutcomeOfBody, Bodied, Whole
<1> QED BY <1>2, <1>3

\* A chunk's whole frames fill blocks, and what is left of each waits.
LEMMA RawStep ==
  ASSUME AudioInv, PushRaw
  PROVE  RawOpen'
<1> DEFINE n == ReadLength
           B == Len(blocks)
           F == Len(frames)
           base == B * BlockFrames
           pending == buffer \o Bytes
           new == Frames(pending)
           held == frames \o new
<1>1. Bodied /\ RawOpen /\ Yields /\ Step
  BY DEF AudioInv, OpenInv, PushRaw
<1>2. FrameBytes \in Nat \ {0} /\ BlockFrames \in Nat \ {0}
  BY AudioAssumption
<1>3. n \in Nat \ {0} /\ Bytes = From(Len(got), n) /\ Len(got') = Len(got) + n /\ Len(got) \in Nat
  BY <1>1, Yielding, Stepping DEF Bodied
<1>4. B \in Nat /\ F \in Nat /\ base \in Nat /\ base + F \in Nat
  <2>1. B \in Nat /\ F \in Nat
    BY <1>1, LenProperties DEF RawOpen
  <2> HIDE DEF B, F
  <2> QED BY <1>2, <2>1
<1>5. /\ buffer' = Rest(pending, FrameBytes) /\ blocks' = blocks \o Blocks(held)
      /\ frames' = Rest(held, BlockFrames)
  BY DEF PushRaw
<1>6. (base + F) * FrameBytes \in Nat
  BY <1>2, <1>4
<1> HIDE DEF n, B, F, base
<1>7. /\ Len(buffer) \in Nat /\ buffer = From((base + F) * FrameBytes, Len(buffer))
      /\ Len(got) = (base + F) * FrameBytes + Len(buffer)
  BY <1>1 DEF RawOpen, B, F, base
<1>8. pending = From((base + F) * FrameBytes, Len(buffer) + n)
  <2> DEFINE c == (base + F) * FrameBytes
  <2>1. c \in Nat /\ buffer = From(c, Len(buffer)) /\ Bytes = From(c + Len(buffer), n)
    BY <1>3, <1>6, <1>7
  <2> HIDE DEF c
  <2>2. From(c, Len(buffer)) \o From(c + Len(buffer), n) = From(c, Len(buffer) + n)
    BY <1>3, <1>7, <2>1, FromJoin
  <2> QED BY <2>1, <2>2 DEF c
<1> HIDE DEF pending
<1>9. /\ new \in Seq(Seq(Nat)) /\ FramesFrom(base + F, new)
      /\ buffer' \in Seq(Nat) /\ Len(buffer') < FrameBytes
      /\ buffer' = From((base + F + Len(new)) * FrameBytes, Len(buffer'))
      /\ (base + F) * FrameBytes + (Len(buffer) + n) = (base + F + Len(new)) * FrameBytes + Len(buffer')
  <2> DEFINE h == base + F
             m == Len(buffer) + n
             r == buffer'
  <2>1. h \in Nat /\ m \in Nat /\ pending = From(h * FrameBytes, m) /\ r = Rest(pending, FrameBytes)
    BY <1>3, <1>4, <1>5, <1>7, <1>8
  <2> HIDE DEF h, m, r
  <2>2. IsFramed(h, m, pending, r)
    BY <2>1, CutFrames
  <2> QED BY <2>2 DEF IsFramed, h, m, r
<1> HIDE DEF new
<1>10. /\ frames \in Seq(Seq(Nat)) /\ FramesFrom(base, frames)
       /\ held \in Seq(Seq(Nat)) /\ Len(held) = F + Len(new)
  <2>1. frames \in Seq(Seq(Nat)) /\ FramesFrom(base, frames)
    BY <1>1 DEF RawOpen, base, B
  <2>2. Len(held) = F + Len(new)
    BY <1>9, <2>1 DEF F
  <2> QED BY <1>9, <2>1, <2>2
<1>11. FramesFrom(base, held)
  BY <1>4, <1>9, <1>10, JoinFrames DEF F
<1> HIDE DEF held
<1>12. /\ Blocks(held) \in Seq(Seq(Seq(Nat)))
       /\ \A i \in 1..Len(Blocks(held)): /\ Len(Blocks(held)[i]) = BlockFrames
                                         /\ FramesFrom(base + (i - 1) * BlockFrames, Blocks(held)[i])
       /\ frames' \in Seq(Seq(Nat)) /\ Len(frames') < BlockFrames
       /\ FramesFrom(base + Len(Blocks(held)) * BlockFrames, frames')
       /\ Len(held) = Len(Blocks(held)) * BlockFrames + Len(frames')
  <2> DEFINE r == frames'
  <2>1. base \in Nat /\ held \in Seq(Seq(Nat)) /\ r = Rest(held, BlockFrames)
    BY <1>4, <1>5, <1>10
  <2> HIDE DEF r
  <2>2. /\ Blocks(held) \in Seq(Seq(Seq(Nat)))
        /\ \A i \in 1..Len(Blocks(held)): /\ Len(Blocks(held)[i]) = BlockFrames
                                          /\ FramesFrom(base + (i - 1) * BlockFrames, Blocks(held)[i])
        /\ r \in Seq(Seq(Nat)) /\ Len(r) < BlockFrames
        /\ FramesFrom(base + Len(Blocks(held)) * BlockFrames, r)
        /\ Len(held) = Len(Blocks(held)) * BlockFrames + Len(r)
    BY <1>11, <2>1, CutBlocks
  <2> QED BY <2>2 DEF r
<1> DEFINE more == Blocks(held)
           M == Len(more)
<1>13. blocks \in Seq(Seq(Seq(Nat))) /\ more \in Seq(Seq(Seq(Nat))) /\ M \in Nat
  BY <1>1, <1>12 DEF RawOpen
<1>14. /\ blocks' \in Seq(Seq(Seq(Nat))) /\ Len(blocks') = B + M /\ DOMAIN blocks' = 1..(B + M)
       /\ \A i \in 1..B: blocks'[i] = blocks[i] /\ i \in DOMAIN blocks
       /\ \A i \in (B + 1)..(B + M): blocks'[i] = more[i - B] /\ i - B \in 1..M
  <2> DEFINE T == Seq(Seq(Nat))
  <2> HIDE DEF T, more
  <2>1. blocks \in Seq(T) /\ more \in Seq(T) /\ blocks' = blocks \o more
    BY <1>5, <1>13 DEF T, more
  <2>2. /\ blocks' \in Seq(T) /\ Len(blocks') = B + M /\ DOMAIN blocks' = 1..(B + M)
        /\ \A i \in 1..B: blocks'[i] = blocks[i] /\ i \in DOMAIN blocks
        /\ \A i \in (B + 1)..(B + M): blocks'[i] = more[i - B] /\ i - B \in 1..M
    BY <2>1 DEF B
  <2> QED BY <2>2 DEF T
<1>15. \A i \in DOMAIN blocks': Len(blocks'[i]) = BlockFrames /\ FramesFrom((i - 1) * BlockFrames, blocks'[i])
  <2> TAKE i \in DOMAIN blocks'
  <2>1. CASE i \in 1..B
    BY <1>1, <1>14, <2>1 DEF RawOpen
  <2>2. CASE i \in (B + 1)..(B + M)
    <3>1. base + (i - B - 1) * BlockFrames = (i - 1) * BlockFrames
      BY <1>2, <1>4, <2>2 DEF base
    <3>2. blocks'[i] = more[i - B] /\ i - B \in 1..M
      BY <1>14, <2>2
    <3> QED BY <1>12, <3>1, <3>2
  <2>3. i \in 1..B \/ i \in (B + 1)..(B + M)
    BY <1>4, <1>13, <1>14
  <2> QED BY <2>1, <2>2, <2>3
<1> HIDE DEF more, M
<1>16. Len(blocks') * BlockFrames = base + M * BlockFrames /\ M \in Nat
  BY <1>2, <1>4, <1>13, <1>14 DEF base
<1>17. /\ FramesFrom(Len(blocks') * BlockFrames, frames')
       /\ Len(blocks') * BlockFrames + Len(frames') = base + F + Len(new)
  <2>1. FramesFrom(Len(blocks') * BlockFrames, frames') /\ F + Len(new) = M * BlockFrames + Len(frames')
    BY <1>10, <1>12, <1>16 DEF M, more
  <2> DEFINE x == M * BlockFrames
             y == Len(blocks') * BlockFrames
             l == Len(frames')
             m == Len(new)
  <2>2. x \in Nat /\ y = base + x /\ F + m = x + l /\ l \in Nat /\ m \in Nat
    BY <1>2, <1>9, <1>12, <1>16, <2>1
  <2> HIDE DEF x, y, l, m
  <2>3. y + l = base + F + m
    BY <1>4, <2>2
  <2> QED BY <2>1, <2>3 DEF y, l, m
<1>18. Len(got') = (Len(blocks') * BlockFrames + Len(frames')) * FrameBytes + Len(buffer')
  <2> DEFINE c == (base + F) * FrameBytes
             d == (base + F + Len(new)) * FrameBytes
             b == Len(buffer)
  <2>1. c \in Nat /\ b \in Nat /\ n \in Nat /\ Len(got') = (c + b) + n /\ c + (b + n) = d + Len(buffer')
    BY <1>3, <1>6, <1>7, <1>9
  <2> HIDE DEF c, d, b
  <2>2. Len(got') = d + Len(buffer')
    BY <2>1
  <2> QED BY <1>17, <2>2 DEF d
<1> QED BY <1>9, <1>12, <1>14, <1>15, <1>17, <1>18 DEF RawOpen

\* The end of a raw stream plays the frames it holds, or is an error.
LEMMA RawEnds ==
  ASSUME AudioInv, EndRaw
  PROVE  AudioIsBody' /\ OutcomeOfBody' /\ Bodied' /\ outcome' # "open"
<1> DEFINE B == Len(blocks)
           F == Len(frames)
           b == Len(buffer)
           c == (B * BlockFrames + F) * FrameBytes
<1>1. /\ Bodied /\ RawOpen /\ way = "raw" /\ UNCHANGED <<body, way, piece, offset, got, buffer, taken>>
      /\ AudioIsBody
  BY OpenIsBody DEF AudioInv, OpenInv, EndRaw
<1>2. FrameBytes \in Nat \ {0} /\ BlockFrames \in Nat \ {0}
  BY AudioAssumption
<1>3. blocks \in Seq(Seq(Seq(Nat))) /\ frames \in Seq(Seq(Nat)) /\ B \in Nat /\ F \in Nat /\ b \in Nat
  BY <1>1, LenProperties DEF RawOpen
<1>4. Bodied'
  BY <1>1 DEF Bodied
<1>5. /\ \A i \in 1..B: Len(blocks[i]) = BlockFrames /\ FramesFrom((i - 1) * BlockFrames, blocks[i])
      /\ FramesFrom(B * BlockFrames, frames) /\ F < BlockFrames
      /\ buffer = From(c, b) /\ b < FrameBytes /\ Len(got) = c + b
  BY <1>1, <1>3, LenProperties DEF RawOpen
<1>6. Framed = B * BlockFrames
  <2>1. CASE blocks = <<>>
    BY <1>2, <2>1 DEF Framed
  <2>2. CASE blocks # <<>>
    <3>1. B \in 1..B
      BY <1>3, <2>2
    <3>2. Framed = (B - 1) * BlockFrames + BlockFrames
      BY <1>5, <2>2, <3>1 DEF Framed
    <3> HIDE DEF B
    <3> QED BY <1>2, <1>3, <3>2
  <2> QED BY <2>1, <2>2
\* The frames that are whole are all the body's bytes but those in the buffer.
<1>7. Len(got) % FrameBytes = b /\ (Len(got) > 0 <=> B # 0 \/ F # 0 \/ b # 0)
  <2> DEFINE m == B * BlockFrames
             k == m + F
  <2> HIDE DEF B, F, b
  <2>1. m \in Nat /\ (m = 0 <=> B = 0)
    BY <1>2, <1>3
  <2> HIDE DEF m
  <2>2. k \in Nat /\ (k = 0 <=> B = 0 /\ F = 0)
    BY <1>3, <2>1
  <2> HIDE DEF k
  <2>3. k * FrameBytes \in Nat /\ (k * FrameBytes = 0 <=> k = 0)
    BY <1>2, <2>2
  <2>4. (k * FrameBytes + b) % FrameBytes = b
    BY <1>2, <1>3, <1>5, <2>2, Remainder
  <2>5. Len(got) = k * FrameBytes + b
    BY <1>5 DEF k, m
  <2> QED BY <1>3, <2>2, <2>3, <2>4, <2>5
<1>8. blocks \o frames = <<>> <=> B = 0 /\ F = 0
  <2>1. Len(blocks \o frames) = B + F
    BY <1>3
  <2>2. blocks \o frames = <<>> <=> B + F = 0
    BY <1>3, <2>1
  <2> QED BY <1>3, <2>2
<1>9. buffer # <<>> <=> b # 0
  BY <1>1 DEF RawOpen
<1>10. OutcomeOfBody' /\ outcome' \in {"error", "played"}
  BY <1>1, <1>3, <1>7, <1>8, <1>9 DEF EndRaw, OutcomeOfBody, Whole
<1>11. CASE outcome' = "error" \/ frames = <<>>
  <2>1. blocks' = blocks /\ frames' = frames
    BY <1>11 DEF EndRaw
  <2>2. Framed' = Framed
    BY <2>1 DEF Framed
  <2>3. DeviceBlocks'
    BY <1>2, <1>3, <1>5, <2>1, LenProperties DEF DeviceBlocks
  <2> QED BY <1>1, <1>4, <1>10, <2>1, <2>2, <2>3 DEF AudioIsBody, Whole
<1>12. CASE outcome' = "played" /\ frames # <<>>
  <2>1. blocks' = Append(blocks, frames) /\ frames' = <<>>
    BY <1>12 DEF EndRaw
  <2>2. /\ Len(blocks') = B + 1 /\ DOMAIN blocks' = 1..(B + 1) /\ blocks'[B + 1] = frames
        /\ \A i \in 1..B: blocks'[i] = blocks[i]
    BY <1>3, <2>1
  <2>3. F > 0
    BY <1>3, <1>12
  <2>4. Framed' = B * BlockFrames + F
    <3>1. blocks' # <<>> /\ B + 1 - 1 = B
      BY <1>3, <2>2
    <3> QED BY <2>2, <3>1 DEF Framed
  <2>5. \A i \in DOMAIN blocks': FramesFrom((i - 1) * BlockFrames, blocks'[i])
    <3>1. FramesFrom((B + 1 - 1) * BlockFrames, blocks'[B + 1])
      BY <1>3, <1>5, <2>2
    <3> HIDE DEF B
    <3>2. \A i \in 1..(B + 1): i \in 1..B \/ i = B + 1
      BY <1>3
    <3> TAKE i \in DOMAIN blocks'
    <3>3. CASE i \in 1..B
      BY <1>5, <2>2, <3>3
    <3>4. CASE i = B + 1
      <4>1. i - 1 = B + 1 - 1
        BY <1>3, <3>4
      <4> QED BY <3>1, <3>4, <4>1
    <3> QED BY <2>2, <3>2, <3>3, <3>4
  <2>6. DeviceBlocks'
    <3> HIDE DEF B, F
    <3>1. \A i \in 1..(B + 1): i \in 1..B \/ i = B + 1
      BY <1>3
    <3>2. \A i \in 1..B: Len(blocks'[i]) = BlockFrames
      BY <1>5, <2>2
    <3>3. Len(blocks'[B + 1]) = F /\ F \in 1..BlockFrames
      BY <1>2, <1>3, <1>5, <2>2, <2>3 DEF F
    <3> QED BY <1>2, <1>12, <2>2, <3>1, <3>2, <3>3 DEF DeviceBlocks
  <2>7. Len(frames') = 0 /\ FramesFrom(Framed', frames')
    BY <2>1 DEF FramesFrom
  <2>8. Framed' + Len(frames') = B * BlockFrames + F
    <3> DEFINE m == B * BlockFrames
    <3> HIDE DEF B, F
    <3>1. m \in Nat
      BY <1>2, <1>3
    <3> HIDE DEF m
    <3>2. m + F + 0 = m + F
      BY <1>3, <3>1
    <3> QED BY <2>4, <2>7, <3>2 DEF m
  <2>9. /\ buffer' = From((Framed' + Len(frames')) * FrameBytes, Len(buffer'))
        /\ Len(got') = (Framed' + Len(frames')) * FrameBytes + Len(buffer')
    BY <1>1, <1>5, <2>8
  <2>10. got' = From(0, Len(got')) /\ Len(got') <= body'.sent
    BY <1>4 DEF Bodied
  <2> QED BY <1>1, <1>4, <1>10, <2>5, <2>6, <2>7, <2>9, <2>10 DEF AudioIsBody, Whole
<1> QED BY <1>4, <1>10, <1>11, <1>12

LEMMA AudioStep == AudioInv /\ [AudioNext]_audio => AudioInv'
<1> SUFFICES ASSUME AudioInv, [AudioNext]_audio PROVE AudioInv'
  OBVIOUS
<1>1. Bodied /\ AudioIsBody /\ OutcomeOfBody
  BY OpenIsBody DEF AudioInv
<1>2. CASE UNCHANGED audio
  BY <1>1, <1>2 DEF AudioInv, audio, Bodied, OpenInv, RawOpen, AvOpen, AudioIsBody, OutcomeOfBody,
                    DeviceBlocks, Framed
\* An open body stays open.
<1>3. ASSUME Bodied', OpenInv', outcome' = "open" PROVE AudioInv'
  BY <1>3 DEF AudioInv
\* A body ends, and what is held is as it was.
<1>4. ASSUME outcome = "open", outcome' # "open", way # "raw",
             UNCHANGED <<body, way, piece, offset, got, buffer, frames, blocks, taken>>,
             outcome' # "too large",
             way = "pcm" /\ outcome' \in {"decoded", "error"} =>
               (outcome' = "decoded" <=> Len(buffer) % FrameBytes = 0)
      PROVE  AudioInv'
  <2>1. Bodied' /\ OpenInv
    BY <1>1, <1>4 DEF Bodied, AudioInv
  <2>2. blocks = <<>>
    BY <1>4, <2>1 DEF OpenInv
  <2>3. AudioIsBody'
    BY <1>1, <1>4, <2>2 DEF AudioIsBody, DeviceBlocks
  <2>4. OutcomeOfBody'
    <3>1. way = "pcm" => buffer = got
      BY <2>1 DEF OpenInv, Whole
    <3> QED BY <1>1, <1>4, <3>1 DEF OutcomeOfBody, Whole
  <2> QED BY <1>4, <2>1, <2>3, <2>4 DEF AudioInv
<1>5. CASE BodyEnds
  <2>1. outcome = "open" /\ UNCHANGED <<body, way, piece, offset, got, consumer>>
    BY <1>5 DEF BodyEnds, Asks
  <2>2. OpenInv
    BY <2>1 DEF AudioInv
  <2>3. Bodied' /\ OpenInv'
    BY <1>1, <2>1, <2>2 DEF consumer, Bodied, OpenInv, RawOpen, AvOpen
  <2> QED BY <1>3, <2>1, <2>3 DEF consumer
<1>6. CASE ReadClip
  <2> DEFINE n == ReadLength
  <2>1. way \in Whole /\ outcome = "open" /\ Yields /\ Step /\ UNCHANGED <<frames, blocks, want, taken>>
    BY <1>6 DEF ReadClip
  <2>2. /\ n \in Nat \ {0} /\ Bytes = From(Len(got), n) /\ Len(got') = Len(got) + n /\ Bodied'
        /\ way' = way /\ Len(got) \in Nat
    BY <1>1, <2>1, Yielding, Stepping DEF Bodied
  <2>3. buffer = got /\ blocks = <<>> /\ MaxClip \in Nat /\ got' = got \o Bytes /\ got = From(0, Len(got))
    BY <1>1, <2>1, AudioAssumption DEF AudioInv, OpenInv, Step, Bodied, Whole
  <2>4. CASE Len(buffer) + n > MaxClip
    <3>1. outcome' = "too large" /\ buffer' = buffer
      BY <1>6, <2>4 DEF ReadClip
    <3>2. IsPrefix(buffer', got')
      <4>1. got \in Seq(Nat) /\ Bytes \in Seq(Nat)
        BY <2>2, <2>3, FromFacts
      <4> DEFINE g == got
                 h == Bytes
      <4> HIDE DEF g, h
      <4>2. IsPrefix(g, g \o h)
        <5>1. g \in Seq(Nat) /\ h \in Seq(Nat)
          BY <4>1 DEF g, h
        <5> QED BY <5>1 DEF IsPrefix
      <4> QED BY <2>3, <3>1, <4>2 DEF g, h
    <3>3. blocks' = <<>> /\ way' \in {"clip", "pcm"}
      BY <2>1, <2>2, <2>3 DEF Whole
    <3>4. AudioIsBody'
      <4>1. DeviceBlocks'
        BY <3>3 DEF DeviceBlocks
      <4>2. got' = From(0, Len(got')) /\ Len(got') <= body'.sent
        BY <2>2 DEF Bodied
      <4> QED BY <3>1, <3>2, <3>3, <4>1, <4>2 DEF AudioIsBody, Whole
    <3>5. OutcomeOfBody'
      BY <1>1, <2>1, <2>2, <2>3, <2>4, <3>1, <3>3 DEF OutcomeOfBody, Whole
    <3> QED BY <2>2, <3>1, <3>4, <3>5 DEF AudioInv
  <2>5. CASE ~(Len(buffer) + n > MaxClip)
    <3>1. outcome' = outcome /\ buffer' = got' /\ Len(got') <= MaxClip
      BY <1>6, <2>2, <2>3, <2>5 DEF ReadClip
    <3>2. OpenInv'
      BY <2>1, <2>2, <2>3, <3>1 DEF OpenInv, Whole
    <3> QED BY <1>3, <2>1, <2>2, <3>1, <3>2
  <2> QED BY <2>4, <2>5
<1>7. CASE DecodeClip
  <2>1. /\ way \in {"clip", "pcm"} /\ outcome = "open" /\ outcome' \in {"decoded", "error"}
        /\ way = "pcm" => (outcome' = "decoded" <=> Len(buffer) % FrameBytes = 0)
        /\ UNCHANGED <<body, way, piece, offset, got, buffer, frames, blocks, taken>>
    BY <1>7 DEF DecodeClip
  <2> QED BY <1>4, <2>1
<1>8. CASE PushRaw
  <2>1. outcome' = "open" /\ way' = "raw" /\ Bodied'
    BY <1>1, <1>8, Stepping DEF PushRaw
  <2>2. RawOpen'
    BY <1>8, RawStep
  <2> QED BY <1>3, <2>1, <2>2 DEF OpenInv, Whole
<1>9. CASE EndRaw
  BY <1>9, RawEnds DEF AudioInv
<1>10. CASE SniffHead
  <2>1. way = "av" /\ outcome = "open" /\ got = <<>> /\ UNCHANGED <<frames, blocks, want, taken>> /\ AvOpen
    BY <1>10 DEF SniffHead, AudioInv, OpenInv
  <2>2. CASE Yields /\ Step /\ buffer' = Bytes /\ outcome' = outcome
    <3> DEFINE n == ReadLength
    <3>1. n \in Nat \ {0} /\ Bytes = From(Len(got), n) /\ Len(got') = Len(got) + n /\ Bodied' /\ way' = way
          /\ Bytes \in Seq(Nat) /\ Len(Bytes) = n
      BY <1>1, <2>2, Yielding, Stepping
    <3>2. Len(got) = 0 /\ Len(taken) = 0
      BY <2>1 DEF AvOpen
    <3>3. AvOpen'
      BY <2>1, <2>2, <3>1, <3>2 DEF AvOpen
    <3>4. OpenInv'
      BY <1>1, <2>1, <3>1, <3>3 DEF OpenInv, AudioInv, Whole
    <3> QED BY <1>3, <2>1, <2>2, <3>1, <3>4
  <2>3. CASE over /\ outcome' = "error" /\ UNCHANGED <<body, way, piece, offset, got, over, buffer>>
    BY <1>4, <2>1, <2>3
  <2> QED BY <1>10, <2>2, <2>3 DEF SniffHead
<1>11. CASE AvAsks
  <2>1. /\ way \in {"av", "named"} /\ outcome = "open" /\ want' \in Nat
        /\ UNCHANGED <<body, way, piece, offset, got, buffer, frames, blocks, taken, outcome>>
    BY <1>11, AudioAssumption DEF AvAsks, AvReading
  <2>2. OpenInv'
    BY <2>1 DEF AudioInv, OpenInv, AvOpen
  <2> QED BY <1>1, <1>3, <2>1, <2>2 DEF Bodied
<1>12. CASE FillReader
  <2> DEFINE n == ReadLength
             t == Len(taken)
             b == Len(buffer)
  <2>1. /\ way \in {"av", "named"} /\ outcome = "open" /\ Yields /\ Step /\ buffer' = buffer \o Bytes
        /\ UNCHANGED <<frames, blocks, want, taken, outcome>> /\ AvOpen /\ blocks = <<>>
    BY <1>12 DEF FillReader, AvReading, AudioInv, OpenInv
  <2>2. n \in Nat \ {0} /\ Bytes = From(Len(got), n) /\ Len(got') = Len(got) + n /\ Bodied' /\ way' = way
        /\ Bytes \in Seq(Nat) /\ Len(Bytes) = n
    BY <1>1, <2>1, Yielding, Stepping
  <2>3. t \in Nat /\ b \in Nat /\ Len(got) = t + b /\ buffer = From(t, b) /\ buffer \in Seq(Nat)
    BY <2>1 DEF AvOpen
  <2> HIDE DEF n, t, b
  <2>4. From(t, b) \o From(t + b, n) = From(t, b + n)
    BY <2>2, <2>3, FromJoin
  <2>5. buffer' = From(t, b + n) /\ Len(buffer') = b + n /\ buffer' \in Seq(Nat)
    <3>1. b + n \in Nat
      BY <2>2, <2>3
    <3>2. buffer' = From(t, b + n)
      BY <2>1, <2>2, <2>3, <2>4
    <3> QED BY <2>3, <3>1, <3>2, FromFacts
  <2>6. Len(got') = t + Len(buffer') /\ Len(taken') = t
    <3>1. Len(taken') = t
      BY <2>1 DEF t
    <3>2. Len(got') = t + b + n /\ t \in Nat /\ b \in Nat /\ n \in Nat
      BY <2>2, <2>3
    <3>3. Len(buffer') = b + n
      BY <2>5
    <3> QED BY <3>1, <3>2, <3>3
  <2>7. AvOpen'
    BY <2>1, <2>5, <2>6 DEF AvOpen
  <2>8. OpenInv'
    BY <2>1, <2>2, <2>7 DEF OpenInv, Whole
  <2> QED BY <1>3, <2>1, <2>2, <2>8
<1>13. CASE AvTakes
  <2> DEFINE t == Len(taken)
             b == Len(buffer)
             n == Smaller(want, b)
             rest == SubSeq(buffer, n + 1, b)
  <2>1. /\ way \in {"av", "named"} /\ outcome = "open" /\ want > 0
        /\ taken' = taken \o SubSeq(buffer, 1, n) /\ buffer' = rest /\ want' = 0
        /\ outcome' = (IF n = 0 /\ taken = <<>> THEN "error" ELSE outcome)
        /\ UNCHANGED <<body, way, piece, offset, got, frames, blocks>> /\ AvOpen /\ blocks = <<>>
    BY <1>13 DEF AvTakes, AvReading, AudioInv, OpenInv
  <2>2. /\ t \in Nat /\ b \in Nat /\ Len(got) = t + b /\ buffer = From(t, b) /\ taken = From(0, t)
        /\ want \in Nat /\ buffer \in Seq(Nat) /\ taken \in Seq(Nat)
    BY <2>1 DEF AvOpen
  <2>3. n \in Nat /\ n <= b
    BY <2>2 DEF Smaller
  <2> HIDE DEF t, b, n
  <2>4. SubSeq(buffer, 1, n) = From(t, n) /\ rest = From(t + n, b - n)
    BY <2>2, <2>3 DEF From
  <2> HIDE DEF rest
  <2>5. taken' = From(0, t + n)
    <3>1. From(0, t) \o From(t, n) = From(0, t + n)
      BY <2>2, <2>3 DEF From
    <3> QED BY <2>1, <2>2, <2>4, <3>1
  <2>6. /\ t + n \in Nat /\ b - n \in Nat /\ taken' \in Seq(Nat) /\ Len(taken') = t + n
        /\ buffer' \in Seq(Nat) /\ Len(buffer') = b - n /\ buffer' = From(t + n, b - n)
    <3>1. t + n \in Nat /\ b - n \in Nat
      BY <2>2, <2>3
    <3>2. taken' = From(0, t + n) /\ buffer' = From(t + n, b - n)
      BY <2>1, <2>4, <2>5
    <3> QED BY <3>1, <3>2, FromFacts
  <2>7. Len(got') = Len(taken') + Len(buffer')
    <3>1. t + b = (t + n) + (b - n) /\ Len(got') = t + b
      BY <2>1, <2>2, <2>3
    <3> QED BY <2>6, <3>1
  <2>8. AvOpen' /\ OpenInv'
    BY <2>1, <2>5, <2>6, <2>7 DEF AvOpen, OpenInv, Whole
  <2>9. CASE ~(n = 0 /\ taken = <<>>)
    BY <1>1, <1>3, <2>1, <2>8, <2>9 DEF Bodied
  <2>10. CASE n = 0 /\ taken = <<>>
    <3>1. taken' = taken /\ buffer' = buffer
      BY <2>2, <2>5, <2>6, <2>10
    <3> QED BY <1>4, <2>1, <2>10, <3>1
  <2> QED BY <2>9, <2>10
<1>14. CASE AvEnds
  BY <1>4, <1>14 DEF AvEnds, AvReading
\* A read that raises leaves what is held as it was: only whole blocks.
<1>15. CASE ReadFails
  <2>1. /\ outcome = "open" /\ outcome' = "failed"
        /\ UNCHANGED <<body, way, piece, offset, got, over, buffer, frames, blocks, want, taken>>
    BY <1>15 DEF ReadFails, Asks
  <2>2. DeviceBlocks' /\ Framed' = Framed
    BY <1>1, <2>1 DEF AudioIsBody, DeviceBlocks, Framed
  <2>3. AudioIsBody'
    BY <1>1, <2>1, <2>2 DEF AudioIsBody
  <2>4. OutcomeOfBody'
    BY <1>1, <2>1 DEF OutcomeOfBody
  <2> QED BY <1>1, <2>1, <2>3, <2>4 DEF AudioInv, Bodied
<1> QED
  BY <1>2, <1>5, <1>6, <1>7, <1>8, <1>9, <1>10, <1>11, <1>12, <1>13, <1>14, <1>15 DEF AudioNext

LEMMA AudioStart == AudioInit => AudioInv
<1> SUFFICES ASSUME AudioInit PROVE AudioInv
  OBVIOUS
<1>1. /\ body \in Bodies /\ piece = 1 /\ offset = 0 /\ got = <<>> /\ buffer = <<>> /\ frames = <<>>
      /\ blocks = <<>> /\ want = 0 /\ taken = <<>> /\ outcome = "open"
  BY DEF AudioInit
<1>2. \A n: From(n, 0) = <<>>
  BY DEF From
<1>3. body.sent \in Nat /\ MaxClip \in Nat /\ FrameBytes \in Nat \ {0} /\ BlockFrames \in Nat \ {0}
  BY <1>1, AudioAssumption
<1>4. Bodied
  BY <1>1, <1>2, <1>3 DEF Bodied
<1>5. RawOpen
  BY <1>1, <1>2, <1>3 DEF RawOpen, FramesFrom
<1>6. OpenInv
  BY <1>1, <1>2, <1>3, <1>5 DEF OpenInv, AvOpen
<1> QED BY <1>1, <1>4, <1>6 DEF AudioInv

\* The audio is the body: no byte is lost, repeated or moved, for any sizes of
\* chunks, reads, frames and blocks, and every block but the last is full.
\* (server.py's _iter_body and _read_body, decode.py's _stream_raw_pcm, _rechunk
\* and _ChunkReader)
THEOREM BodyIsHeard == AudioSpec => []AudioIsBody
<1>1. AudioInv => AudioIsBody
  BY OpenIsBody DEF AudioInv
<1> QED BY <1>1, AudioStart, AudioStep, PTL DEF AudioSpec

\* A raw stream that was read to its end is played exactly if it is some whole
\* frames, a raw clip decoded exactly if it is whole frames, and a clip is refused
\* exactly if it exceeds the cap, of which no more is ever held.
\* (decode.py's _stream_raw_pcm and _decode_raw_pcm, server.py's _read_body)
THEOREM OutcomeIsEarned == AudioSpec => []OutcomeOfBody
<1>1. AudioInv => OutcomeOfBody
  BY OpenIsBody DEF AudioInv
<1> QED BY <1>1, AudioStart, AudioStep, PTL DEF AudioSpec

---------------------------------------------------------------------------
(* The tools together: each moves alone, so what holds of one by its own
   specification holds of it among the others.                               *)

\* Whatever tool a behaviour is of, it is one of the command table's, the observe
\* loop's, the decoding's and the connection's: what is proved of these holds of
\* the behaviours of them all. (the verbs of cli.py, serve, and do_POST)
THEOREM EachIsItself ==
  Spec => EvidenceSpec /\ ObserveRuns /\ AudioSpec /\ ConnectionSpec
<1>1. Init => EvidenceInit /\ ObserveInit /\ AudioInit /\ ConnectionInit
  BY DEF Init
<1>2. [Next]_tools => /\ [EvidenceNext]_evidence /\ [ObserveNext]_observe
                      /\ [AudioNext]_audio /\ [ConnectionNext]_connection
  <2> SUFFICES ASSUME [Next]_tools
               PROVE  /\ [EvidenceNext]_evidence /\ [ObserveNext]_observe
                      /\ [AudioNext]_audio /\ [ConnectionNext]_connection
    OBVIOUS
  <2>1. UNCHANGED tools => UNCHANGED <<evidence, observe, audio, connection>>
    BY DEF tools
  <2> QED BY <2>1 DEF Next, InEvidence, InObserve, InAudio, InConnection
<1> QED BY <1>1, <1>2, PTL DEF Spec, EvidenceSpec, ObserveRuns, AudioSpec, ConnectionSpec

\* So the invariants and the action property of the tools hold of every
\* behaviour of the tools together, the one that is model-checked.
THEOREM ToolsSafe ==
  Spec => /\ [](GateKept /\ Backed /\ ReproducedOnly /\ NothingLeft)
          /\ [](AudioIsBody /\ OutcomeOfBody /\ SendBounded /\ LinkKept)
          /\ OnlyAppends
BY EachIsItself, GateHolds, AllBacked, ReproducedFirst, NothingStays, BodyIsHeard, OutcomeIsEarned,
   SendsBounded, LinkHeld, AppendsOnly, PTL
====
