---- MODULE Frame ----
(* The wire frame (src/carle/frame.py): the envelope that build puts around a
   payload and parse takes off again, and the payload that resolve makes of an
   entry's template and parameters. A template item is a byte, [lit |-> b], or
   a reference, [ref |-> name]; a specification of a parameter has its min, max
   and default. Where the code raises a FrameError the operator's domain ends:
   Buildable and Resolvable say where it does not. The size of a byte and the
   longest payload are parameters, so that small instances wrap and overflow. *)
EXTENDS Integers, SequencesExt

CONSTANTS ByteSize, Families, Terminator, MaxPayload

Byte == 0..(ByteSize - 1)

ASSUME FrameAssumption ==
  /\ ByteSize \in Nat \ {0} /\ Terminator \in Byte /\ Families \subseteq Byte
  /\ MaxPayload \in Byte

Checksum(payload) == FoldSeq(LAMBDA a, b: a + b, 0, payload) % ByteSize

Buildable(family, payload) ==
  family \in Families /\ Len(payload) <= MaxPayload /\ \A i \in DOMAIN payload: payload[i] \in Byte

Build(family, payload) ==
  <<family, Len(payload)>> \o payload \o <<Checksum(payload), Terminator>>

\* What parse accepts, and what it returns.
Parses(frame) ==
  /\ Len(frame) >= 4
  /\ Len(frame) = frame[2] + 4
  /\ frame[frame[2] + 3] = Checksum(SubSeq(frame, 3, frame[2] + 2))
  /\ frame[frame[2] + 4] = Terminator
Parse(frame) == [family |-> frame[1], payload |-> SubSeq(frame, 3, frame[2] + 2)]

References(template) ==
  {template[i].ref : i \in {j \in DOMAIN template: "ref" \in DOMAIN template[j]}}

Value(specs, overrides, name) ==
  IF name \in DOMAIN overrides THEN overrides[name] ELSE specs[name].default

Resolvable(template, specs, overrides) ==
  /\ DOMAIN overrides \subseteq DOMAIN specs
  /\ \A name \in References(template):
       LET v == Value(specs, overrides, name)
       IN v \in Byte /\ specs[name].min <= v /\ v <= specs[name].max

Resolve(template, specs, overrides) ==
  [i \in DOMAIN template |-> IF "ref" \in DOMAIN template[i]
                             THEN Value(specs, overrides, template[i].ref)
                             ELSE template[i].lit]
====
