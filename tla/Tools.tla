---- MODULE Tools ----
(* The parts around the engine and the speak service, one at a time: they share
   no state, so a behaviour is of one of them and the others stand still. *)
EXTENDS Evidence, Observe, Audio, Connection

VARIABLE tool

tools == <<tool, evidence, observe, audio, connection>>

Init ==
  /\ tool \in {"evidence", "observe", "audio", "connection"}
  /\ EvidenceInit /\ ObserveInit /\ AudioInit /\ ConnectionInit
  /\ tool # "audio" => body = (CHOOSE b \in Bodies: TRUE) /\ way = "clip"

InEvidence == tool = "evidence" /\ EvidenceNext /\ UNCHANGED <<tool, observe, audio, connection>>
InObserve == tool = "observe" /\ ObserveNext /\ UNCHANGED <<tool, evidence, audio, connection>>
InAudio == tool = "audio" /\ AudioNext /\ UNCHANGED <<tool, evidence, observe, connection>>
InConnection == tool = "connection" /\ ConnectionNext /\ UNCHANGED <<tool, evidence, observe, audio>>

Next == InEvidence \/ InObserve \/ InAudio \/ InConnection

Spec ==
  Init /\ [][Next]_tools
       /\ WF_tools(tool = "observe" /\ Advance /\ UNCHANGED <<tool, evidence, audio, connection>>)

\* Every run of the observe loop ends (RunEnds), here among the other tools.
ObserveEnds == tool = "observe" => RunEnds
====
