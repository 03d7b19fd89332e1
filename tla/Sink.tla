--------------------------------- MODULE Sink ---------------------------------
(***************************************************************************)
(* The audio sinks (speak/sink.py): each caches the index of the device    *)
(* named in its configuration; the list the index points into is a         *)
(* snapshot the PortAudio library took when it was initialised, one for    *)
(* the process, whichever sink has it rebuilt.                             *)
(*                                                                         *)
(* The devices are external: the host's own output, which is always there, *)
(* and the robot, which leaves and registers again.  An entry of the       *)
(* snapshot made before the robot's last registration is dead: every open  *)
(* of it fails.                                                            *)
(***************************************************************************)
EXTENDS Naturals, Sequences

CONSTANTS
  Sinks,     \* one AudioSink each: the clip player's, the stream players'
  Worlds     \* the lists of devices the host can have

ASSUME SinkAssumption == \A w \in Worlds : w \in Seq({"robot", "host"})

VARIABLES
  world,     \* the devices there are
  snapshot,  \* the devices the library knows
  dead,      \* the robot's entry of the snapshot is of an old registration
  index,     \* _index of each sink; 0 is None
  heard      \* the device the running playback's audio goes to

sinkVars == <<world, snapshot, dead, index, heard>>

SinkTypeOK ==
  /\ world \in Worlds /\ snapshot \in Worlds /\ dead \in BOOLEAN
  /\ index \in [Sinks -> Nat]
  /\ heard \in {"nothing", "robot", "host"}

SinkInit ==
  /\ world \in Worlds /\ snapshot = world /\ dead = FALSE
  /\ index = [k \in Sinks |-> 0] /\ heard = "nothing"

(* _resolve_index: the first output of that name in the snapshot; 0 is     *)
(* DeviceUnavailableError.                                                 *)
ResolveIndex(list) ==
  IF \E i \in 1..Len(list) : list[i] = "robot"
  THEN CHOOSE i \in 1..Len(list) : list[i] = "robot" ELSE 0

(* resolve: the cached index, or a lookup.                                 *)
Resolved(k) == IF index[k] # 0 THEN index[k] ELSE ResolveIndex(snapshot)

Resolve(k) ==
  /\ index' = [index EXCEPT ![k] = Resolved(k)] /\ heard' = "nothing"
  /\ UNCHANGED <<world, snapshot, dead>>

(* A stream on index i of a list opens: there is such an entry, alive.     *)
Opens(list, old, i) == i \in 1..Len(list) /\ ~(list[i] = "robot" /\ old)

WriteFirst(k) ==
  LET i == Resolved(k) IN
  /\ i # 0 /\ Opens(snapshot, dead, i)
  /\ heard' = snapshot[i] /\ index' = [index EXCEPT ![k] = i]
  /\ UNCHANGED <<world, snapshot, dead>>

\* A plausible bug: the index is kept over the rescan.
RecoverKept(k, rescanned) ==
  /\ snapshot' = IF rescanned THEN world ELSE snapshot
  /\ dead' = (dead /\ ~rescanned)
  /\ index' = index

(* recover, then the resolve that follows it: the index is dropped, the    *)
(* snapshot rebuilt (a failure of that is swallowed), the name looked up.  *)
Recover(k, rescanned) ==
  /\ snapshot' = IF rescanned THEN world ELSE snapshot
  /\ dead' = (dead /\ ~rescanned)
  /\ index' = [index EXCEPT ![k] = ResolveIndex(snapshot')]

(* The second write after a recovery, to the device the new index names.   *)
WriteAgain(k) ==
  /\ Recover(k, TRUE) \/ Recover(k, FALSE)
  /\ index'[k] # 0 /\ Opens(snapshot', dead', index'[k])
  /\ heard' = snapshot'[index'[k]] /\ UNCHANGED world

(* The recovery finds no device of that name, or the second write fails.   *)
WriteFails(k) ==
  /\ Recover(k, TRUE) \/ Recover(k, FALSE)
  /\ UNCHANGED <<world, heard>>

(* The robot leaves, or registers again.                                   *)
Reregister ==
  /\ world' \in Worlds /\ dead' = TRUE
  /\ UNCHANGED <<snapshot, index, heard>>
=============================================================================
