---------------------------- MODULE MCSpeakService ----------------------------
(* Two playbacks one after the other or at once, and the three lists of    *)
(* devices in which the robot is away, behind or before the host's output. *)
EXTENDS SpeakService

MCWorlds == {<<"host">>, <<"host", "robot">>, <<"robot", "host">>}
MCSinks  == {"clip", "stream"}
=============================================================================
