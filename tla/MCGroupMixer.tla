---------------------------- MODULE MCGroupMixer ----------------------------
(* GroupMixer for TLC: the streams of the server in the order they are made. *)
EXTENDS GroupMixer

CONSTANTS allinone, karaoke, karaoke_delayed

SystemStreams == <<allinone, karaoke, karaoke_delayed>>
=============================================================================
