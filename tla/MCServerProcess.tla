---------------------------- MODULE MCServerProcess ----------------------------
(* One session, two renewals, of which the second can fall into the loading of   *)
(* the first, and one death or refused statement at any point: every migration   *)
(* can be cut at every statement, and run into by a command at every other.      *)
EXTENDS ServerProcess
=============================================================================
