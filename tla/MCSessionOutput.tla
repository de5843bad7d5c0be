---------------------------- MODULE MCSessionOutput ----------------------------
(* Model-checking instance of SessionOutput: one client, for clients share    *)
(* nothing but the two lists they are registered in; two posts served at once *)
(* and one whole-row writer; a channel of one output, so that it is full soon; *)
(* two screens, and one restart of the control plane.                         *)
EXTENDS SessionOutput
=============================================================================
