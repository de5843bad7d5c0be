------------------------ MODULE MCReconnectingWebSocket ------------------------
(* Model-checking instances of ReconnectingWebSocket: five sockets are enough *)
(* for one in the ref, its predecessor still closing, an orphan of an earlier *)
(* render, and the next two attempts.                                         *)
EXTENDS ReconnectingWebSocket
=============================================================================
