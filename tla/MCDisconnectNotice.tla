-------------------------- MODULE MCDisconnectNotice --------------------------
(* Three connections: a session, one that comes between, and a session that *)
(* finds what the two have left in the chat.                               *)
EXTENDS DisconnectNotice

CONSTANTS c1, c2, c3

ThreeConnections == {c1, c2, c3}
=============================================================================
