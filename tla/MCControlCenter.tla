---------------------------- MODULE MCControlCenter ----------------------------
(* An instance of ControlCenter: three requests of one source, as many as a *)
(* takeover of a takeover needs.                                            *)
EXTENDS ControlCenter

CONSTANTS r1, r2, r3, s1

AllRequests == {r1, r2, r3}
OneSource   == {s1}
SourceOfAll == [r \in AllRequests |-> s1]
=============================================================================
