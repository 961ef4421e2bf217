--------------------------- MODULE MCTargetProxy ---------------------------
(* Instances of TargetProxy for TLC.  Connection c0 is one whose session has *)
(* ended a moment ago, where a run starts from AfterSession: the next        *)
(* connections of its address may pass without a click and take each other   *)
(* over.                                                                     *)
EXTENDS TargetProxy, TLC

CONSTANTS c0, c1, c2, c3, i1, i2

FourConns == {c0, c1, c2, c3}
ThreeConns == {c1, c2, c3}
TwoConns == {c1, c2}
ReturningConns == {c0, c1, c2}
TwoIPs == {i1, i2}
OneIP == {i1}

MixedIpOf == [c \in FourConns |-> IF c = c3 THEN i2 ELSE i1]
SameIpOf == [c \in ThreeConns |-> i1]
PairIpOf == [c \in TwoConns |-> i1]
ReturningIpOf == [c \in ReturningConns |-> i1]

AfterSession ==
    /\ pc = [c \in Conns |-> IF c = c0 THEN "closed" ELSE "listening"]
    /\ flags = [c \in Conns |-> {}]
    /\ sock = [c \in Conns |-> IF c = c0 THEN "closed" ELSE "none"]
    /\ upstream = [c \in Conns |-> IF c = c0 THEN "closed" ELSE "none"]
    /\ victim = [c \in Conns |-> NoConn]
    /\ pending = {}
    /\ age = [c \in Conns |-> 0]
    /\ recentApproved = {}
    /\ recentDisconnects = {i1}
    /\ token = [c \in Conns |-> IF c = c0 THEN "approved" ELSE "none"]
    /\ slot = NoConn
    /\ activeForwarding = NoConn
    /\ activeConnections = 0
    /\ stopRequested = FALSE

AfterSessionSpec == AfterSession /\ [][Next]_vars
FairAfterSessionSpec == AfterSessionSpec /\ Fairness

\* Connections of one IP that have not begun are interchangeable.
PairSymmetry == Permutations({c1, c2})
SameIpSymmetry == Permutations(ThreeConns)
=============================================================================
