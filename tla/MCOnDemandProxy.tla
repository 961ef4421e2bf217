--------------------------- MODULE MCOnDemandProxy ---------------------------
(* An instance of OnDemandProxy for TLC.                                     *)
EXTENDS OnDemandProxy, TLC

CONSTANTS c1, c2, i1

TwoConns == {c1, c2}
OneIP == {i1}
PairIpOf == [c \in TwoConns |-> i1]

\* Connections of one IP are interchangeable.
PairSymmetry == Permutations(TwoConns)
=============================================================================
