--------------------------- MODULE MCWhitelistStore ---------------------------
(* Instances of WhitelistStore: two replicas, or one process with its file. *)
EXTENDS WhitelistStore, TLC

CONSTANTS p1, p2, i1, i2

TwoReplicas == {p1, p2}
OneProcess  == {p1}
TwoIps      == {i1, i2}
=============================================================================
