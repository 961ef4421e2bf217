------------------------- MODULE MCInstanceControl -------------------------
(* An instance of InstanceControl for TLC.                                  *)
EXTENDS InstanceControl

CONSTANTS h1, h2

TwoClients == {h1, h2}
OneClient == {h1}
=============================================================================
