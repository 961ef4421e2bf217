------------------------ MODULE MCVerificationService ------------------------
(* A connection's token, one pair of action links and a control link. *)
EXTENDS VerificationService

CONSTANTS v1, n1, c1

OneConnection == {v1}
OneNotice == {n1}
OneControl == {c1}
=============================================================================
