---------------------------- MODULE GatedSession ----------------------------
(***************************************************************************)
(* What one published RDP target promises, without saying how: a single    *)
(* session at a time, granted to a client whose IP somebody invited by a   *)
(* click (when verification is enforced), prepared (instance started,      *)
(* upstream connected) and then served until it ends.  Bypasses, queues,   *)
(* takeovers, sockets and threads are absent.                              *)
(***************************************************************************)
CONSTANTS
    Clients,  \* connections
    IPs,      \* client addresses
    IpOf,     \* the address of each connection
    Nobody,   \* the owner of a free session
    Gated     \* whether a click is required

VARIABLES
    owner,    \* the client that has the session
    phase,    \* free, preparing or serving
    invited   \* IPs for which a link was clicked

vars == <<owner, phase, invited>>

\* Addresses may have been invited in an earlier session.
Init == owner = Nobody /\ phase = "free" /\ invited \in SUBSET IPs

Invite(ip) ==
    /\ invited' = invited \cup {ip}
    /\ UNCHANGED <<owner, phase>>

Grant(c) ==
    /\ owner = Nobody
    /\ Gated => IpOf[c] \in invited
    /\ owner' = c
    /\ phase' = "preparing"
    /\ UNCHANGED invited

Serve ==
    /\ phase = "preparing"
    /\ phase' = "serving"
    /\ UNCHANGED <<owner, invited>>

End ==
    /\ owner # Nobody
    /\ owner' = Nobody
    /\ phase' = "free"
    /\ UNCHANGED invited

Next ==
    \/ \E ip \in IPs : Invite(ip)
    \/ \E c \in Clients : Grant(c)
    \/ Serve
    \/ End

Spec == Init /\ [][Next]_vars

\* A preparation comes to an end; how long a session is served is the client's
\* business.
FairSpec == Spec /\ WF_vars(phase = "preparing" /\ (Serve \/ End))
=============================================================================
