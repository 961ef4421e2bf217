----------------------------- MODULE RequestGate -----------------------------
(***************************************************************************)
(* What the control center promises those who register requests, whatever  *)
(* records, pages and retention are behind it: a request is decided at     *)
(* most once and only while it waits, or is refused when it comes from a   *)
(* banned source; whoever is let go was granted or refused before; what is *)
(* over stays over; and a grant lets go in the end.                        *)
(***************************************************************************)
CONSTANTS Requests, Sources, SourceOf

VARIABLES phase,    \* how far a request has come
          granted,  \* requests the operator granted, over or not
          banned,   \* sources
          released  \* requests whose connection waits no longer

vars == <<phase, granted, banned, released>>

Phases == {"unseen", "waiting", "answered", "over"}

Init == /\ phase = [r \in Requests |-> "unseen"]
        /\ granted = {} /\ banned = {} /\ released = {}

(* A request waits.  One of its source that waited may be over by that. *)
Ask(r, overtaken) ==
    /\ phase[r] = "unseen" /\ SourceOf[r] \notin banned
    /\ \A q \in overtaken : phase[q] = "waiting" /\ SourceOf[q] = SourceOf[r]
    /\ phase' = [q \in Requests |-> IF q = r THEN "waiting"
                                    ELSE IF q \in overtaken THEN "over" ELSE phase[q]]
    /\ UNCHANGED <<granted, banned, released>>

Refuse(r) ==
    /\ phase[r] = "unseen" /\ SourceOf[r] \in banned
    /\ phase' = [phase EXCEPT ![r] = "answered"]
    /\ released' = released \cup {r}
    /\ UNCHANGED <<granted, banned>>

(* The connection may be let go at once, or after. *)
Grant(r) ==
    /\ phase[r] = "waiting"
    /\ phase' = [phase EXCEPT ![r] = "answered"]
    /\ granted' = granted \cup {r}
    /\ released' \in {released, released \cup {r}}
    /\ UNCHANGED banned

Release(r) ==
    /\ r \in granted \ released
    /\ released' = released \cup {r}
    /\ UNCHANGED <<phase, granted, banned>>

End(r) ==
    /\ phase[r] \in {"waiting", "answered"}
    /\ phase' = [phase EXCEPT ![r] = "over"]
    /\ UNCHANGED <<granted, banned, released>>

Ban(s) ==
    /\ banned' = banned \cup {s}
    /\ UNCHANGED <<phase, granted, released>>

Next ==
    \/ \E s \in Sources : Ban(s)
    \/ \E r \in Requests :
         \/ \E overtaken \in SUBSET (Requests \ {r}) : Ask(r, overtaken)
         \/ Refuse(r) \/ Grant(r) \/ Release(r) \/ End(r)

SafeSpec == Init /\ [][Next]_vars
Spec == SafeSpec /\ \A r \in Requests : WF_vars(Release(r))
=============================================================================
