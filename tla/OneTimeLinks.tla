---------------------------- MODULE OneTimeLinks ----------------------------
(***************************************************************************)
(* What the links of the verification service promise, whatever tables,    *)
(* clocks and threads are behind them: a link is issued once, can be spent *)
(* at most once and only while it is open, and takes effect, once, after   *)
(* it was spent.  A link that was closed stays closed.                     *)
(***************************************************************************)
CONSTANT Links

VARIABLES status,    \* status[l]: how far link l has come
          effective, \* links whose effect was carried out
          admitted   \* links whose waiting client was let through

vars == <<status, effective, admitted>>

Statuses == {"unissued", "open", "spent", "void"}

Init == /\ status = [l \in Links |-> "unissued"]
        /\ effective = {}
        /\ admitted = {}

With(value) == {l \in Links : status[l] = value}

Issue(S) ==
    /\ status' = [l \in Links |-> IF l \in S THEN "open" ELSE status[l]]
    /\ UNCHANGED <<effective, admitted>>

(* Links expire, several at a time, or are cancelled. *)
Lapse(S) ==
    /\ status' = [l \in Links |-> IF l \in S THEN "void" ELSE status[l]]
    /\ UNCHANGED <<effective, admitted>>

Spend(l) == /\ status[l] = "open"
            /\ status' = [status EXCEPT ![l] = "spent"]
            /\ UNCHANGED <<effective, admitted>>

TakeEffect(l) == /\ status[l] = "spent"
                 /\ l \notin effective
                 /\ effective' = effective \cup {l}
                 /\ UNCHANGED <<status, admitted>>

Admit(l) == /\ status[l] = "spent"
            /\ l \notin admitted
            /\ admitted' = admitted \cup {l}
            /\ UNCHANGED <<status, effective>>

Next == \/ \E S \in SUBSET With("unissued") : Issue(S)
        \/ \E S \in SUBSET With("open") : Lapse(S)
        \/ \E l \in Links : Spend(l) \/ TakeEffect(l) \/ Admit(l)

SafeSpec == Init /\ [][Next]_vars

(* A link that was spent takes effect in the end. *)
Spec == SafeSpec /\ \A l \in Links : WF_vars(TakeEffect(l))
=============================================================================
