---------------------------- MODULE ControlCenter ----------------------------
(***************************************************************************)
(* rdp_proxy/control_center.py: the service with which connections         *)
(* register their requests, the operator's page that shows them summed up  *)
(* per source, and its approvals and blacklist.  Methods run on the        *)
(* threads of connections and of the HTTP server and hold one lock; only   *)
(* the event of an approved request is set after the lock was released.    *)
(* The action links of this service are those of VerificationService; the  *)
(* counters, the list of recent requests and the pages are left out.       *)
(***************************************************************************)
EXTENDS Integers

CONSTANTS Requests,  \* requests that connections may register, each once
          Sources,   \* pairs of a target and an address
          SourceOf,
          NoRequest, \* active_request_id is empty
          Retention, \* history_retention_seconds
          Horizon    \* bound: the last time

ASSUME SourceAssumption == SourceOf \in [Requests -> Sources] /\ NoRequest \notin Requests
ASSUME TimeAssumption == Retention \in Nat /\ Horizon \in Nat

VARIABLES
    status, requestedAt, approvedAt, \* the events; approvedAt says if it is set
    waitEvent,                       \* the requests whose event is set
    byId,                            \* _requests_by_id
    byKey,                           \* the keys of _requests_by_key
    shown,                           \* the status of the aggregates
    active, lastAt,                  \* active_request_id, last_requested_at
    whitelist, blacklist,
    releasing,                       \* approved, and the event still to be set
    clock

events     == <<status, requestedAt, approvedAt>>
aggregates == <<shown, active, lastAt>>
lists      == <<whitelist, blacklist>>
vars == <<events, waitEvent, byId, byKey, aggregates, lists, releasing, clock>>

Init ==
    /\ status = [r \in Requests |-> "new"]
    /\ requestedAt = [r \in Requests |-> 0]
    /\ approvedAt = [r \in Requests |-> FALSE]
    /\ waitEvent = {} /\ byId = {} /\ byKey = {}
    /\ shown = [s \in Sources |-> "idle"]
    /\ active = [s \in Sources |-> NoRequest]
    /\ lastAt = [s \in Sources |-> 0]
    /\ whitelist = {} /\ blacklist = {}
    /\ releasing = {}
    /\ clock = 0

-----------------------------------------------------------------------------
(* _cleanup_locked: requests that are over, and sources without an active  *)
(* request, are forgotten when the retention has passed.                   *)
KeptRequests ==
    {r \in byId : requestedAt[r] >= clock - Retention
                  \/ status[r] \notin {"closed", "superseded"}}

KeptSources ==
    {s \in byKey : active[s] # NoRequest \/ lastAt[s] >= clock - Retention}

Opens(r) ==
    /\ status[r] = "new"
    /\ byId' = KeptRequests \cup {r}
    /\ requestedAt' = [requestedAt EXCEPT ![r] = clock]

(* The request becomes the active one of its source. *)
Shows(r) ==
    LET s == SourceOf[r] IN
      /\ byKey' = KeptSources \cup {s}
      /\ shown' = [shown EXCEPT ![s] = "pending"]
      /\ active' = [active EXCEPT ![s] = r]
      /\ lastAt' = [lastAt EXCEPT ![s] = clock]

RegisterBlacklisted(r) ==
    /\ Opens(r)
    /\ SourceOf[r] \in blacklist
    /\ status' = [status EXCEPT ![r] = "rejected"]
    /\ waitEvent' = waitEvent \cup {r}
    /\ byKey' = KeptSources
    /\ UNCHANGED <<approvedAt, aggregates, lists, releasing, clock>>

(* A source approved before gets a link for a quick approval; a request of *)
(* it that is still open stays as it is.                                   *)
RegisterKnown(r) ==
    /\ Opens(r)
    /\ SourceOf[r] \in whitelist \ blacklist
    /\ status' = [status EXCEPT ![r] = "pending_quick_approval"]
    /\ Shows(r)
    /\ UNCHANGED <<approvedAt, waitEvent, lists, releasing, clock>>

(* Fault: the request that was active is left pending. *)
RegisterNewFault(r) ==
    /\ Opens(r)
    /\ SourceOf[r] \notin whitelist \cup blacklist
    /\ status' = [status EXCEPT ![r] = "pending"]
    /\ Shows(r)
    /\ UNCHANGED <<approvedAt, waitEvent, lists, releasing, clock>>

(* Any other request takes the place of the source's active one, if that   *)
(* is pending or approved.                                                 *)
RegisterNew(r) ==
    /\ Opens(r)
    /\ SourceOf[r] \notin whitelist \cup blacklist
    /\ LET previous == IF SourceOf[r] \in KeptSources THEN active[SourceOf[r]] ELSE NoRequest
       IN  status' = [q \in Requests |->
                        IF q = r THEN "pending"
                        ELSE IF q = previous /\ q \in KeptRequests
                                /\ status[q] \in {"pending", "approved"} THEN "superseded"
                        ELSE status[q]]
    /\ Shows(r)
    /\ UNCHANGED <<approvedAt, waitEvent, lists, releasing, clock>>

-----------------------------------------------------------------------------
(* What both approvals do to the request and to its source. *)
Approves(r, sources) ==
    /\ status' = [status EXCEPT ![r] = "approved"]
    /\ approvedAt' = [approvedAt EXCEPT ![r] = TRUE]
    /\ shown' = [s \in Sources |-> IF s = SourceOf[r] /\ s \in sources
                                     THEN "approved" ELSE shown[s]]
    /\ whitelist' = whitelist \cup {SourceOf[r]}

(* Fault: the button works for any request that is not closed. *)
ApproveRequestFault(r) ==
    /\ r \in KeptRequests /\ status[r] # "closed"
    /\ byId' = KeptRequests /\ byKey' = KeptSources
    /\ Approves(r, KeptSources)
    /\ releasing' = releasing \cup {r}
    /\ UNCHANGED <<requestedAt, waitEvent, active, lastAt, blacklist, clock>>

(* The operator presses the button of a record. *)
ApproveRequest(r) ==
    /\ r \in KeptRequests /\ status[r] = "pending"
    /\ byId' = KeptRequests /\ byKey' = KeptSources
    /\ Approves(r, KeptSources)
    /\ releasing' = releasing \cup {r}
    /\ UNCHANGED <<requestedAt, waitEvent, active, lastAt, blacklist, clock>>

(* Fault: the approval sets the event over and over. *)
SetWaitEventFault(r) ==
    /\ r \in releasing
    /\ waitEvent' = waitEvent \cup {r}
    /\ UNCHANGED <<events, byId, byKey, aggregates, lists, releasing, clock>>

(* The thread of the approval sets the event. *)
SetWaitEvent(r) ==
    /\ r \in releasing
    /\ releasing' = releasing \ {r}
    /\ waitEvent' = waitEvent \cup {r}
    /\ UNCHANGED <<events, byId, byKey, aggregates, lists, clock>>

(* Fault: any open request of the link's source is approved and released. *)
ApproveByQuickTokenFault(r) ==
    /\ r \in byId /\ status[r] = "pending_quick_approval"
    /\ Approves(r, byKey)
    /\ waitEvent' = waitEvent \cup {q \in byId : SourceOf[q] = SourceOf[r]}
    /\ UNCHANGED <<requestedAt, byId, byKey, active, lastAt, blacklist, releasing, clock>>

(* The link of a quick approval is followed; the page it is answered with  *)
(* says Not Found first.                                                   *)
ApproveByQuickToken(r) ==
    /\ r \in byId /\ status[r] = "pending_quick_approval"
    /\ Approves(r, byKey)
    /\ waitEvent' = waitEvent \cup {r}
    /\ UNCHANGED <<requestedAt, byId, byKey, active, lastAt, blacklist, releasing, clock>>

(* The operator blacklists sources; their open requests stay as they are. *)
BlacklistTargets(targets) ==
    /\ blacklist' = blacklist \cup targets
    /\ whitelist' = whitelist \ targets
    /\ UNCHANGED <<events, waitEvent, byId, byKey, aggregates, releasing, clock>>

(* The connection of the request is over. *)
CloseRequest(r) ==
    /\ r \in KeptRequests /\ status[r] \notin {"closed", "superseded"}
    /\ byId' = KeptRequests /\ byKey' = KeptSources
    /\ status' = [status EXCEPT ![r] = "closed"]
    /\ LET Ends(s) == s = SourceOf[r] /\ s \in KeptSources /\ active[s] = r IN
         /\ shown' = [s \in Sources |-> IF Ends(s) THEN "closed" ELSE shown[s]]
         /\ active' = [s \in Sources |-> IF Ends(s) THEN NoRequest ELSE active[s]]
    /\ UNCHANGED <<requestedAt, approvedAt, waitEvent, lastAt, lists, releasing, clock>>

(* The page is drawn, or a request or a link is refused after the clean-up. *)
Snapshot ==
    /\ byId' = KeptRequests /\ byKey' = KeptSources
    /\ UNCHANGED <<events, waitEvent, aggregates, lists, releasing, clock>>

Tick ==
    /\ clock < Horizon
    /\ clock' = clock + 1
    /\ UNCHANGED <<events, waitEvent, byId, byKey, aggregates, lists, releasing>>

-----------------------------------------------------------------------------
Next ==
    \/ Snapshot
    \/ Tick
    \/ \E s \in Sources : BlacklistTargets({s})
    \/ \E r \in Requests :
         \/ RegisterBlacklisted(r)
         \/ RegisterKnown(r)
         \/ RegisterNew(r)
         \/ ApproveRequest(r)
         \/ SetWaitEvent(r)
         \/ ApproveByQuickToken(r)
         \/ CloseRequest(r)

Spec == Init /\ [][Next]_vars

(* A thread that approves a request goes on to set its event. *)
FairSpec == Spec /\ \A r \in Requests : WF_vars(SetWaitEvent(r))

Statuses == {"new", "pending", "pending_quick_approval", "approved", "rejected",
             "closed", "superseded"}

(* Every variable has its type; an event that is still to be set is not set. *)
TypeOK ==
    /\ status \in [Requests -> Statuses]
    /\ requestedAt \in [Requests -> Nat]
    /\ approvedAt \in [Requests -> BOOLEAN]
    /\ waitEvent \in SUBSET Requests /\ byId \in SUBSET Requests
    /\ byKey \in SUBSET Sources
    /\ shown \in [Sources -> {"idle", "pending", "approved", "closed"}]
    /\ active \in [Sources -> Requests \cup {NoRequest}]
    /\ lastAt \in [Sources -> Nat]
    /\ whitelist \in SUBSET Sources /\ blacklist \in SUBSET Sources
    /\ releasing \in SUBSET Requests /\ releasing \cap waitEvent = {}
    /\ clock \in Nat

(* Records that the page offers a button for (control_center.py:422). *)
Offered(s) == s \in byKey /\ shown[s] = "pending" /\ active[s] # NoRequest

(* A request that waits for the operator is on his page: it is kept, it is *)
(* the active one of its source, and no other of that source is (so that   *)
(* registering, taking over, closing and forgetting never hide a request). *)
PendingIsOnPage ==
    \A r \in Requests :
      status[r] = "pending" =>
        r \in byId /\ Offered(SourceOf[r]) /\ active[SourceOf[r]] = r

(* The active request of a source exists and is neither over nor rejected: *)
(* a record of the page is always about a request that is still open.      *)
ActiveIsOpen ==
    \A s \in Sources :
      active[s] # NoRequest =>
        /\ s \in byKey /\ active[s] \in byId /\ SourceOf[active[s]] = s
        /\ status[active[s]] \in {"pending", "pending_quick_approval", "approved"}

(* A connection is released from its wait only if its own request was      *)
(* approved, or its source is blacklisted: not by the approval of another  *)
(* request of the source, by a takeover or by the clean-up.                *)
ReleasedWasDecided ==
    \A r \in waitEvent : approvedAt[r] \/ SourceOf[r] \in blacklist

(* How far a request has come, for those who wait for it. *)
Phase(r) ==
    CASE status[r] = "new" -> "unseen"
      [] status[r] \in {"pending", "pending_quick_approval"} -> "waiting"
      [] status[r] \in {"approved", "rejected"} -> "answered"
      [] OTHER -> "over"

Gate == INSTANCE RequestGate WITH
          phase <- [r \in Requests |-> Phase(r)],
          granted <- {r \in Requests : approvedAt[r]},
          banned <- blacklist,
          released <- waitEvent

(* Two ways to approve, a takeover that supersedes, a blacklist, a clean-up *)
(* that forgets and an event set after the lock implement requests that     *)
(* are decided at most once, only while they wait, never after they were    *)
(* over, and let their connections go in the end when they were approved.   *)
ImplementsRequestGate == Gate!Spec
=============================================================================
