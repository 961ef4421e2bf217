------------------------ MODULE ControlCenterProofs ------------------------
(***************************************************************************)
(* Proofs about ControlCenter, for any requests, sources and bounds.       *)
(***************************************************************************)
EXTENDS ControlCenter, TLAPS

(* Requests that wait for the button come from sources not approved yet,   *)
(* requests that wait for a link from sources that were; a source with an  *)
(* approved request was approved; and what is kept was registered.         *)
KnownByStatus ==
    \A r \in Requests :
      /\ status[r] = "pending" => SourceOf[r] \notin whitelist
      /\ status[r] \in {"pending_quick_approval", "approved"} =>
           SourceOf[r] \in whitelist \cup blacklist
      /\ r \in byId => status[r] # "new"

(* A source never has both kinds. *)
OneKind ==
    \A r, q \in Requests :
      status[r] = "pending" /\ status[q] = "pending_quick_approval" => SourceOf[r] # SourceOf[q]

(* An event is set, or about to be, only for a request that was decided. *)
Decided ==
    /\ \A r \in waitEvent \cup releasing :
         status[r] \notin {"new", "pending", "pending_quick_approval"}
    /\ \A r \in releasing : approvedAt[r]

IInv ==
    /\ TypeOK
    /\ PendingIsOnPage
    /\ ActiveIsOpen
    /\ ReleasedWasDecided
    /\ KnownByStatus
    /\ OneKind
    /\ Decided

-----------------------------------------------------------------------------
(* The initial states satisfy the invariant. *)
LEMMA InitInv == Init => IInv
  BY SourceAssumption, TimeAssumption
  DEF Init, IInv, TypeOK, PendingIsOnPage, ActiveIsOpen, ReleasedWasDecided,
      KnownByStatus, OneKind, Decided, Offered, Statuses

(* The clean-up forgets neither an active request nor its source. *)
LEMMA CleanUp ==
  ASSUME IInv
  PROVE  /\ KeptRequests \subseteq byId /\ KeptSources \subseteq byKey
         /\ \A s \in Sources : active[s] # NoRequest =>
              s \in KeptSources /\ active[s] \in KeptRequests
  BY SourceAssumption DEF IInv, TypeOK, ActiveIsOpen, KeptRequests, KeptSources

(* A request of a blacklisted source keeps the invariant. *)
LEMMA RegisterBlacklistedInv ==
  ASSUME IInv, NEW r \in Requests, RegisterBlacklisted(r)
  PROVE  IInv'
  <1> USE SourceAssumption, TimeAssumption, CleanUp DEF RegisterBlacklisted, Opens, aggregates, lists
  <1>1. TypeOK'
    BY DEF IInv, TypeOK, Decided, Statuses
  <1>2. PendingIsOnPage'
    BY DEF IInv, TypeOK, PendingIsOnPage, ActiveIsOpen, KnownByStatus, OneKind, Offered, Statuses
  <1>3. ActiveIsOpen'
    BY DEF IInv, TypeOK, ActiveIsOpen, Statuses
  <1>4. ReleasedWasDecided'
    BY DEF IInv, TypeOK, ReleasedWasDecided, Decided, Statuses
  <1>5. KnownByStatus'
    BY DEF IInv, TypeOK, PendingIsOnPage, KnownByStatus, OneKind, Statuses
  <1>6. OneKind'
    BY DEF IInv, TypeOK, KnownByStatus, OneKind, Statuses
  <1>7. Decided'
    BY DEF IInv, TypeOK, Decided, Statuses
  <1> QED  BY <1>1, <1>2, <1>3, <1>4, <1>5, <1>6, <1>7 DEF IInv

(* A request of a source approved before keeps the invariant. *)
LEMMA RegisterKnownInv ==
  ASSUME IInv, NEW r \in Requests, RegisterKnown(r)
  PROVE  IInv'
  <1> USE SourceAssumption, TimeAssumption, CleanUp DEF RegisterKnown, Opens, Shows, lists
  <1>1. TypeOK'
    BY DEF IInv, TypeOK, Decided, Statuses
  <1>2. PendingIsOnPage'
    BY DEF IInv, TypeOK, PendingIsOnPage, ActiveIsOpen, KnownByStatus, OneKind, Offered, Statuses
  <1>3. ActiveIsOpen'
    BY DEF IInv, TypeOK, ActiveIsOpen, Statuses
  <1>4. ReleasedWasDecided'
    BY DEF IInv, TypeOK, ReleasedWasDecided, Decided, Statuses
  <1>5. KnownByStatus'
    BY DEF IInv, TypeOK, PendingIsOnPage, KnownByStatus, OneKind, Statuses
  <1>6. OneKind'
    BY DEF IInv, TypeOK, KnownByStatus, OneKind, Statuses
  <1>7. Decided'
    BY DEF IInv, TypeOK, Decided, Statuses
  <1> QED  BY <1>1, <1>2, <1>3, <1>4, <1>5, <1>6, <1>7 DEF IInv

(* A request of any other source keeps the invariant. *)
LEMMA RegisterNewInv ==
  ASSUME IInv, NEW r \in Requests, RegisterNew(r)
  PROVE  IInv'
  <1> USE SourceAssumption, TimeAssumption, CleanUp DEF RegisterNew, Opens, Shows, lists
  <1>1. TypeOK'
    BY DEF IInv, TypeOK, Decided, Statuses
  <1>2. PendingIsOnPage'
    <2> SUFFICES ASSUME NEW q \in Requests, status'[q] = "pending"
                 PROVE  q \in byId' /\ Offered(SourceOf[q])' /\ active'[SourceOf[q]] = q
      BY DEF PendingIsOnPage
    <2>1. CASE q = r
      BY <2>1 DEF IInv, TypeOK, Offered
    <2>2. CASE q # r
      <3>1. /\ status[q] = "pending"
            /\ q \in byId /\ Offered(SourceOf[q]) /\ active[SourceOf[q]] = q
        BY <2>2 DEF IInv, TypeOK, PendingIsOnPage
      <3>2. SourceOf[q] \in KeptSources /\ q \in KeptRequests
        <4>1. SourceOf[q] \in Sources /\ active[SourceOf[q]] # NoRequest
          BY <3>1
        <4>2. /\ SourceOf[q] \in KeptSources
              /\ active[SourceOf[q]] \in KeptRequests
          BY <4>1, CleanUp
        <4> QED  BY <3>1, <4>2
      <3>3. SourceOf[q] # SourceOf[r]
        <4> SUFFICES ASSUME SourceOf[q] = SourceOf[r] PROVE FALSE
          OBVIOUS
        <4>1. status'[q] = "superseded"
          BY <2>2, <3>1, <3>2
        <4> QED  BY <4>1
      <3> QED  BY <3>1, <3>2, <3>3 DEF IInv, TypeOK, Offered
    <2> QED  BY <2>1, <2>2
  <1>3. ActiveIsOpen'
    BY DEF IInv, TypeOK, ActiveIsOpen, Statuses
  <1>4. ReleasedWasDecided'
    BY DEF IInv, TypeOK, ReleasedWasDecided, Decided, Statuses
  <1>5. KnownByStatus'
    BY DEF IInv, TypeOK, PendingIsOnPage, KnownByStatus, OneKind, Statuses
  <1>6. OneKind'
    BY DEF IInv, TypeOK, KnownByStatus, OneKind, Statuses
  <1>7. Decided'
    BY DEF IInv, TypeOK, Decided, Statuses
  <1> QED  BY <1>1, <1>2, <1>3, <1>4, <1>5, <1>6, <1>7 DEF IInv

(* The button keeps the invariant. *)
LEMMA ApproveRequestInv ==
  ASSUME IInv, NEW r \in Requests, ApproveRequest(r)
  PROVE  IInv'
  <1> USE SourceAssumption, TimeAssumption, CleanUp DEF ApproveRequest, Approves
  <1>1. TypeOK'
    BY DEF IInv, TypeOK, Decided, Statuses
  <1>2. PendingIsOnPage'
    BY DEF IInv, TypeOK, PendingIsOnPage, ActiveIsOpen, KnownByStatus, OneKind, Offered, Statuses
  <1>3. ActiveIsOpen'
    BY DEF IInv, TypeOK, ActiveIsOpen, Statuses
  <1>4. ReleasedWasDecided'
    BY DEF IInv, TypeOK, ReleasedWasDecided, Decided, Statuses
  <1>5. KnownByStatus'
    BY DEF IInv, TypeOK, PendingIsOnPage, KnownByStatus, OneKind, Statuses
  <1>6. OneKind'
    BY DEF IInv, TypeOK, KnownByStatus, OneKind, Statuses
  <1>7. Decided'
    BY DEF IInv, TypeOK, Decided, Statuses
  <1> QED  BY <1>1, <1>2, <1>3, <1>4, <1>5, <1>6, <1>7 DEF IInv

(* The late setting of the event keeps the invariant. *)
LEMMA SetWaitEventInv ==
  ASSUME IInv, NEW r \in Requests, SetWaitEvent(r)
  PROVE  IInv'
  <1> USE SourceAssumption, TimeAssumption, CleanUp DEF SetWaitEvent, events, aggregates, lists
  <1>1. TypeOK'
    BY DEF IInv, TypeOK, Decided, Statuses
  <1>2. PendingIsOnPage'
    BY DEF IInv, TypeOK, PendingIsOnPage, ActiveIsOpen, KnownByStatus, OneKind, Offered, Statuses
  <1>3. ActiveIsOpen'
    BY DEF IInv, TypeOK, ActiveIsOpen, Statuses
  <1>4. ReleasedWasDecided'
    BY DEF IInv, TypeOK, ReleasedWasDecided, Decided, Statuses
  <1>5. KnownByStatus'
    BY DEF IInv, TypeOK, PendingIsOnPage, KnownByStatus, OneKind, Statuses
  <1>6. OneKind'
    BY DEF IInv, TypeOK, KnownByStatus, OneKind, Statuses
  <1>7. Decided'
    BY DEF IInv, TypeOK, Decided, Statuses
  <1> QED  BY <1>1, <1>2, <1>3, <1>4, <1>5, <1>6, <1>7 DEF IInv

(* The quick link keeps the invariant. *)
LEMMA ApproveByQuickTokenInv ==
  ASSUME IInv, NEW r \in Requests, ApproveByQuickToken(r)
  PROVE  IInv'
  <1> USE SourceAssumption, TimeAssumption, CleanUp DEF ApproveByQuickToken, Approves
  <1>1. TypeOK'
    BY DEF IInv, TypeOK, Decided, Statuses
  <1>2. PendingIsOnPage'
    BY DEF IInv, TypeOK, PendingIsOnPage, ActiveIsOpen, KnownByStatus, OneKind, Offered, Statuses
  <1>3. ActiveIsOpen'
    BY DEF IInv, TypeOK, ActiveIsOpen, Statuses
  <1>4. ReleasedWasDecided'
    BY DEF IInv, TypeOK, ReleasedWasDecided, Decided, Statuses
  <1>5. KnownByStatus'
    BY DEF IInv, TypeOK, PendingIsOnPage, KnownByStatus, OneKind, Statuses
  <1>6. OneKind'
    BY DEF IInv, TypeOK, KnownByStatus, OneKind, Statuses
  <1>7. Decided'
    BY DEF IInv, TypeOK, Decided, Statuses
  <1> QED  BY <1>1, <1>2, <1>3, <1>4, <1>5, <1>6, <1>7 DEF IInv

(* The end of a connection keeps the invariant. *)
LEMMA CloseRequestInv ==
  ASSUME IInv, NEW r \in Requests, CloseRequest(r)
  PROVE  IInv'
  <1> USE SourceAssumption, TimeAssumption, CleanUp DEF CloseRequest, lists
  <1>1. TypeOK'
    BY DEF IInv, TypeOK, Decided, Statuses
  <1>2. PendingIsOnPage'
    BY DEF IInv, TypeOK, PendingIsOnPage, ActiveIsOpen, KnownByStatus, OneKind, Offered, Statuses
  <1>3. ActiveIsOpen'
    BY DEF IInv, TypeOK, ActiveIsOpen, Statuses
  <1>4. ReleasedWasDecided'
    BY DEF IInv, TypeOK, ReleasedWasDecided, Decided, Statuses
  <1>5. KnownByStatus'
    BY DEF IInv, TypeOK, PendingIsOnPage, KnownByStatus, OneKind, Statuses
  <1>6. OneKind'
    BY DEF IInv, TypeOK, KnownByStatus, OneKind, Statuses
  <1>7. Decided'
    BY DEF IInv, TypeOK, Decided, Statuses
  <1> QED  BY <1>1, <1>2, <1>3, <1>4, <1>5, <1>6, <1>7 DEF IInv

(* Blacklisting keeps the invariant. *)
LEMMA BlacklistTargetsInv ==
  ASSUME IInv, NEW s \in Sources, BlacklistTargets({s})
  PROVE  IInv'
  <1> USE SourceAssumption, TimeAssumption, CleanUp DEF BlacklistTargets, events, aggregates
  <1>1. TypeOK'
    BY DEF IInv, TypeOK, Decided, Statuses
  <1>2. PendingIsOnPage'
    BY DEF IInv, TypeOK, PendingIsOnPage, ActiveIsOpen, KnownByStatus, OneKind, Offered, Statuses
  <1>3. ActiveIsOpen'
    BY DEF IInv, TypeOK, ActiveIsOpen, Statuses
  <1>4. ReleasedWasDecided'
    BY DEF IInv, TypeOK, ReleasedWasDecided, Decided, Statuses
  <1>5. KnownByStatus'
    BY DEF IInv, TypeOK, PendingIsOnPage, KnownByStatus, OneKind, Statuses
  <1>6. OneKind'
    BY DEF IInv, TypeOK, KnownByStatus, OneKind, Statuses
  <1>7. Decided'
    BY DEF IInv, TypeOK, Decided, Statuses
  <1> QED  BY <1>1, <1>2, <1>3, <1>4, <1>5, <1>6, <1>7 DEF IInv

(* The page and its clean-up keep the invariant. *)
LEMMA SnapshotInv ==
  ASSUME IInv, Snapshot
  PROVE  IInv'
  <1> USE SourceAssumption, TimeAssumption, CleanUp DEF Snapshot, events, aggregates, lists
  <1>1. TypeOK'
    BY DEF IInv, TypeOK, Decided, Statuses
  <1>2. PendingIsOnPage'
    BY DEF IInv, TypeOK, PendingIsOnPage, ActiveIsOpen, KnownByStatus, OneKind, Offered, Statuses
  <1>3. ActiveIsOpen'
    BY DEF IInv, TypeOK, ActiveIsOpen, Statuses
  <1>4. ReleasedWasDecided'
    BY DEF IInv, TypeOK, ReleasedWasDecided, Decided, Statuses
  <1>5. KnownByStatus'
    BY DEF IInv, TypeOK, PendingIsOnPage, KnownByStatus, OneKind, Statuses
  <1>6. OneKind'
    BY DEF IInv, TypeOK, KnownByStatus, OneKind, Statuses
  <1>7. Decided'
    BY DEF IInv, TypeOK, Decided, Statuses
  <1> QED  BY <1>1, <1>2, <1>3, <1>4, <1>5, <1>6, <1>7 DEF IInv

(* Time keeps the invariant. *)
LEMMA TickInv ==
  ASSUME IInv, Tick
  PROVE  IInv'
  <1> USE SourceAssumption, TimeAssumption, CleanUp DEF Tick, events, aggregates, lists
  <1>1. TypeOK'
    BY DEF IInv, TypeOK, Decided, Statuses
  <1>2. PendingIsOnPage'
    BY DEF IInv, TypeOK, PendingIsOnPage, ActiveIsOpen, KnownByStatus, OneKind, Offered, Statuses
  <1>3. ActiveIsOpen'
    BY DEF IInv, TypeOK, ActiveIsOpen, Statuses
  <1>4. ReleasedWasDecided'
    BY DEF IInv, TypeOK, ReleasedWasDecided, Decided, Statuses
  <1>5. KnownByStatus'
    BY DEF IInv, TypeOK, PendingIsOnPage, KnownByStatus, OneKind, Statuses
  <1>6. OneKind'
    BY DEF IInv, TypeOK, KnownByStatus, OneKind, Statuses
  <1>7. Decided'
    BY DEF IInv, TypeOK, Decided, Statuses
  <1> QED  BY <1>1, <1>2, <1>3, <1>4, <1>5, <1>6, <1>7 DEF IInv

-----------------------------------------------------------------------------
(* Every step of the specification keeps the invariant. *)
LEMMA NextInv == IInv /\ [Next]_vars => IInv'
  <1> SUFFICES ASSUME IInv, [Next]_vars PROVE IInv'
    OBVIOUS
  <1>1. CASE Next
    <2>1. CASE Snapshot \/ Tick
      BY <2>1, SnapshotInv, TickInv
    <2>2. ASSUME NEW s \in Sources, BlacklistTargets({s}) PROVE IInv'
      BY <2>2, BlacklistTargetsInv
    <2>3. ASSUME NEW r \in Requests,
                 \/ RegisterBlacklisted(r) \/ RegisterKnown(r) \/ RegisterNew(r)
                 \/ ApproveRequest(r) \/ SetWaitEvent(r) \/ ApproveByQuickToken(r)
                 \/ CloseRequest(r)
          PROVE  IInv'
      BY <2>3, RegisterBlacklistedInv, RegisterKnownInv, RegisterNewInv,
         ApproveRequestInv, SetWaitEventInv, ApproveByQuickTokenInv, CloseRequestInv
    <2> QED  BY <1>1, <2>1, <2>2, <2>3 DEF Next
  <1>2. CASE UNCHANGED vars
    BY <1>2
    DEF vars, events, aggregates, lists, IInv, TypeOK, PendingIsOnPage, ActiveIsOpen,
        ReleasedWasDecided, KnownByStatus, OneKind, Decided, Offered
  <1> QED  BY <1>1, <1>2

(* The strengthened invariant holds in every reachable state. *)
THEOREM Invariance == Spec => []IInv
  BY InitInv, NextInv, PTL DEF Spec

(* Type correctness; no event is set twice. *)
THEOREM Typing == Spec => []TypeOK
  <1>1. IInv => TypeOK
    BY DEF IInv
  <1> QED  BY Invariance, <1>1, PTL

(* A request that waits for the operator is on his page, the only one of   *)
(* its source. *)
THEOREM PendingShown == Spec => []PendingIsOnPage
  <1>1. IInv => PendingIsOnPage
    BY DEF IInv
  <1> QED  BY Invariance, <1>1, PTL

(* A record of the page is about a request that is still open. *)
THEOREM RecordsAreOpen == Spec => []ActiveIsOpen
  <1>1. IInv => ActiveIsOpen
    BY DEF IInv
  <1> QED  BY Invariance, <1>1, PTL

(* Nobody is released from its wait without a decision about its request   *)
(* or its source. *)
THEOREM ReleaseIsDecided == Spec => []ReleasedWasDecided
  <1>1. IInv => ReleasedWasDecided
    BY DEF IInv
  <1> QED  BY Invariance, <1>1, PTL

-----------------------------------------------------------------------------
(* The steps of the center, seen as those of the gate. *)

(* A new request is asked, or refused. *)
LEMMA RegisterIsAsk ==
  ASSUME IInv, NEW r \in Requests,
         RegisterBlacklisted(r) \/ RegisterKnown(r) \/ RegisterNew(r)
  PROVE  Gate!Next
  <1> USE SourceAssumption DEF Opens, Shows, aggregates, lists
  <1>1. CASE RegisterBlacklisted(r)
    <2>1. Gate!Refuse(r)
      BY <1>1 DEF RegisterBlacklisted, IInv, TypeOK, Phase, Gate!Refuse
    <2> QED  BY <2>1 DEF Gate!Next
  <1>2. CASE RegisterKnown(r)
    <2>1. Gate!Ask(r, {})
      BY <1>2 DEF RegisterKnown, IInv, TypeOK, Phase, Gate!Ask
    <2> QED  BY <2>1 DEF Gate!Next
  <1>3. CASE RegisterNew(r)
    <2> DEFINE overtaken == {q \in Requests \ {r} : status[q] = "pending" /\ status'[q] = "superseded"}
    <2>1. ASSUME NEW q \in Requests, q # r
          PROVE  \/ status'[q] = status[q]
                 \/ status'[q] = "superseded" /\ status[q] = "pending" /\ SourceOf[q] = SourceOf[r]
      <3>1. CASE status'[q] # status[q]
        <4>1. /\ q = active[SourceOf[r]] /\ active[SourceOf[r]] # NoRequest
              /\ status'[q] = "superseded" /\ status[q] \in {"pending", "approved"}
          BY <1>3, <2>1, <3>1 DEF RegisterNew
        <4>2. SourceOf[q] = SourceOf[r]
          BY <4>1 DEF IInv, ActiveIsOpen
        <4>3. status[q] # "approved"
          BY <1>3, <4>2 DEF RegisterNew, IInv, KnownByStatus
        <4> QED  BY <4>1, <4>2, <4>3
      <3> QED  BY <3>1
    <2>2. status[r] = "new" /\ status'[r] = "pending" /\ SourceOf[r] \notin blacklist
      BY <1>3 DEF RegisterNew
    <2>3. Gate!Ask(r, overtaken)
      BY <1>3, <2>1, <2>2 DEF RegisterNew, IInv, TypeOK, Phase, Gate!Ask
    <2>4. overtaken \in SUBSET (Requests \ {r})
      OBVIOUS
    <2> QED  BY <2>3, <2>4 DEF Gate!Next
  <1> QED  BY <1>1, <1>2, <1>3

(* Both approvals are a grant: one with the release, one before it. *)
LEMMA ApprovalIsGrant ==
  ASSUME IInv, NEW r \in Requests, ApproveRequest(r) \/ ApproveByQuickToken(r)
  PROVE  Gate!Next
  <1>1. /\ status[r] \in {"pending", "pending_quick_approval"}
        /\ status' = [status EXCEPT ![r] = "approved"]
        /\ approvedAt' = [approvedAt EXCEPT ![r] = TRUE]
        /\ waitEvent' \in {waitEvent, waitEvent \cup {r}}
        /\ blacklist' = blacklist
    BY DEF ApproveRequest, ApproveByQuickToken, Approves
  <1>2. [q \in Requests |-> Phase(q)]' = [[q \in Requests |-> Phase(q)] EXCEPT ![r] = "answered"]
    BY <1>1 DEF IInv, TypeOK, Phase
  <1>3. {q \in Requests : approvedAt[q]}' = {q \in Requests : approvedAt[q]} \cup {r}
    BY <1>1 DEF IInv, TypeOK
  <1>4. Phase(r) = "waiting"
    BY <1>1 DEF Phase
  <1>5. Gate!Grant(r)
    BY <1>1, <1>2, <1>3, <1>4 DEF Gate!Grant
  <1> QED  BY <1>5 DEF Gate!Next

(* The late setting of the event is the release of a grant. *)
LEMMA EventIsRelease ==
  ASSUME IInv, NEW r \in Requests, SetWaitEvent(r)
  PROVE  Gate!Next
  <1>1. Gate!Release(r)
    BY DEF SetWaitEvent, events, aggregates, lists, IInv, TypeOK, Decided, Phase, Gate!Release
  <1> QED  BY <1>1 DEF Gate!Next

(* The end of a connection ends a request that had begun. *)
LEMMA CloseIsEnd ==
  ASSUME IInv, NEW r \in Requests, CloseRequest(r)
  PROVE  Gate!Next
  <1>1. status[r] \notin {"new", "closed", "superseded"}
    BY CleanUp DEF CloseRequest, IInv, KnownByStatus
  <1>2. Gate!End(r)
    BY <1>1 DEF CloseRequest, lists, IInv, TypeOK, Statuses, Phase, Gate!End
  <1> QED  BY <1>2 DEF Gate!Next

(* Every step of the center is one of the gate or invisible there. *)
LEMMA StepIsGateStep == IInv /\ [Next]_vars => [Gate!Next]_(Gate!vars)
  <1> SUFFICES ASSUME IInv, [Next]_vars PROVE [Gate!Next]_(Gate!vars)
    OBVIOUS
  <1>1. ASSUME NEW r \in Requests,
               \/ RegisterBlacklisted(r) \/ RegisterKnown(r) \/ RegisterNew(r)
               \/ ApproveRequest(r) \/ SetWaitEvent(r) \/ ApproveByQuickToken(r)
               \/ CloseRequest(r)
        PROVE  Gate!Next
    BY <1>1, RegisterIsAsk, ApprovalIsGrant, EventIsRelease, CloseIsEnd
  <1>2. ASSUME NEW s \in Sources, BlacklistTargets({s}) PROVE Gate!Next
    <2>1. Gate!Ban(s)
      BY <1>2 DEF BlacklistTargets, events, Phase, Gate!Ban
    <2> QED  BY <2>1 DEF Gate!Next
  <1>3. CASE Snapshot \/ Tick \/ UNCHANGED vars
    BY <1>3 DEF Snapshot, Tick, vars, events, lists, Phase, Gate!vars
  <1> QED  BY <1>1, <1>2, <1>3 DEF Next

(* The control center implements the safety part of RequestGate: a request *)
(* is decided at most once and only while it waits, and what is over stays *)
(* over, for any requests, sources, retention and time.                    *)
THEOREM Refinement == Spec => Gate!SafeSpec
  <1>1. Init => Gate!Init
    BY DEF Init, Phase, Gate!Init
  <1> QED  BY <1>1, StepIsGateStep, Invariance, PTL DEF Spec, Gate!SafeSpec
=============================================================================
