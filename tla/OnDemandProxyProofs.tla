------------------------ MODULE OnDemandProxyProofs ------------------------
(***************************************************************************)
(* The target as a whole implements each of its two components, so that    *)
(* what is proved of either holds of it; and what only the two together    *)
(* can say.                                                                *)
(***************************************************************************)
EXTENDS OnDemandProxy, TargetProxyProofs

\* The two components see each handler at the same place, and the idle thread
\* is no handler.
ViewsAgree ==
    /\ stage \in [Conns \cup {Idle} -> Cloud!ClientStages \cup Cloud!IdleStages]
    /\ \A c \in Conns :
          IF pc[c] = "ensure_instance_running"
          THEN stage[c] \in {"wait_api", "poll", "starting"}
          ELSE stage[c] = StageAt(pc[c])

SystemInv == IInv /\ ViewsAgree

\* A target that has just started satisfies SystemInv.
LEMMA InitSystem == SystemInit => SystemInv
<1> SUFFICES ASSUME SystemInit PROVE SystemInv
    OBVIOUS
<1>1. IInv
    BY InitIInv DEF SystemInit
<1>2. ViewsAgree
    BY SystemAssumption
    DEF SystemInit, Init, Cloud!Init, Cloud!Actors, Cloud!ClientStages, Cloud!IdleStages,
        ViewsAgree, StageAt
<1>. QED
    BY <1>1, <1>2 DEF SystemInv

----------------------------------------------------------------------------
(* The whole is a TargetProxy.                                             *)

\* Inside _ensure_instance_running a handler stays where it is or ends the stage
\* in one of the two ways TargetProxy knows.
LEMMA EnsureIsOneStage ==
    ASSUME NEW c \in Conns, EnsureRunning(c)
    PROVE  EnsureInstanceRunning(c) \/ UNCHANGED vars
<1>1. slot' = slot /\ activeConnections' = activeConnections
    BY DEF EnsureRunning, Cloud!TakeApiLock, Cloud!PollInstance, Cloud!StartupEnds,
        Cloud!RoutineStep, Cloud!CheckState, Cloud!CallSucceeds, Cloud!CallRaises,
        Cloud!Recheck
<1>. QED
    BY <1>1
    DEF EnsureRunning, EnsureInstanceRunning, PlaceAfter, Goto, vars, handlers, session,
        counters

\* Every step of the whole is one of TargetProxy or invisible to it.
LEMMA StepIsProxyStep == [SystemNext]_systemVars => [Next]_vars
<1> SUFFICES ASSUME [SystemNext]_systemVars PROVE [Next]_vars
    OBVIOUS
<1>1. ASSUME NEW c \in Conns, HandleConnection(c) PROVE Next
    BY <1>1 DEF HandleConnection, Next, Environment
<1>2. ASSUME NEW c \in Conns, EnsureRunning(c) PROVE [Next]_vars
    BY <1>2, EnsureIsOneStage DEF Next, HandlerStep
<1>3. CASE InstanceStep
    BY <1>3 DEF InstanceStep
<1>4. CASE WorldStep
    BY <1>4 DEF WorldStep, Next, Environment
<1>5. CASE UNCHANGED systemVars
    BY <1>5 DEF systemVars
<1>. QED
    BY <1>1, <1>2, <1>3, <1>4, <1>5 DEF SystemNext

\* The whole implements TargetProxy: with a real startup loop in place of the
\* choice, a handler does nothing that it could not do with the choice.
THEOREM ProxyRefinement == SystemSpec => Spec
<1>1. SystemInit => Init
    BY DEF SystemInit
<1>. QED
    BY <1>1, StepIsProxyStep, PTL DEF SystemSpec, Spec

\* With the instance behind it, too, the target is the gated session its clients
\* and the operator reckon with.
THEOREM WholeIsGated == SystemSpec => Session!Spec
BY ProxyRefinement, Refinement, PTL

----------------------------------------------------------------------------
(* The whole is an InstanceControl.                                        *)

USE DEF Cloud!ClientStages, Cloud!IdleStages, Cloud!Actors

\* StageAt knows every place.
LEMMA StageAtType == \A place \in Stages : StageAt(place) \in Cloud!ClientStages
BY DEF StageAt

\* A handler outside _ensure_instance_running keeps the two views together.
LEMMA HandleKeepsViews ==
    ASSUME SystemInv, NEW c \in Conns, HandleConnection(c), IInv'
    PROVE  ViewsAgree'
<1>1. pc' = [pc EXCEPT ![c] = pc'[c]] /\ pc'[c] \in Stages
    BY DEF HandleConnection, SystemInv, IInv, TypeOK, HandlerStep, Deadline, Goto, Finish, Look,
        Accept, CountIn, Screen, CheckRecentApproval, PassNotifyWindow, PoolFull, RegisterPending,
        ReplacePending, CloseReplaced, CheckReconnect, NotifyReconnect, CreateToken,
        SendVerification, AwaitClick, PeekVerification, VerificationTimeout, CancelToken,
        UnregisterPending, MarkApproved, AcquireSlot, SlotBusy, TryTakeover, CloseTaken,
        SlotTimeout, EnsureInstanceRunning, ConnectUpstream, RegisterForwarding,
        UpstreamEnds, ForwardingCut, CloseSockets, CountOut, ClearForwarding, ReleaseSlot
<1>2. stage' = [stage EXCEPT ![c] = StageAt(pc'[c])]
    BY DEF HandleConnection
<1>. QED
    BY <1>1, <1>2, StageAtType, SystemAssumption
    DEF SystemInv, IInv, TypeOK, ViewsAgree, StageAt

\* So does a step of _ensure_instance_running.
LEMMA EnsureKeepsViews ==
    ASSUME SystemInv, NEW c \in Conns, EnsureRunning(c)
    PROVE  ViewsAgree'
<1>1. /\ stage' \in [Conns \cup {Idle} -> Cloud!ClientStages \cup Cloud!IdleStages]
      /\ stage' = [stage EXCEPT ![c] = stage'[c]]
      /\ stage'[c] \in {"wait_api", "poll", "starting", "ready", "leaving"}
    BY SystemAssumption
    DEF EnsureRunning, SystemInv, ViewsAgree, Cloud!TakeApiLock, Cloud!PollInstance,
        Cloud!StartupEnds, Cloud!RoutineStep, Cloud!CheckState, Cloud!CallSucceeds,
        Cloud!CallRaises, Cloud!Recheck, Cloud!Succeed, Cloud!Fail, Cloud!RetryOrFail,
        Cloud!Goto
<1>2. pc' = [pc EXCEPT ![c] = IF stage'[c] \in {"ready", "leaving"}
                               THEN PlaceAfter(stage'[c]) ELSE @]
    BY DEF EnsureRunning, Goto, SystemInv, IInv, TypeOK
<1>. QED
    BY <1>1, <1>2, SystemAssumption
    DEF EnsureRunning, SystemInv, IInv, TypeOK, ViewsAgree, StageAt, PlaceAfter

\* And the idle thread has only its own stage.
LEMMA InstanceKeepsViews ==
    ASSUME SystemInv, InstanceStep
    PROVE  ViewsAgree'
<1>1. /\ stage' \in [Conns \cup {Idle} -> Cloud!ClientStages \cup Cloud!IdleStages]
      /\ \A c \in Conns : stage'[c] = stage[c]
    BY SystemAssumption
    DEF InstanceStep, SystemInv, ViewsAgree, Cloud!IdleStep, Cloud!DecideIdle,
        Cloud!TakeApiLock, Cloud!QueryBeforeStop, Cloud!QueryRaises, Cloud!RoutineStep,
        Cloud!CheckState, Cloud!CallSucceeds, Cloud!CallRaises, Cloud!Recheck, Cloud!Succeed,
        Cloud!Fail, Cloud!RetryOrFail, Cloud!Goto, Cloud!CloudProgress,
        Cloud!ApplyIdleAction, Cloud!IdleTimePasses
<1>2. pc' = pc
    BY DEF InstanceStep, vars, handlers
<1>. QED
    BY <1>1, <1>2 DEF SystemInv, ViewsAgree

\* SystemInv is inductive.
LEMMA StepSystem == SystemInv /\ [SystemNext]_systemVars => SystemInv'
<1> SUFFICES ASSUME SystemInv, [SystemNext]_systemVars PROVE SystemInv'
    OBVIOUS
<1>1. IInv'
    BY StepIsProxyStep, StepIInv DEF SystemInv
<1>2. ASSUME WorldStep \/ UNCHANGED systemVars PROVE ViewsAgree'
    <2>1. pc' = pc /\ stage' = stage
        BY <1>2
        DEF WorldStep, systemVars, vars, instance, handlers, PeerDisconnects, ClickVerify,
            TokenExpires, ExpireApproval, ExpireReconnect, Stop
    <2>. QED
        BY <2>1 DEF SystemInv, ViewsAgree
<1>3. ViewsAgree'
    BY <1>1, <1>2, HandleKeepsViews, EnsureKeepsViews, InstanceKeepsViews DEF SystemNext
<1>. QED
    BY <1>1, <1>3 DEF SystemInv

\* SystemInv holds in every reachable state of the whole.
THEOREM SystemInvariance == SystemSpec => []SystemInv
BY InitSystem, StepSystem, PTL DEF SystemSpec

\* A step that moves a handler from one stage to another, and nothing else that
\* InstanceControl sees, is one of a client there or no step at all.
LEMMA PlainMove ==
    ASSUME SystemInv, NEW c \in Conns, pc[c] # "count_out", HandleConnection(c),
           UNCHANGED <<slot, activeConnections>>,
           \/ stage[c] = StageAt(pc'[c])
           \/ stage[c] = "arrived" /\ StageAt(pc'[c]) = "leaving"
           \/ stage[c] = "ready" /\ StageAt(pc'[c]) \in {"serving", "leaving"}
           \/ stage[c] = "serving" /\ StageAt(pc'[c]) = "leaving"
    PROVE  [Cloud!Next]_(Cloud!vars)
<1>1. /\ stage' = [stage EXCEPT ![c] = StageAt(pc'[c])]
      /\ UNCHANGED <<inst, apiLock, idleAction, idleLong, started, step, retryIndex, error>>
    BY DEF HandleConnection, SystemInv, IInv, TypeOK, ViewsAgree
<1>. QED
    BY <1>1
    DEF SystemInv, ViewsAgree, Cloud!Next, Cloud!ClientStep, Cloud!TurnedAway, Cloud!Serve,
        Cloud!SessionEnds, Cloud!Goto, Cloud!vars, Cloud!routine

\* A step of a handler outside _ensure_instance_running is one of a client of
\* InstanceControl: it is counted in, turned away, takes the slot, serves, is
\* counted out, gives the slot back, or does what InstanceControl leaves out.
LEMMA HandleIsClientStep ==
    ASSUME SystemInv, NEW c \in Conns, HandleConnection(c)
    PROVE  [Cloud!Next]_(Cloud!vars)
<1>1. /\ stage' = [stage EXCEPT ![c] = StageAt(pc'[c])]
      /\ idleLong' = IF pc[c] = "count_out" THEN FALSE ELSE idleLong
      /\ UNCHANGED <<inst, apiLock, idleAction, started, step, retryIndex, error>>
      /\ pc \in [Conns -> Stages]
      /\ stage[c] = StageAt(pc[c])
    BY DEF HandleConnection, SystemInv, IInv, TypeOK, ViewsAgree
<1> USE DEF Goto, Finish, Look, session, counters
<1>2. CASE CountIn(c)
    <2>1. Cloud!Arrive(c)
        BY <1>1, <1>2 DEF CountIn, StageAt, Cloud!Arrive, Cloud!Goto, Cloud!routine
    <2>. QED
        BY <2>1 DEF Cloud!Next
<1>3. CASE AcquireSlot(c)
    <2>1. Cloud!TakeSlot(c)
        BY <1>1, <1>3 DEF AcquireSlot, StageAt, Cloud!TakeSlot, Cloud!Goto, Cloud!routine
    <2>. QED
        BY <2>1 DEF Cloud!Next
<1>4. CASE CountOut(c)
    <2>1. Holds(c) <=> slot = c
        BY DEF SystemInv, IInv, SlotInv
    <2>2. pc'[c] = IF slot = c THEN "clear_forwarding" ELSE "closed"
        BY <1>1, <1>4, <2>1 DEF CountOut
    <2>3. Cloud!CountOut(c)
        BY <1>1, <1>4, <2>2 DEF CountOut, StageAt, Cloud!CountOut, Cloud!Goto, Cloud!routine
    <2>. QED
        BY <2>3 DEF Cloud!Next, Cloud!ClientStep
<1>5. CASE ReleaseSlot(c)
    <2>1. Cloud!ReleaseSlot(c)
        BY <1>1, <1>5 DEF ReleaseSlot, StageAt, Cloud!ReleaseSlot, Cloud!Goto, Cloud!routine
    <2>. QED
        BY <2>1 DEF Cloud!Next, Cloud!ClientStep
<1>6. CASE ~(CountIn(c) \/ AcquireSlot(c) \/ CountOut(c) \/ ReleaseSlot(c))
    <2>1. /\ pc[c] # "count_out"
          /\ UNCHANGED <<slot, activeConnections>>
          /\ \/ StageAt(pc[c]) = StageAt(pc'[c])
             \/ StageAt(pc[c]) = "arrived" /\ StageAt(pc'[c]) = "leaving"
             \/ StageAt(pc[c]) = "ready" /\ StageAt(pc'[c]) \in {"serving", "leaving"}
             \/ StageAt(pc[c]) = "serving" /\ StageAt(pc'[c]) = "leaving"
        BY <1>1, <1>6
        DEF HandleConnection, StageAt, HandlerStep, Deadline, Accept, Screen, CheckRecentApproval,
            PassNotifyWindow, PoolFull, RegisterPending, ReplacePending, CloseReplaced,
            CheckReconnect, NotifyReconnect, CreateToken, SendVerification, AwaitClick,
            PeekVerification, VerificationTimeout, CancelToken, UnregisterPending,
            MarkApproved, SlotBusy, TryTakeover, CloseTaken, SlotTimeout,
            EnsureInstanceRunning, ConnectUpstream, RegisterForwarding, UpstreamEnds,
            ForwardingCut, CloseSockets, ClearForwarding
    <2>. QED
        BY <1>1, <2>1, PlainMove
<1>. QED
    BY <1>2, <1>3, <1>4, <1>5, <1>6

\* Every step of the whole is one of InstanceControl or invisible to it.
LEMMA StepIsInstanceStep ==
    ASSUME SystemInv, [SystemNext]_systemVars
    PROVE  [Cloud!Next]_(Cloud!vars)
<1>1. ASSUME NEW c \in Conns, EnsureRunning(c) PROVE Cloud!Next
    BY <1>1 DEF EnsureRunning, Cloud!Next, Cloud!ClientStep
<1>2. CASE InstanceStep
    BY <1>2 DEF InstanceStep, Cloud!Next
<1>3. ASSUME WorldStep \/ UNCHANGED systemVars PROVE UNCHANGED Cloud!vars
    BY <1>3
    DEF WorldStep, systemVars, vars, instance, session, counters, Cloud!vars, Cloud!routine,
        PeerDisconnects, ClickVerify, TokenExpires, ExpireApproval, ExpireReconnect, Stop
<1>. QED
    BY <1>1, <1>2, <1>3, HandleIsClientStep DEF SystemNext

\* The whole implements InstanceControl: the handlers of TargetProxy, with their
\* timeouts, takeovers and exceptions, are clients as InstanceControl takes them.
THEOREM InstanceRefinement == SystemSpec => ImplementsInstanceControl
<1>1. SystemInit => Cloud!Init
    BY DEF SystemInit
<1>. QED
    BY <1>1, StepIsInstanceStep, SystemInvariance, PTL
    DEF SystemSpec, ImplementsInstanceControl, Cloud!Spec

----------------------------------------------------------------------------
(* What is proved of InstanceControl holds of the whole.                   *)

\* The proofs of InstanceControl, about the same variables.
CloudProofs == INSTANCE InstanceControlProofs WITH
    Clients <- Conns,
    Nobody <- NoConn,
    active <- activeConnections,
    pc <- stage

\* What InstanceControl assumes of its constants is true of the handlers.
LEMMA CloudAssumptions ==
    /\ CloudProofs!ActorsAssumption
    /\ CloudProofs!RetriesAssumption
    /\ CloudProofs!QueryAssumption
BY SystemAssumption, ConnsAssumption
DEF CloudProofs!ActorsAssumption, CloudProofs!RetriesAssumption, CloudProofs!QueryAssumption

\* Both instances start alike,
LEMMA SameInit == Cloud!Init => CloudProofs!Init
BY Zenon DEF Cloud!Init, CloudProofs!Init, Cloud!Actors, CloudProofs!Actors

\* step alike,
LEMMA SameNext == [Cloud!Next]_(Cloud!vars) => [CloudProofs!Next]_(CloudProofs!vars)
BY Zenon DEF Cloud!Actors, CloudProofs!Actors, Cloud!ClientStages, CloudProofs!ClientStages,
    Cloud!IdleStages, CloudProofs!IdleStages, Cloud!routine,
    CloudProofs!routine, Cloud!vars, CloudProofs!vars, Cloud!InstStates,
    CloudProofs!InstStates, Cloud!IdleActions, CloudProofs!IdleActions,
    Cloud!ErrorKinds, CloudProofs!ErrorKinds, 
    Cloud!Goto, CloudProofs!Goto, Cloud!Observations, CloudProofs!Observations,
    Cloud!Satisfies, CloudProofs!Satisfies, Cloud!Blocks, CloudProofs!Blocks,
    Cloud!Admits, CloudProofs!Admits, Cloud!Outcome, CloudProofs!Outcome,
    Cloud!NonRetryable, CloudProofs!NonRetryable, Cloud!CloudProgress,
    CloudProofs!CloudProgress, Cloud!OperationOf, CloudProofs!OperationOf,
    Cloud!EnterRoutine, CloudProofs!EnterRoutine, Cloud!LeaveRoutine,
    CloudProofs!LeaveRoutine, Cloud!Succeed, CloudProofs!Succeed, Cloud!Fail,
    CloudProofs!Fail, Cloud!RetryOrFail, CloudProofs!RetryOrFail,
    Cloud!CheckState, CloudProofs!CheckState, Cloud!CallSucceeds,
    CloudProofs!CallSucceeds, Cloud!CallRaises, CloudProofs!CallRaises,
    Cloud!Recheck, CloudProofs!Recheck, Cloud!Arrive, CloudProofs!Arrive,
    Cloud!TurnedAway, CloudProofs!TurnedAway, Cloud!TakeSlot,
    CloudProofs!TakeSlot, Cloud!TakeApiLock, CloudProofs!TakeApiLock,
    Cloud!PollInstance, CloudProofs!PollInstance, Cloud!StartupEnds,
    CloudProofs!StartupEnds, Cloud!Serve, CloudProofs!Serve, Cloud!SessionEnds,
    CloudProofs!SessionEnds, Cloud!CountOut, CloudProofs!CountOut,
    Cloud!ReleaseSlot, CloudProofs!ReleaseSlot, Cloud!DecideIdle,
    CloudProofs!DecideIdle, Cloud!QueryBeforeStop, CloudProofs!QueryBeforeStop,
    Cloud!QueryRaises, CloudProofs!QueryRaises, Cloud!ApplyIdleAction,
    CloudProofs!ApplyIdleAction, Cloud!IdleTimePasses,
    CloudProofs!IdleTimePasses, Cloud!RoutineStep, CloudProofs!RoutineStep,
    Cloud!ClientStep, CloudProofs!ClientStep, Cloud!IdleStep,
    CloudProofs!IdleStep, Cloud!Next, CloudProofs!Next

\* and are the same specification.
LEMMA SameSpec == Cloud!Spec => CloudProofs!Spec
BY SameInit, SameNext, PTL DEF Cloud!Spec, CloudProofs!Spec

\* The inductive invariant of InstanceControl holds of the whole.
LEMMA CloudInvariance == SystemSpec => []CloudProofs!IInv
<1>1. CloudProofs!Spec => []CloudProofs!IInv
    BY CloudAssumptions, CloudProofs!Invariance
<1>. QED
    BY <1>1, SameSpec, InstanceRefinement, PTL DEF ImplementsInstanceControl

\* In the whole as well, operations on the instance exclude each other, a start
\* reported to a handler was carried out, and whoever is brought to the instance
\* is counted and has the slot.
THEOREM InstanceIsSafe ==
    SystemSpec => [](Cloud!OneOperation /\ Cloud!StartReportedIsStarted /\ Cloud!ServedIsCounted)
<1>1. CloudProofs!Spec => []CloudProofs!ServedIsCounted
    BY CloudAssumptions, CloudProofs!ServiceIsCounted
<1>2. CloudProofs!IInv => Cloud!OneOperation /\ Cloud!StartReportedIsStarted
    BY DEF CloudProofs!IInv, CloudProofs!OneOperation, Cloud!OneOperation, CloudProofs!Actors,
        Cloud!Actors, CloudProofs!StartInv, Cloud!StartReportedIsStarted
<1>3. CloudProofs!ServedIsCounted => Cloud!ServedIsCounted
    BY DEF CloudProofs!ServedIsCounted, Cloud!ServedIsCounted
<1>. QED
    BY <1>1, <1>2, <1>3, CloudInvariance, SameSpec, InstanceRefinement, PTL
    DEF ImplementsInstanceControl

\* Nor does the idle thread stop the instance while a handler brings it up,
\* however the handlers come and go.
THEOREM StartupStaysUndisturbed == SystemSpec => Cloud!NoStopDuringStartup
<1>1. CloudProofs!Spec => CloudProofs!NoStopDuringStartup
    BY CloudAssumptions, CloudProofs!StartupIsUndisturbed
<1>2. [\A c \in Conns : stage[c] \in {"poll", "starting"} /\ inst # "STOPPING"
        => inst' # "STOPPING"]_(CloudProofs!vars)
      => [\A c \in Conns : stage[c] \in {"poll", "starting"} /\ inst # "STOPPING"
        => inst' # "STOPPING"]_(Cloud!vars)
    BY DEF Cloud!vars, CloudProofs!vars, Cloud!routine, CloudProofs!routine
<1>. QED
    BY <1>1, <1>2, SameSpec, InstanceRefinement, PTL
    DEF ImplementsInstanceControl, Cloud!NoStopDuringStartup, CloudProofs!NoStopDuringStartup

----------------------------------------------------------------------------
(* What only the two together can say.                                     *)

\* The instance is started by a handler in the retry routine.
LEMMA WhoStarts ==
    ASSUME SystemInv, [SystemNext]_systemVars, inst = "STOPPED", inst' = "STARTING"
    PROVE  \E c \in Conns : pc[c] = "ensure_instance_running" /\ step[c] = "call"
<1>1. PICK a \in Conns \cup {Idle} :
          /\ Cloud!CallSucceeds(a) \/ Cloud!CallRaises(a)
          /\ a = Idle \/ pc[a] = "ensure_instance_running"
    BY DEF SystemNext, systemVars, instance, HandleConnection, EnsureRunning, InstanceStep,
        WorldStep, Cloud!IdleStep, Cloud!RoutineStep, Cloud!TakeApiLock,
        Cloud!PollInstance, Cloud!StartupEnds, Cloud!CheckState, Cloud!Recheck,
        Cloud!DecideIdle, Cloud!QueryBeforeStop, Cloud!QueryRaises, Cloud!CloudProgress,
        Cloud!ApplyIdleAction, Cloud!IdleTimePasses
<1>2. Cloud!OperationOf(a) = "start" /\ step[a] = "call"
    BY <1>1 DEF Cloud!CallSucceeds, Cloud!CallRaises, Cloud!Outcome
<1>. QED
    BY <1>1, <1>2 DEF Cloud!OperationOf

\* A stopped instance is started only by the holder of the slot, from an IP for
\* which a link was clicked.
THEOREM StartsAreEarned == SystemSpec => StartNeedsClick
<1>1. ASSUME SystemInv, CloudProofs!IInv, [SystemNext]_systemVars,
             SecurityEnabled, DenyIfTimeout, inst = "STOPPED", inst' = "STARTING"
      PROVE  \E c \in Conns : slot = c /\ apiLock = c /\ Clicked(IpOf[c])
    <2>1. PICK c \in Conns : pc[c] = "ensure_instance_running" /\ step[c] = "call"
        BY <1>1, WhoStarts
    <2>2. apiLock = c
        BY <1>1, <2>1 DEF CloudProofs!IInv, CloudProofs!OneOperation, CloudProofs!Actors
    <2>3. Holds(c) /\ slot = c
        BY <1>1, <2>1 DEF SystemInv, IInv, SlotInv, HoldingStages
    <2>4. Approved(c) => Admitted(IpOf[c])
        BY <1>1 DEF SystemInv, IInv, ClickInv
    <2>5. Approved(c)
        BY <1>1, <2>3 DEF SystemInv, IInv, ClickInv
    <2>6. Clicked(IpOf[c])
        BY <2>4, <2>5 DEF Admitted, Clicked
    <2>. QED
        BY <2>2, <2>3, <2>6
<1>2. SystemInv /\ CloudProofs!IInv /\ [SystemNext]_systemVars =>
        [SecurityEnabled /\ DenyIfTimeout /\ inst = "STOPPED" /\ inst' = "STARTING"
            => \E c \in Conns : slot = c /\ apiLock = c /\ Clicked(IpOf[c])]_systemVars
    BY <1>1
<1>. QED
    BY <1>2, SystemInvariance, CloudInvariance, PTL DEF SystemSpec, StartNeedsClick

\* From the idle thread's decision on, whoever is under way came after it.
LateInv == stage[Idle] # "sleeping" => Running \subseteq late

\* A step of a handler counts it in or out, or leaves it where it was.
LEMMA HandleRunning ==
    ASSUME SystemInv, NEW c \in Conns, HandleConnection(c)
    PROVE  /\ Running' \subseteq Running \cup {c}
           /\ c \in Running' => c \in Running \/ pc[c] = "accepted"
           /\ pc[c] = "count_out" => c \notin Running'
BY DEF HandleConnection, SystemInv, IInv, TypeOK, Running, HandlerStep, Deadline, Goto,
    Finish, Look, Accept, CountIn, Screen, CheckRecentApproval, PassNotifyWindow,
    PoolFull, RegisterPending, ReplacePending, CloseReplaced, CheckReconnect,
    NotifyReconnect, CreateToken, SendVerification, AwaitClick, PeekVerification,
    VerificationTimeout, CancelToken, UnregisterPending, MarkApproved, AcquireSlot,
    SlotBusy, TryTakeover, CloseTaken, SlotTimeout, EnsureInstanceRunning,
    ConnectUpstream, RegisterForwarding, UpstreamEnds, ForwardingCut, CloseSockets,
    CountOut, ClearForwarding, ReleaseSlot

\* At the decision nobody is under way, and who is counted in later is late.
LEMMA StepLateInv == SystemInv /\ ActiveCount /\ LateInv /\ [SystemNext]_systemVars => LateInv'
<1> SUFFICES ASSUME SystemInv, ActiveCount, LateInv, [SystemNext]_systemVars
             PROVE  LateInv'
    OBVIOUS
<1>1. ASSUME NEW c \in Conns, HandleConnection(c) PROVE LateInv'
    <2>1. /\ stage'[Idle] = stage[Idle]
          /\ late' = IF pc[c] = "accepted" /\ stage[Idle] # "sleeping" THEN late \cup {c}
                     ELSE IF pc[c] = "count_out" THEN late \ {c} ELSE late
        BY <1>1, SystemAssumption DEF HandleConnection, SystemInv, ViewsAgree
    <2>. QED
        BY <1>1, <2>1, HandleRunning DEF LateInv
<1>2. ASSUME NEW c \in Conns, EnsureRunning(c) PROVE LateInv'
    <2>1. stage'[Idle] = stage[Idle]
        BY <1>2, SystemAssumption
        DEF EnsureRunning, SystemInv, ViewsAgree, Cloud!TakeApiLock, Cloud!PollInstance,
            Cloud!StartupEnds, Cloud!RoutineStep, Cloud!CheckState, Cloud!CallSucceeds,
            Cloud!CallRaises, Cloud!Recheck, Cloud!Succeed, Cloud!Fail, Cloud!RetryOrFail,
            Cloud!Goto
    <2>2. late' = late /\ Running' = Running
        BY <1>2 DEF EnsureRunning, Goto, PlaceAfter, Running, SystemInv, IInv, TypeOK
    <2>. QED
        BY <2>1, <2>2 DEF LateInv
<1>3. CASE InstanceStep
    <2>1. Running' = Running /\ late' = IF stage'[Idle] = "sleeping" THEN {} ELSE late
        BY <1>3 DEF InstanceStep, vars, handlers, Running
    <2>2. CASE stage[Idle] = "sleeping" /\ stage'[Idle] # "sleeping"
        <3>1. Cloud!DecideIdle
            BY <1>3, <2>2, SystemAssumption
            DEF SystemInv, ViewsAgree, InstanceStep, Cloud!IdleStep, Cloud!RoutineStep,
                Cloud!TakeApiLock, Cloud!CheckState, Cloud!CallSucceeds, Cloud!CallRaises,
                Cloud!Recheck, Cloud!Succeed, Cloud!Fail, Cloud!RetryOrFail,
                Cloud!QueryBeforeStop, Cloud!QueryRaises, Cloud!CloudProgress,
                Cloud!ApplyIdleAction, Cloud!IdleTimePasses, Cloud!Goto
        <3>2. Running = {}
            BY <3>1, FS_EmptySet DEF Cloud!DecideIdle, ActiveCount, ActiveCountExact
        <3>. QED
            BY <2>1, <3>2 DEF LateInv
    <2>. QED
        BY <2>1, <2>2 DEF LateInv
<1>4. ASSUME WorldStep \/ UNCHANGED systemVars PROVE LateInv'
    <2>1. pc' = pc /\ stage' = stage /\ late' = late
        BY <1>4
        DEF WorldStep, systemVars, vars, instance, handlers, PeerDisconnects, ClickVerify,
            TokenExpires, ExpireApproval, ExpireReconnect, Stop
    <2>. QED
        BY <2>1 DEF LateInv, Running
<1>. QED
    BY <1>1, <1>2, <1>3, <1>4 DEF SystemNext

\* The instance is taken down by the idle thread, in the retry routine.
LEMMA WhoStops ==
    ASSUME SystemInv, CloudProofs!IInv, [SystemNext]_systemVars,
           inst # "STOPPING", inst' = "STOPPING"
    PROVE  stage[Idle] # "sleeping"
<1>1. PICK a \in Conns \cup {Idle} : Cloud!CallSucceeds(a) \/ Cloud!CallRaises(a)
    BY DEF SystemNext, systemVars, instance, HandleConnection, EnsureRunning, InstanceStep,
        WorldStep, Cloud!IdleStep, Cloud!RoutineStep, Cloud!TakeApiLock,
        Cloud!PollInstance, Cloud!StartupEnds, Cloud!CheckState, Cloud!Recheck,
        Cloud!DecideIdle, Cloud!QueryBeforeStop, Cloud!QueryRaises, Cloud!CloudProgress,
        Cloud!ApplyIdleAction, Cloud!IdleTimePasses
<1>2. a = Idle /\ step[a] = "call"
    BY <1>1 DEF Cloud!CallSucceeds, Cloud!CallRaises, Cloud!Outcome, Cloud!OperationOf
<1>. QED
    BY <1>2 DEF CloudProofs!IInv, CloudProofs!StageInv, CloudProofs!Actors

\* The stop of the idle thread, however late it is carried out and after however
\* many failed calls, hits only handlers that were counted in after its decision.
THEOREM StopsHitLatecomers == SystemSpec => StopHitsLatecomersOnly
<1>1. SystemInit => LateInv
    BY SystemAssumption DEF SystemInit, Cloud!Init, LateInv
<1>2. SystemSpec => []LateInv
    BY <1>1, StepLateInv, SystemInvariance, ProxyRefinement, CountInvariance, PTL
    DEF SystemSpec
<1>3. SystemInv /\ CloudProofs!IInv /\ LateInv /\ [SystemNext]_systemVars =>
        [inst # "STOPPING" /\ inst' = "STOPPING" => Running \subseteq late]_systemVars
    BY WhoStops DEF LateInv
<1>. QED
    BY <1>2, <1>3, SystemInvariance, CloudInvariance, PTL DEF SystemSpec, StopHitsLatecomersOnly
=============================================================================
