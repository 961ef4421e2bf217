------------------------- MODULE TargetProxyProofs -------------------------
(***************************************************************************)
(* The safety of TargetProxy for any number of connections and addresses   *)
(* and any bounds of the pool: an inductive invariant, the invariants and  *)
(* action properties that follow from it, and the refinement of            *)
(* GatedSession.                                                           *)
(***************************************************************************)
EXTENDS TargetProxy, FiniteSetTheorems, TLAPS

\* Stages at which a connection may have its entry in the pool.
PoolStages ==
    {"close_replaced", "reconnect_check", "reconnect_notification", "create_token",
     "send_verification", "wait_verification", "peek_verification", "cancel_token",
     "unregister_pending", "finally"}

\* Stages a connection never leaves for verification.
AdmittedStages ==
    {"unregister_pending", "closed"} \cup SlotWaitStages \cup HoldingStages \cup CleanupStages

\* Stages before a handler creates its token.
EarlyStages ==
    {"listening", "accepted", "screening", "recent_approval_check", "notify_delay_window",
     "create_verification", "close_replaced", "reconnect_check",
     "reconnect_notification", "create_token"}

\* The lock, the flag that remembers it, the upstream socket, the published
\* session and the place in the code go together.
SlotInv ==
    \A c \in Conns :
        /\ Holds(c) <=> slot = c
        /\ pc[c] \in HoldingStages \cup {"clear_forwarding", "release_slot"} => Holds(c)
        /\ Holds(c) => pc[c] \in HoldingStages \cup CleanupStages
        /\ Started(c) => Holds(c) /\ pc[c] \in {"forwarding"} \cup CleanupStages
        /\ upstream[c] = "open" =>
              Holds(c) /\ pc[c] \in {"register_forwarding", "forwarding", "finally"}
        /\ activeForwarding = c =>
              Holds(c) /\ pc[c] \in {"forwarding", "finally", "count_out", "clear_forwarding"}

\* Pool entries belong to connections in verification; sockets end closed.
PoolInv ==
    \A c \in Conns :
        /\ c \in pending => pc[c] \in PoolStages
        /\ pc[c] = "listening" <=> sock[c] = "none"
        /\ pc[c] \in {"count_out", "clear_forwarding", "release_slot", "closed"} =>
              sock[c] = "closed"

\* Sockets captured under the lock and not yet closed are of the same IP.
VictimInv ==
    \A c \in Conns :
        /\ pc[c] \in {"close_replaced", "close_taken"} <=> victim[c] # NoConn
        /\ victim[c] # NoConn => IpOf[victim[c]] = IpOf[c] /\ victim[c] # c

\* A click whose handler has seen it, or can no longer void it.  (A click alone
\* is not stable: a handler that sees its client leave voids the token.)
Admitted(ip) ==
    \E c \in Conns : IpOf[c] = ip /\ token[c] = "approved" /\ pc[c] \in AdmittedStages

ClickInv ==
    /\ \A ip \in recentApproved \cup recentDisconnects : Admitted(ip)
    /\ \A c \in Conns :
          /\ Approved(c) \/ pc[c] = "reconnect_notification" => Admitted(IpOf[c])
          /\ pc[c] = "mark_approved" => Approved(c)
          /\ /\ SecurityEnabled /\ DenyIfTimeout
             /\ \/ pc[c] \in {"unregister_pending"} \cup SlotWaitStages \cup HoldingStages
                \/ Holds(c)
             => Approved(c)

\* A token exists only once its handler has created it, and is voided by a
\* handler on its way out.
TokenInv ==
    \A c \in Conns :
        /\ pc[c] \in EarlyStages => token[c] = "none"
        /\ token[c] = "revoked" => pc[c] \in CleanupStages \cup {"closed"}

IInv == TypeOK /\ SlotInv /\ PoolInv /\ VictimInv /\ TokenInv /\ ClickInv

USE DEF Stages, VerifyStages, SlotWaitStages, HoldingStages, CleanupStages, Locals,
        PoolStages, AdmittedStages, EarlyStages

\* A proxy that has just started satisfies IInv.
LEMMA InitIInv == Init => IInv
<1> SUFFICES ASSUME Init PROVE IInv
    OBVIOUS
<1> USE ConnsAssumption DEF Init
<1>1. TypeOK
    BY DEF TypeOK
<1>2. SlotInv /\ PoolInv /\ VictimInv /\ TokenInv
    BY DEF SlotInv, PoolInv, VictimInv, TokenInv, Holds, Started
<1>3. ClickInv
    BY DEF ClickInv, Holds, Approved
<1>. QED
    BY <1>1, <1>2, <1>3 DEF IInv

\* No step of a handler, of a peer, of a person or of the clock breaks IInv.
LEMMA StepIInv == IInv /\ [Next]_vars => IInv'
<1> SUFFICES ASSUME IInv, [Next]_vars PROVE IInv'
    OBVIOUS
<1> USE ConnsAssumption, FlagsAssumption
    DEF IInv, TypeOK, SlotInv, PoolInv, VictimInv, TokenInv, ClickInv, Admitted,
        SameIpPending, Holds, Started, Approved, Goto, Raise, Finish, Look, Close,
        LeavePool, EnterPool, handlers, sockets, pool, windows, session, counters
<1>0. ASSUME NEW c \in Conns, Accept(c) PROVE IInv'
    BY <1>0 DEF Accept
<1>1. ASSUME NEW c \in Conns, CountIn(c) PROVE IInv'
    BY <1>1 DEF CountIn
<1>2. ASSUME NEW c \in Conns, Screen(c) PROVE IInv'
    BY <1>2 DEF Screen
<1>3. ASSUME NEW c \in Conns, CheckRecentApproval(c) PROVE IInv'
    BY <1>3 DEF CheckRecentApproval
<1>4. ASSUME NEW c \in Conns, PassNotifyWindow(c) PROVE IInv'
    BY <1>4 DEF PassNotifyWindow
<1>5. ASSUME NEW c \in Conns, PoolFull(c) PROVE IInv'
    BY <1>5 DEF PoolFull
<1>6. ASSUME NEW c \in Conns, RegisterPending(c) PROVE IInv'
    BY <1>6 DEF RegisterPending
<1>7. ASSUME NEW c \in Conns, ReplacePending(c) PROVE IInv'
    BY <1>7 DEF ReplacePending
<1>8. ASSUME NEW c \in Conns, CloseReplaced(c) PROVE IInv'
    BY <1>8 DEF CloseReplaced
<1>9. ASSUME NEW c \in Conns, CheckReconnect(c) PROVE IInv'
    BY <1>9 DEF CheckReconnect
<1>10. ASSUME NEW c \in Conns, NotifyReconnect(c) PROVE IInv'
    BY <1>10 DEF NotifyReconnect
<1>11. ASSUME NEW c \in Conns, CreateToken(c) PROVE IInv'
    BY <1>11 DEF CreateToken
<1>12. ASSUME NEW c \in Conns, SendVerification(c) PROVE IInv'
    BY <1>12 DEF SendVerification
<1>13. ASSUME NEW c \in Conns, AwaitClick(c) PROVE IInv'
    <2>1. (TypeOK /\ SlotInv /\ PoolInv /\ VictimInv /\ TokenInv)'
        BY <1>13 DEF AwaitClick
    <2>2. ASSUME Approved(c)' PROVE Admitted(IpOf[c])'
        BY <1>13, <2>2 DEF AwaitClick
    <2>3. ClickInv'
        BY <1>13, <2>2 DEF AwaitClick
    <2>. QED
        BY <2>1, <2>3
<1>14. ASSUME NEW c \in Conns, PeekVerification(c) PROVE IInv'
    BY <1>14 DEF PeekVerification
<1>15. ASSUME NEW c \in Conns, VerificationTimeout(c) PROVE IInv'
    BY <1>15 DEF VerificationTimeout
<1>16. ASSUME NEW c \in Conns, CancelToken(c) PROVE IInv'
    BY <1>16 DEF CancelToken
<1>17. ASSUME NEW c \in Conns, UnregisterPending(c) PROVE IInv'
    BY <1>17 DEF UnregisterPending
<1>18. ASSUME NEW c \in Conns, MarkApproved(c) PROVE IInv'
    BY <1>18 DEF MarkApproved
<1>19. ASSUME NEW c \in Conns, AcquireSlot(c) PROVE IInv'
    BY <1>19 DEF AcquireSlot
<1>20. ASSUME NEW c \in Conns, SlotBusy(c) PROVE IInv'
    BY <1>20 DEF SlotBusy
<1>21. ASSUME NEW c \in Conns, TryTakeover(c) PROVE IInv'
    BY <1>21 DEF TryTakeover
<1>22. ASSUME NEW c \in Conns, CloseTaken(c) PROVE IInv'
    BY <1>22 DEF CloseTaken
<1>23. ASSUME NEW c \in Conns, SlotTimeout(c) PROVE IInv'
    BY <1>23 DEF SlotTimeout
<1>24. ASSUME NEW c \in Conns, EnsureInstanceRunning(c) PROVE IInv'
    BY <1>24 DEF EnsureInstanceRunning
<1>25. ASSUME NEW c \in Conns, ConnectUpstream(c) PROVE IInv'
    BY <1>25 DEF ConnectUpstream
<1>26. ASSUME NEW c \in Conns, RegisterForwarding(c) PROVE IInv'
    BY <1>26 DEF RegisterForwarding
<1>27. ASSUME NEW c \in Conns, UpstreamEnds(c) PROVE IInv'
    BY <1>27 DEF UpstreamEnds
<1>28. ASSUME NEW c \in Conns, ForwardingCut(c) PROVE IInv'
    BY <1>28 DEF ForwardingCut
<1>29. ASSUME NEW c \in Conns, CloseSockets(c) PROVE IInv'
    BY <1>29 DEF CloseSockets
<1>30. ASSUME NEW c \in Conns, CountOut(c) PROVE IInv'
    BY <1>30 DEF CountOut
<1>31. ASSUME NEW c \in Conns, ClearForwarding(c) PROVE IInv'
    BY <1>31 DEF ClearForwarding
<1>32. ASSUME NEW c \in Conns, ReleaseSlot(c) PROVE IInv'
    BY <1>32 DEF ReleaseSlot
<1>33. ASSUME NEW c \in Conns, PeerDisconnects(c) PROVE IInv'
    BY <1>33 DEF PeerDisconnects
<1>34. ASSUME NEW c \in Conns, ClickVerify(c) PROVE IInv'
    BY <1>34 DEF ClickVerify
<1>35. ASSUME NEW c \in Conns, TokenExpires(c) PROVE IInv'
    BY <1>35 DEF TokenExpires
<1>36. ASSUME NEW ip \in IPs, ExpireApproval(ip) PROVE IInv'
    BY <1>36 DEF ExpireApproval
<1>37. ASSUME NEW ip \in IPs, ExpireReconnect(ip) PROVE IInv'
    BY <1>37 DEF ExpireReconnect
<1>38. CASE Stop
    BY <1>38 DEF Stop
<1>39. CASE UNCHANGED vars
    BY <1>39 DEF vars
<1>. QED
    BY <1>0, <1>1, <1>2, <1>3, <1>4, <1>5, <1>6, <1>7, <1>8, <1>9, <1>10, <1>11, <1>12,
       <1>13, <1>14, <1>15, <1>16, <1>17, <1>18, <1>19, <1>20, <1>21, <1>22, <1>23, <1>24,
       <1>25, <1>26, <1>27, <1>28, <1>29, <1>30, <1>31, <1>32, <1>33, <1>34, <1>35,
       <1>36, <1>37, <1>38, <1>39
    DEF Next, HandlerStep, Deadline, Environment

\* IInv holds in every reachable state.
THEOREM Invariance == Spec => []IInv
BY InitIInv, StepIInv, PTL DEF Spec

\* Type correctness.
THEOREM Typing == Spec => []TypeOK
<1>1. IInv => TypeOK
    BY DEF IInv
<1>. QED
    BY <1>1, Invariance, PTL

\* Only the holder of the session lock has an open socket to the instance.
THEOREM SingleUpstream == Spec => []OneUpstream
<1>1. IInv => OneUpstream
    BY DEF IInv, SlotInv, OneUpstream
<1>. QED
    BY <1>1, Invariance, PTL

\* What a takeover finds published is the session that holds the lock.
THEOREM PublishedIsHolder == Spec => []PublishedHoldsSlot
<1>1. IInv => PublishedHoldsSlot
    BY DEF IInv, TypeOK, SlotInv, PublishedHoldsSlot
<1>. QED
    BY <1>1, Invariance, PTL

\* A connection through with verification has no place in the pool.
THEOREM PoolFreed == Spec => []PoolHoldsWaiters
<1>1. IInv => PoolHoldsWaiters
    BY DEF IInv, TypeOK, PoolInv, PoolHoldsWaiters
<1>. QED
    BY <1>1, Invariance, PTL

\* A handler that has ended leaves no socket, lock, session or place behind.
THEOREM NoLeak == Spec => []NothingLeaks
<1>1. IInv => NothingLeaks
    BY DEF IInv, SlotInv, PoolInv, NothingLeaks
<1>. QED
    BY <1>1, Invariance, PTL

\* The bypass windows hold only IPs for which a link was clicked.
THEOREM WindowsAreEarned == Spec => []WindowsNeedClick
<1>1. IInv => WindowsNeedClick
    BY DEF IInv, ClickInv, Admitted, WindowsNeedClick, Clicked
<1>. QED
    BY <1>1, Invariance, PTL

\* The instance is reached only from an IP for which a link was clicked.
THEOREM SessionsAreEarned == Spec => []SessionNeedsClick
<1>1. IInv => SessionNeedsClick
    BY DEF IInv, SlotInv, ClickInv, Admitted, SessionNeedsClick, Clicked
<1>. QED
    BY <1>1, Invariance, PTL

----------------------------------------------------------------------------
(* Counting: the bounds of the pool and the number of active connections.  *)

OfIp(ip) == {c \in pending : IpOf[c] = ip}

PoolCount == IsFiniteSet(pending) /\ PoolBounded

\* The empty pool is within its bounds.
LEMMA InitPoolCount == Init => PoolCount
<1> SUFFICES ASSUME Init PROVE PoolCount
    OBVIOUS
<1>1. pending = {} /\ \A ip \in IPs : {c \in pending : IpOf[c] = ip} = {}
    BY DEF Init
<1>. QED
    BY <1>1, FS_EmptySet, PoolAssumption DEF PoolCount, PoolBounded

\* Leaving the pool keeps it within its bounds.
LEMMA ShrinkPool ==
    ASSUME PoolCount, pending' \subseteq pending
    PROVE  PoolCount'
<1> USE PoolAssumption
<1>1. /\ IsFiniteSet(pending') /\ Cardinality(pending') <= Cardinality(pending)
      /\ Cardinality(pending) \in Nat /\ Cardinality(pending') \in Nat
    BY FS_Subset, FS_CardinalityType DEF PoolCount
<1>2. Cardinality(pending') <= MaxPending
    BY <1>1 DEF PoolCount, PoolBounded
<1>3. ASSUME NEW ip \in IPs PROVE Cardinality(OfIp(ip)') <= MaxPendingPerIp
    <2>1. OfIp(ip) \subseteq pending /\ OfIp(ip)' \subseteq OfIp(ip)
        BY DEF OfIp
    <2>2. IsFiniteSet(OfIp(ip)) /\ IsFiniteSet(OfIp(ip)')
        BY <2>1, FS_Subset DEF PoolCount
    <2>3. /\ Cardinality(OfIp(ip)') <= Cardinality(OfIp(ip))
          /\ Cardinality(OfIp(ip)) \in Nat /\ Cardinality(OfIp(ip)') \in Nat
        BY <2>1, <2>2, FS_Subset, FS_CardinalityType
    <2>4. Cardinality(OfIp(ip)) <= MaxPendingPerIp
        BY DEF PoolCount, PoolBounded, OfIp
    <2>. QED
        BY <2>3, <2>4
<1>. QED
    BY <1>1, <1>2, <1>3 DEF PoolCount, PoolBounded, OfIp

\* Adding a member lets a finite set grow by one at most.
LEMMA PutIn ==
    ASSUME NEW S, IsFiniteSet(S), NEW c
    PROVE  /\ IsFiniteSet(S \cup {c})
           /\ Cardinality(S) \in Nat /\ Cardinality(S \cup {c}) \in Nat
           /\ Cardinality(S \cup {c}) <= Cardinality(S) + 1
BY FS_AddElement, FS_CardinalityType

\* Putting a member in another's place does not let it grow.
LEMMA SwapIn ==
    ASSUME NEW S, IsFiniteSet(S), NEW old \in S, NEW c
    PROVE  /\ IsFiniteSet((S \ {old}) \cup {c})
           /\ Cardinality(S) \in Nat /\ Cardinality((S \ {old}) \cup {c}) \in Nat
           /\ Cardinality((S \ {old}) \cup {c}) <= Cardinality(S)
<1>1. IsFiniteSet(S \ {old}) /\ Cardinality(S \ {old}) = Cardinality(S) - 1
    BY FS_RemoveElement
<1>2. /\ IsFiniteSet((S \ {old}) \cup {c})
      /\ Cardinality((S \ {old}) \cup {c}) \in Nat
      /\ Cardinality((S \ {old}) \cup {c}) <= Cardinality(S \ {old}) + 1
    BY <1>1, PutIn
<1>. QED
    BY <1>1, <1>2, FS_CardinalityType

\* A step puts a connection into the pool, takes a moving one out, or leaves
\* the pool alone.
LEMMA PoolSteps ==
    ASSUME IInv, [Next]_vars
    PROVE  \/ \E c \in Conns : RegisterPending(c) \/ ReplacePending(c)
           \/ \E c \in Conns : LeavePool(c) /\ pc'[c] # pc[c]
           \/ UNCHANGED pool
BY DEF Next, HandlerStep, Deadline, Environment, LeavePool, pool, vars, Goto, IInv, TypeOK,
    Accept, CountIn, Screen, CheckRecentApproval, PassNotifyWindow, PoolFull, CloseReplaced,
    CheckReconnect, NotifyReconnect, CreateToken, SendVerification, AwaitClick,
    PeekVerification, VerificationTimeout, CancelToken, UnregisterPending,
    MarkApproved, AcquireSlot, SlotBusy, TryTakeover, CloseTaken, SlotTimeout,
    EnsureInstanceRunning, ConnectUpstream, RegisterForwarding, UpstreamEnds,
    ForwardingCut, CloseSockets, CountOut, ClearForwarding, ReleaseSlot,
    PeerDisconnects, ClickVerify, TokenExpires, ExpireApproval, ExpireReconnect,
    Stop

\* No step lets the pool grow beyond a bound: the bounds are tested under the same
\* lock under which the entry is put in.
LEMMA StepPoolCount == IInv /\ PoolCount /\ [Next]_vars => PoolCount'
<1> SUFFICES ASSUME IInv, PoolCount, [Next]_vars PROVE PoolCount'
    OBVIOUS
<1> USE ConnsAssumption, PoolAssumption
<1>1. ASSUME NEW c \in Conns, RegisterPending(c) PROVE PoolCount'
    <2>1. pending' = pending \cup {c} /\ Cardinality(pending) < MaxPending
        BY <1>1 DEF RegisterPending, EnterPool
    <2>2. IsFiniteSet(pending)
        BY DEF PoolCount
    <2>3. IsFiniteSet(pending') /\ Cardinality(pending') <= MaxPending
        <3>1. /\ IsFiniteSet(pending \cup {c})
              /\ Cardinality(pending) \in Nat /\ Cardinality(pending \cup {c}) \in Nat
              /\ Cardinality(pending \cup {c}) <= Cardinality(pending) + 1
            BY <2>2, PutIn
        <3>. QED
            BY <2>1, <3>1
    <2>4. ASSUME NEW ip \in IPs PROVE Cardinality(OfIp(ip)') <= MaxPendingPerIp
        <3>1. IsFiniteSet(OfIp(ip))
            BY <2>2, FS_Subset DEF OfIp
        <3>2. CASE ip = IpOf[c]
            <4>1. OfIp(ip)' = OfIp(ip) \cup {c}
                BY <2>1, <3>2 DEF OfIp
            <4>2. Cardinality(OfIp(ip)) < MaxPendingPerIp
                BY <1>1, <3>2 DEF RegisterPending, SameIpPending, OfIp
            <4>3. /\ Cardinality(OfIp(ip)) \in Nat
                  /\ Cardinality(OfIp(ip) \cup {c}) \in Nat
                  /\ Cardinality(OfIp(ip) \cup {c}) <= Cardinality(OfIp(ip)) + 1
                BY <3>1, PutIn
            <4>. QED
                BY <4>1, <4>2, <4>3
        <3>3. CASE ip # IpOf[c]
            <4>1. OfIp(ip)' = OfIp(ip)
                BY <2>1, <3>3 DEF OfIp
            <4>. QED
                BY <4>1 DEF PoolCount, PoolBounded, OfIp
        <3>. QED
            BY <3>2, <3>3
    <2>. QED
        BY <2>3, <2>4 DEF PoolCount, PoolBounded, OfIp
<1>2. ASSUME NEW c \in Conns, ReplacePending(c) PROVE PoolCount'
    <2>1. PICK old \in SameIpPending(c) : EnterPool(c, {old})
        BY <1>2 DEF ReplacePending
    <2>2. pending' = (pending \ {old}) \cup {c} /\ old \in pending /\ IpOf[old] = IpOf[c]
        BY <2>1 DEF EnterPool, SameIpPending
    <2>3. IsFiniteSet(pending)
        BY DEF PoolCount
    <2>4. IsFiniteSet(pending') /\ Cardinality(pending') <= MaxPending
        <3>1. /\ IsFiniteSet(pending')
              /\ Cardinality(pending) \in Nat /\ Cardinality(pending') \in Nat
              /\ Cardinality(pending') <= Cardinality(pending)
            BY <2>2, <2>3, SwapIn
        <3>. QED
            BY <3>1 DEF PoolCount, PoolBounded
    <2>5. ASSUME NEW ip \in IPs PROVE Cardinality(OfIp(ip)') <= MaxPendingPerIp
        <3>1. IsFiniteSet(OfIp(ip))
            BY <2>3, FS_Subset DEF OfIp
        <3>2. CASE ip = IpOf[c]
            <4>1. OfIp(ip)' = (OfIp(ip) \ {old}) \cup {c} /\ old \in OfIp(ip)
                BY <2>2, <3>2 DEF OfIp
            <4>2. /\ Cardinality(OfIp(ip)) \in Nat /\ Cardinality(OfIp(ip)') \in Nat
                  /\ Cardinality(OfIp(ip)') <= Cardinality(OfIp(ip))
                BY <3>1, <4>1, SwapIn
            <4>3. Cardinality(OfIp(ip)) <= MaxPendingPerIp
                BY DEF PoolCount, PoolBounded, OfIp
            <4>. QED
                BY <4>2, <4>3
        <3>3. CASE ip # IpOf[c]
            <4>1. OfIp(ip)' = OfIp(ip)
                BY <2>2, <3>3 DEF OfIp
            <4>. QED
                BY <4>1 DEF PoolCount, PoolBounded, OfIp
        <3>. QED
            BY <3>2, <3>3
    <2>. QED
        BY <2>4, <2>5 DEF PoolCount, PoolBounded, OfIp
<1>3. ASSUME pending' \subseteq pending PROVE PoolCount'
    BY <1>3, ShrinkPool
<1>4. \/ \E c \in Conns : RegisterPending(c) \/ ReplacePending(c)
      \/ pending' \subseteq pending
    BY PoolSteps DEF LeavePool, pool
<1>. QED
    BY <1>1, <1>2, <1>3, <1>4

\* Both bounds of the pool of waiting connections hold.
THEOREM PoolWithinBounds == Spec => []PoolBounded
<1>1. PoolCount => PoolBounded
    BY DEF PoolCount
<1>. QED
    BY <1>1, InitPoolCount, StepPoolCount, Invariance, PTL DEF Spec

\* The count, with the fact that it can be counted.
ActiveCount == IsFiniteSet(Running) /\ ActiveCountExact

\* A handler is counted in when it starts and out exactly once when it ends.
LEMMA StepActiveCount == IInv /\ ActiveCount /\ [Next]_vars => ActiveCount'
<1> SUFFICES ASSUME IInv, ActiveCount, [Next]_vars PROVE ActiveCount'
    OBVIOUS
<1>1. IsFiniteSet(Running) /\ activeConnections = Cardinality(Running)
    BY DEF ActiveCount, ActiveCountExact
<1>2. Cardinality(Running) \in Nat
    BY <1>1, FS_CardinalityType
<1>3. ASSUME NEW c \in Conns, CountIn(c) PROVE ActiveCount'
    <2>1. Running' = Running \cup {c} /\ c \notin Running
        BY <1>3 DEF CountIn, Goto, Running, IInv, TypeOK
    <2>2. activeConnections' = activeConnections + 1
        BY <1>3 DEF CountIn
    <2>. QED
        BY <1>1, <1>2, <2>1, <2>2, FS_AddElement DEF ActiveCount, ActiveCountExact
<1>4. ASSUME NEW c \in Conns, CountOut(c) PROVE ActiveCount'
    <2>1. Running' = Running \ {c} /\ c \in Running
        BY <1>4 DEF CountOut, Goto, Finish, Running, IInv, TypeOK
    <2>2. Cardinality(Running') = Cardinality(Running) - 1 /\ IsFiniteSet(Running')
        BY <1>1, <2>1, FS_RemoveElement
    <2>3. Cardinality(Running') \in Nat
        BY <2>2, FS_CardinalityType
    <2>4. activeConnections' = IF activeConnections = 0 THEN 0 ELSE activeConnections - 1
        BY <1>4 DEF CountOut
    <2>. QED
        BY <1>1, <1>2, <2>2, <2>3, <2>4 DEF ActiveCount, ActiveCountExact
<1>5. ASSUME Running' = Running, activeConnections' = activeConnections PROVE ActiveCount'
    BY <1>1, <1>5 DEF ActiveCount, ActiveCountExact
<1>6. \/ \E c \in Conns : CountIn(c) \/ CountOut(c)
      \/ Running' = Running /\ activeConnections' = activeConnections
    BY DEF Next, HandlerStep, Deadline, Environment, Running, IInv, TypeOK, vars,
        Goto, Finish, Look, handlers, counters,
        Accept, Screen, CheckRecentApproval, PassNotifyWindow, PoolFull, RegisterPending,
        ReplacePending, CloseReplaced, CheckReconnect, NotifyReconnect, CreateToken,
        SendVerification, AwaitClick, PeekVerification, VerificationTimeout,
        CancelToken, UnregisterPending, MarkApproved, AcquireSlot, SlotBusy,
        TryTakeover, CloseTaken, SlotTimeout, EnsureInstanceRunning, ConnectUpstream,
        RegisterForwarding, UpstreamEnds, ForwardingCut, CloseSockets, ClearForwarding,
        ReleaseSlot, PeerDisconnects, ClickVerify, TokenExpires, ExpireApproval,
        ExpireReconnect, Stop
<1>. QED
    BY <1>3, <1>4, <1>5, <1>6

\* The count and its finiteness hold in every reachable state.
LEMMA CountInvariance == Spec => []ActiveCount
<1>1. Init => ActiveCount
    <2> SUFFICES ASSUME Init PROVE ActiveCount
        OBVIOUS
    <2>1. Running = {} /\ activeConnections = 0
        BY DEF Init, Running
    <2>. QED
        BY <2>1, FS_EmptySet DEF ActiveCount, ActiveCountExact
<1>. QED
    BY <1>1, StepActiveCount, Invariance, PTL DEF Spec

\* _active_connections counts exactly the handlers that are running.
THEOREM CountIsExact == Spec => []ActiveCountExact
<1>1. ActiveCount => ActiveCountExact
    BY DEF ActiveCount
<1>. QED
    BY <1>1, CountInvariance, PTL

----------------------------------------------------------------------------
(* Who closes a socket, and who takes a place in the pool.                 *)

\* Sockets are closed by their own handler, or by one of the same IP.
THEOREM CutsStayWithinIp == Spec => CutOnlySameIp
<1> DEFINE Cut(c) ==
        (sock'[c] # sock[c] /\ sock'[c] = "closed")
        \/ (upstream'[c] # upstream[c] /\ upstream'[c] = "closed")
        => \/ pc[c] = "finally"
           \/ \E d \in Conns \ {c} :
                 IpOf[d] = IpOf[c] /\ pc[d] \in {"close_replaced", "close_taken"}
<1>1. IInv /\ [Next]_vars => \A c \in Conns : Cut(c)
    <2> SUFFICES ASSUME IInv, [Next]_vars, NEW c \in Conns PROVE Cut(c)
        OBVIOUS
    <2>1. ASSUME NEW d \in Conns, CloseReplaced(d) \/ CloseTaken(d) PROVE Cut(c)
        BY <2>1 DEF CloseReplaced, CloseTaken, Close, IInv, TypeOK, VictimInv
    <2>2. ASSUME NEW d \in Conns, CloseSockets(d) PROVE Cut(c)
        BY <2>2 DEF CloseSockets, Close, IInv, TypeOK
    <2>3. ASSUME NEW d \in Conns,
                 Accept(d) \/ ConnectUpstream(d) \/ PeerDisconnects(d) PROVE Cut(c)
        BY <2>3 DEF Accept, ConnectUpstream, PeerDisconnects, IInv, TypeOK
    <2>4. ASSUME UNCHANGED sockets PROVE Cut(c)
        BY <2>4 DEF sockets
    <2>5. \/ \E d \in Conns :
               \/ CloseReplaced(d) \/ CloseTaken(d) \/ CloseSockets(d)
               \/ Accept(d) \/ ConnectUpstream(d) \/ PeerDisconnects(d)
          \/ UNCHANGED sockets
        BY DEF Next, HandlerStep, Deadline, Environment, sockets, vars,
            CountIn, Screen, CheckRecentApproval, PassNotifyWindow, PoolFull, RegisterPending,
            ReplacePending, CheckReconnect, NotifyReconnect, CreateToken,
            SendVerification, AwaitClick, PeekVerification, VerificationTimeout,
            CancelToken, UnregisterPending, MarkApproved, AcquireSlot, SlotBusy,
            TryTakeover, SlotTimeout, EnsureInstanceRunning, RegisterForwarding,
            UpstreamEnds, ForwardingCut, CountOut, ClearForwarding, ReleaseSlot,
            ClickVerify, TokenExpires, ExpireApproval, ExpireReconnect, Stop
    <2>. QED
        BY <2>1, <2>2, <2>3, <2>4, <2>5
<1>2. ASSUME [][\A c \in Conns : Cut(c)]_vars PROVE CutOnlySameIp
    BY <1>2 DEF CutOnlySameIp
<1>. QED
    BY <1>1, Invariance, PTL DEF Spec, CutOnlySameIp

\* The ages of the entries tell them apart, as their order in the dict does.
AgesDiffer == \A d, e \in pending : d # e => age[d] # age[e]

\* A connection enters the pool younger than all that are in it.
LEMMA NewcomerIsYoungest ==
    ASSUME IInv, AgesDiffer, NEW c \in Conns \ pending, NEW evicted, EnterPool(c, evicted)
    PROVE  AgesDiffer'
<1> SUFFICES ASSUME NEW d \in pending', NEW e \in pending', d # e PROVE age'[d] # age'[e]
    BY DEF AgesDiffer
<1>1. ASSUME NEW x \in pending \ evicted
      PROVE  age'[x] = age[x] + 1 /\ age[x] \in Nat /\ x # c
    BY DEF EnterPool, IInv, TypeOK
<1>2. age'[c] = 0
    BY DEF EnterPool
<1>3. \A x \in pending' : x = c \/ x \in pending \ evicted
    BY DEF EnterPool
<1>. QED
    BY <1>1, <1>2, <1>3 DEF AgesDiffer

\* No step gives two entries the same age.
LEMMA StepAgesDiffer == IInv /\ AgesDiffer /\ [Next]_vars => AgesDiffer'
<1> SUFFICES ASSUME IInv, AgesDiffer, [Next]_vars PROVE AgesDiffer'
    OBVIOUS
<1>1. ASSUME NEW c \in Conns, RegisterPending(c) \/ ReplacePending(c) PROVE AgesDiffer'
    <2>1. c \notin pending
        BY <1>1 DEF RegisterPending, ReplacePending, IInv, PoolInv
    <2>2. \E evicted : EnterPool(c, evicted)
        BY <1>1 DEF RegisterPending, ReplacePending
    <2>. QED
        BY <2>1, <2>2, NewcomerIsYoungest
<1>2. ASSUME NEW c \in Conns, LeavePool(c) PROVE AgesDiffer'
    BY <1>2 DEF LeavePool, AgesDiffer, IInv, TypeOK
<1>3. CASE UNCHANGED pool
    BY <1>3 DEF pool, AgesDiffer
<1>. QED
    BY <1>1, <1>2, <1>3, PoolSteps

\* A place in the pool is taken away only from the connection of the IP that
\* has waited longest, and only by a newer one of the same IP.
THEOREM OldestIsEvicted == Spec => EvictsOldest
<1> DEFINE Evicted(c) ==
        pc'[c] = pc[c] =>
            \E d \in pending' \ pending :
                /\ IpOf[d] = IpOf[c]
                /\ \A e \in pending \cap pending' : IpOf[e] = IpOf[c] => age[e] < age[c]
<1>1. IInv /\ AgesDiffer /\ [Next]_vars => \A c \in pending \ pending' : Evicted(c)
    <2> SUFFICES ASSUME IInv, AgesDiffer, [Next]_vars, NEW c \in pending \ pending'
                 PROVE  Evicted(c)
        OBVIOUS
    <2>1. ASSUME NEW d \in Conns, RegisterPending(d) PROVE Evicted(c)
        BY <2>1 DEF RegisterPending, EnterPool
    <2>2. ASSUME NEW d \in Conns, ReplacePending(d) PROVE Evicted(c)
        <3>1. PICK old \in SameIpPending(d) :
                  (\A e \in SameIpPending(d) : age[e] <= age[old]) /\ EnterPool(d, {old})
            BY <2>2 DEF ReplacePending
        <3>2. c = old /\ IpOf[d] = IpOf[c]
            BY <3>1 DEF EnterPool, SameIpPending
        <3>3. d \in pending' \ pending
            BY <2>2, <3>1 DEF EnterPool, ReplacePending, IInv, PoolInv
        <3>4. ASSUME NEW e \in pending \cap pending', IpOf[e] = IpOf[c]
              PROVE  age[e] < age[c]
            <4>1. e # c /\ age[e] <= age[c]
                BY <3>1, <3>2, <3>4 DEF SameIpPending
            <4>2. age[e] # age[c] /\ age[e] \in Nat /\ age[c] \in Nat
                BY <4>1 DEF AgesDiffer, IInv, TypeOK
            <4>. QED
                BY <4>1, <4>2
        <3>. QED
            BY <3>2, <3>3, <3>4
    <2>3. ASSUME NEW d \in Conns, LeavePool(d), pc'[d] # pc[d] PROVE Evicted(c)
        BY <2>3 DEF LeavePool
    <2>4. CASE UNCHANGED pool
        BY <2>4 DEF pool
    <2>. QED
        BY <2>1, <2>2, <2>3, <2>4, PoolSteps
<1>2. Init => AgesDiffer
    BY DEF Init, AgesDiffer
<1>. QED
    BY <1>1, <1>2, StepAgesDiffer, Invariance, PTL DEF Spec, EvictsOldest

----------------------------------------------------------------------------
(* The refinement of GatedSession.                                         *)

\* The initial states are initial states of the single gated session.
LEMMA InitRefines == Init => Session!Init
BY DEF Init, Session!Init

\* Every step is a step of the single gated session, or invisible in it.
LEMMA StepRefines == IInv /\ [Next]_vars => [Session!Next]_(Session!vars)
<1> SUFFICES ASSUME IInv, [Next]_vars PROVE [Session!Next]_(Session!vars)
    OBVIOUS
<1> USE ConnsAssumption
    DEF IInv, TypeOK, SlotInv, TokenInv, Holds, Started, Approved, Goto, Raise, Finish, Look
<1>1. ASSUME NEW c \in Conns, AcquireSlot(c) PROVE Session!Grant(c)
    BY <1>1 DEF AcquireSlot, ClickInv, Admitted, Session!Grant
<1>2. ASSUME NEW c \in Conns, RegisterForwarding(c)
      PROVE  Session!Serve \/ UNCHANGED Session!vars
    BY <1>2 DEF RegisterForwarding, Session!Serve, Session!vars
<1>3. ASSUME NEW c \in Conns, ReleaseSlot(c) PROVE Session!End
    BY <1>3 DEF ReleaseSlot, Session!End
<1>4. ASSUME NEW c \in Conns, ClickVerify(c) PROVE Session!Invite(IpOf[c])
    BY <1>4 DEF ClickVerify, Session!Invite, handlers, session
<1>0. ASSUME NEW c \in Conns, Accept(c) PROVE UNCHANGED Session!vars
    BY <1>0 DEF Accept, Session!vars, handlers, session
<1>5. ASSUME NEW c \in Conns, CountIn(c) PROVE UNCHANGED Session!vars
    BY <1>5 DEF CountIn, Session!vars, handlers, session
<1>6. ASSUME NEW c \in Conns, Screen(c) PROVE UNCHANGED Session!vars
    BY <1>6 DEF Screen, Session!vars, handlers, session
<1>7. ASSUME NEW c \in Conns, CheckRecentApproval(c) PROVE UNCHANGED Session!vars
    BY <1>7 DEF CheckRecentApproval, Session!vars, handlers, session
<1>8. ASSUME NEW c \in Conns, PassNotifyWindow(c) PROVE UNCHANGED Session!vars
    BY <1>8 DEF PassNotifyWindow, Session!vars, handlers, session
<1>9. ASSUME NEW c \in Conns, PoolFull(c) PROVE UNCHANGED Session!vars
    BY <1>9 DEF PoolFull, Session!vars, handlers, session
<1>10. ASSUME NEW c \in Conns, RegisterPending(c) PROVE UNCHANGED Session!vars
    BY <1>10 DEF RegisterPending, Session!vars, handlers, session
<1>11. ASSUME NEW c \in Conns, ReplacePending(c) PROVE UNCHANGED Session!vars
    BY <1>11 DEF ReplacePending, Session!vars, handlers, session
<1>12. ASSUME NEW c \in Conns, CloseReplaced(c) PROVE UNCHANGED Session!vars
    BY <1>12 DEF CloseReplaced, Session!vars, handlers, session
<1>13. ASSUME NEW c \in Conns, CheckReconnect(c) PROVE UNCHANGED Session!vars
    BY <1>13 DEF CheckReconnect, Session!vars, handlers, session
<1>14. ASSUME NEW c \in Conns, NotifyReconnect(c) PROVE UNCHANGED Session!vars
    BY <1>14 DEF NotifyReconnect, Session!vars, handlers, session
<1>15. ASSUME NEW c \in Conns, CreateToken(c) PROVE UNCHANGED Session!vars
    BY <1>15 DEF CreateToken, Session!vars, handlers, session
<1>16. ASSUME NEW c \in Conns, SendVerification(c) PROVE UNCHANGED Session!vars
    BY <1>16 DEF SendVerification, Session!vars, handlers, session
<1>17. ASSUME NEW c \in Conns, AwaitClick(c) PROVE UNCHANGED Session!vars
    BY <1>17 DEF AwaitClick, Session!vars, handlers, session
<1>18. ASSUME NEW c \in Conns, PeekVerification(c) PROVE UNCHANGED Session!vars
    BY <1>18 DEF PeekVerification, Session!vars, handlers, session
<1>19. ASSUME NEW c \in Conns, VerificationTimeout(c) PROVE UNCHANGED Session!vars
    BY <1>19 DEF VerificationTimeout, Session!vars, handlers, session
<1>20. ASSUME NEW c \in Conns, CancelToken(c) PROVE UNCHANGED Session!vars
    BY <1>20 DEF CancelToken, Session!vars, handlers, session
<1>21. ASSUME NEW c \in Conns, UnregisterPending(c) PROVE UNCHANGED Session!vars
    BY <1>21 DEF UnregisterPending, Session!vars, handlers, session
<1>22. ASSUME NEW c \in Conns, MarkApproved(c) PROVE UNCHANGED Session!vars
    BY <1>22 DEF MarkApproved, Session!vars, handlers, session
<1>23. ASSUME NEW c \in Conns, SlotBusy(c) PROVE UNCHANGED Session!vars
    BY <1>23 DEF SlotBusy, Session!vars, handlers, session
<1>24. ASSUME NEW c \in Conns, TryTakeover(c) PROVE UNCHANGED Session!vars
    BY <1>24 DEF TryTakeover, Session!vars, handlers, session
<1>25. ASSUME NEW c \in Conns, CloseTaken(c) PROVE UNCHANGED Session!vars
    BY <1>25 DEF CloseTaken, Session!vars, handlers, session
<1>26. ASSUME NEW c \in Conns, SlotTimeout(c) PROVE UNCHANGED Session!vars
    BY <1>26 DEF SlotTimeout, Session!vars, handlers, session
<1>27. ASSUME NEW c \in Conns, EnsureInstanceRunning(c) PROVE UNCHANGED Session!vars
    BY <1>27 DEF EnsureInstanceRunning, Session!vars, handlers, session
<1>28. ASSUME NEW c \in Conns, ConnectUpstream(c) PROVE UNCHANGED Session!vars
    BY <1>28 DEF ConnectUpstream, Session!vars, handlers, session
<1>29. ASSUME NEW c \in Conns, UpstreamEnds(c) PROVE UNCHANGED Session!vars
    BY <1>29 DEF UpstreamEnds, Session!vars, handlers, session
<1>30. ASSUME NEW c \in Conns, ForwardingCut(c) PROVE UNCHANGED Session!vars
    BY <1>30 DEF ForwardingCut, Session!vars, handlers, session
<1>31. ASSUME NEW c \in Conns, CloseSockets(c) PROVE UNCHANGED Session!vars
    BY <1>31 DEF CloseSockets, Session!vars, handlers, session
<1>32. ASSUME NEW c \in Conns, CountOut(c) PROVE UNCHANGED Session!vars
    BY <1>32 DEF CountOut, Session!vars, handlers, session
<1>33. ASSUME NEW c \in Conns, ClearForwarding(c) PROVE UNCHANGED Session!vars
    BY <1>33 DEF ClearForwarding, Session!vars, handlers, session
<1>34. ASSUME NEW c \in Conns, PeerDisconnects(c) PROVE UNCHANGED Session!vars
    BY <1>34 DEF PeerDisconnects, Session!vars, handlers, session
<1>35. ASSUME NEW c \in Conns, TokenExpires(c) PROVE UNCHANGED Session!vars
    BY <1>35 DEF TokenExpires, Session!vars, handlers, session
<1>36. ASSUME NEW ip \in IPs, ExpireApproval(ip) PROVE UNCHANGED Session!vars
    BY <1>36 DEF ExpireApproval, Session!vars, handlers, session
<1>37. ASSUME NEW ip \in IPs, ExpireReconnect(ip) PROVE UNCHANGED Session!vars
    BY <1>37 DEF ExpireReconnect, Session!vars, handlers, session
<1>38. CASE Stop
    BY <1>38 DEF Stop, Session!vars, handlers, session
<1>39. CASE UNCHANGED vars
    BY <1>39 DEF vars, Session!vars, handlers, session
<1>. QED
    BY
        <1>0, <1>1, <1>2, <1>3, <1>4, <1>5, <1>6, <1>7, <1>8, <1>9, <1>10, <1>11, <1>12,
        <1>13, <1>14, <1>15, <1>16, <1>17, <1>18, <1>19, <1>20, <1>21, <1>22, <1>23,
        <1>24, <1>25, <1>26, <1>27, <1>28, <1>29, <1>30, <1>31, <1>32, <1>33, <1>34,
        <1>35, <1>36, <1>37, <1>38, <1>39
    DEF Next, HandlerStep, Deadline, Environment, Session!Next

\* The proxy keeps the promise of the single gated session (its safety part).
THEOREM Refinement == Spec => Session!Spec
BY InitRefines, StepRefines, Invariance, PTL DEF Spec, Session!Spec
=============================================================================
