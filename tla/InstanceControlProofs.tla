----------------------- MODULE InstanceControlProofs -----------------------
(***************************************************************************)
(* The safety of InstanceControl for any number of handlers and retries.   *)
(***************************************************************************)
EXTENDS InstanceControl, FiniteSetTheorems, TLAPS

\* Handlers keep to their stages and the idle thread to its own; a thread is in
\* the retry routine exactly while its caller waits for the routine.
StageInv ==
    /\ pc[Idle] \in IdleStages
    /\ \A c \in Clients : pc[c] \in ClientStages
    /\ \A a \in Actors : step[a] # "none" <=> pc[a] \in {"starting", "stopping"}

\* A start that was reported lasts while its handler polls.
StartInv ==
    \A c \in Clients : started[c] => pc[c] = "poll" /\ inst \in {"STARTING", "RUNNING"}

\* The slot is taken before the instance is asked for and given back last.
HolderInv ==
    \A c \in Clients :
        pc[c] \in {"wait_api", "poll", "starting", "ready", "serving", "releasing"} => slot = c

IInv == TypeOK /\ OneOperation /\ StageInv /\ StartInv /\ HolderInv

USE DEF Actors, InstStates, IdleActions, ErrorKinds, ClientStages, IdleStages

\* Whatever the instance is found in, IInv holds at the start.
LEMMA InitIInv == Init => IInv
<1> SUFFICES ASSUME Init PROVE IInv
    OBVIOUS
<1>1. TypeOK
    <2>1. 0 \in 0..MaxActionRetries
        BY RetriesAssumption
    <2>. QED
        BY <2>1 DEF Init, TypeOK
<1>. QED
    BY <1>1, ActorsAssumption
    DEF Init, IInv, OneOperation, StageInv, StartInv, HolderInv

\* What the lock holder knows: nobody else polls, checks or runs the routine, so
\* no other handler has a start reported.
LEMMA Alone ==
    ASSUME IInv, NEW a \in Actors, step[a] # "none"
    PROVE  /\ apiLock = a
           /\ a \in Clients => pc[a] = "starting" /\ ~started[a] /\ slot = a
           /\ a = Idle => pc[a] = "stopping"
           /\ \A b \in Actors \ {a} :
                /\ pc[b] \notin {"poll", "starting", "query", "stopping"}
                /\ step[b] = "none"
                /\ b \in Clients => ~started[b]
<1>1. apiLock = a
    BY DEF IInv, OneOperation
<1>2. \A b \in Actors \ {a} :
          /\ pc[b] \notin {"poll", "starting", "query", "stopping"}
          /\ step[b] = "none"
    BY <1>1 DEF IInv, OneOperation
<1>. QED
    BY <1>1, <1>2, ActorsAssumption DEF IInv, StageInv, StartInv, HolderInv, TypeOK

\* The routine reports success, of a start only when it was carried out.
LEMMA SucceedKeeps ==
    ASSUME IInv, NEW a \in Actors, step[a] # "none", Succeed(a),
           UNCHANGED <<slot, active, idleAction>>, inst' \in InstStates,
           a \in Clients => inst' \in {"STARTING", "RUNNING"}
    PROVE  IInv'
<1> USE ActorsAssumption DEF Succeed, LeaveRoutine, Goto
<1>1. 0 \in 0..MaxActionRetries
    BY RetriesAssumption
<1>2. TypeOK'
    BY <1>1 DEF IInv, TypeOK
<1>3. OneOperation'
    BY Alone DEF IInv, TypeOK, OneOperation
<1>4. StageInv'
    BY Alone DEF IInv, TypeOK, StageInv
<1>5. StartInv' /\ HolderInv'
    BY Alone DEF IInv, TypeOK, StartInv, HolderInv
<1>. QED
    BY <1>2, <1>3, <1>4, <1>5 DEF IInv

\* The routine reports failure.
LEMMA FailKeeps ==
    ASSUME IInv, NEW a \in Actors, step[a] # "none", Fail(a),
           UNCHANGED <<inst, slot, active, idleAction>>
    PROVE  IInv'
<1> USE ActorsAssumption DEF Fail, LeaveRoutine, Goto
<1>1. 0 \in 0..MaxActionRetries
    BY RetriesAssumption
<1>2. TypeOK'
    BY <1>1 DEF IInv, TypeOK
<1>3. OneOperation'
    BY Alone DEF IInv, TypeOK, OneOperation
<1>4. StageInv'
    BY Alone DEF IInv, TypeOK, StageInv
<1>5. StartInv' /\ HolderInv'
    BY Alone DEF IInv, TypeOK, StartInv, HolderInv
<1>. QED
    BY <1>2, <1>3, <1>4, <1>5 DEF IInv

\* The routine turns once more, within its bound, or reports failure.
LEMMA RetryKeeps ==
    ASSUME IInv, NEW a \in Actors, step[a] # "none", RetryOrFail(a),
           UNCHANGED <<inst, slot, active, idleAction>>
    PROVE  IInv'
<1>1. CASE Fail(a)
    BY <1>1, FailKeeps
<1>2. CASE ~Fail(a)
    <2>1. retryIndex[a] + 1 \in 0..MaxActionRetries
        BY <1>2, RetriesAssumption DEF RetryOrFail, IInv, TypeOK
    <2>. QED
        BY <1>2, <2>1, Alone
        DEF RetryOrFail, IInv, TypeOK, OneOperation, StageInv, StartInv, HolderInv
<1>. QED
    BY <1>1, <1>2

\* No step of a handler, of the idle thread, of the cloud or of a person breaks
\* IInv.
LEMMA StepIInv == IInv /\ [Next]_vars => IInv'
<1> SUFFICES ASSUME IInv, [Next]_vars PROVE IInv'
    OBVIOUS
<1> USE ActorsAssumption, RetriesAssumption
    DEF IInv, TypeOK, OneOperation, StageInv, StartInv, HolderInv, Goto, routine,
        EnterRoutine, OperationOf, Observations, Satisfies, Blocks, Admits, Outcome
<1>1. ASSUME NEW c \in Clients, Arrive(c) PROVE IInv'
    BY <1>1 DEF Arrive
<1>2. ASSUME NEW c \in Clients, TurnedAway(c) PROVE IInv'
    BY <1>2 DEF TurnedAway
<1>3. ASSUME NEW c \in Clients, TakeSlot(c) PROVE IInv'
    BY <1>3 DEF TakeSlot
<1>4. ASSUME NEW c \in Clients, StartupEnds(c) PROVE IInv'
    BY <1>4 DEF StartupEnds
<1>5. ASSUME NEW c \in Clients, SessionEnds(c) PROVE IInv'
    BY <1>5 DEF SessionEnds
<1>6. ASSUME NEW c \in Clients, PollInstance(c) PROVE IInv'
    <2>1. TypeOK'
        <3>1. pc' \in [Actors -> ClientStages \cup IdleStages]
            BY <1>6 DEF PollInstance
        <3>2. /\ step' \in [Actors -> {"none", "check", "call", "recheck"}]
              /\ started' \in [Clients -> BOOLEAN]
            BY <1>6 DEF PollInstance
        <3>. QED
            BY <1>6, <3>1, <3>2 DEF PollInstance
    <2>2. OneOperation' /\ StageInv'
        BY <1>6 DEF PollInstance
    <2>3. StartInv' /\ HolderInv'
        BY <1>6 DEF PollInstance
    <2>. QED
        BY <2>1, <2>2, <2>3
<1>7. ASSUME NEW c \in Clients, Serve(c) PROVE IInv'
    BY <1>7 DEF Serve
<1>8. ASSUME NEW c \in Clients, CountOut(c) PROVE IInv'
    <2>1. TypeOK'
        <3>1. active' \in Nat
            BY <1>8 DEF CountOut
        <3>2. pc' \in [Actors -> ClientStages \cup IdleStages]
            BY <1>8 DEF CountOut
        <3>. QED
            BY <1>8, <3>1, <3>2 DEF CountOut
    <2>2. OneOperation' /\ StageInv'
        BY <1>8 DEF CountOut
    <2>3. StartInv' /\ HolderInv'
        BY <1>8 DEF CountOut
    <2>. QED
        BY <2>1, <2>2, <2>3
<1>9. ASSUME NEW c \in Clients, ReleaseSlot(c) PROVE IInv'
    BY <1>9 DEF ReleaseSlot
<1>10. ASSUME NEW a \in Actors, TakeApiLock(a) PROVE IInv'
    BY <1>10 DEF TakeApiLock
<1>11. ASSUME NEW a \in Actors, CheckState(a) PROVE IInv'
    <2>1. PICK state \in Observations :
              \/ Satisfies(OperationOf(a), state) /\ Succeed(a)
              \/ Blocks(OperationOf(a), state) /\ RetryOrFail(a)
              \/ /\ step' = [step EXCEPT ![a] = "call"]
                 /\ UNCHANGED <<retryIndex, error, pc, apiLock, started, idleLong>>
        BY <1>11 DEF CheckState
    <2>2. CASE Satisfies(OperationOf(a), state) /\ Succeed(a)
        BY <1>11, <2>2, SucceedKeeps DEF CheckState
    <2>3. CASE RetryOrFail(a)
        BY <1>11, <2>3, RetryKeeps DEF CheckState
    <2>4. CASE /\ step' = [step EXCEPT ![a] = "call"]
               /\ UNCHANGED <<retryIndex, error, pc, apiLock, started, idleLong>>
        BY <1>11, <2>4, Alone DEF CheckState
    <2>. QED
        BY <2>1, <2>2, <2>3, <2>4
<1>12. ASSUME NEW a \in Actors, CallSucceeds(a) PROVE IInv'
    BY <1>12, SucceedKeeps DEF CallSucceeds
<1>13. ASSUME NEW a \in Actors, CallRaises(a) PROVE IInv'
    BY <1>13, Alone DEF CallRaises
<1>14. ASSUME NEW a \in Actors, Recheck(a) PROVE IInv'
    <2>1. PICK state \in Observations :
              \/ Satisfies(OperationOf(a), state) /\ Succeed(a)
              \/ Fail(a) \/ RetryOrFail(a)
        BY <1>14 DEF Recheck
    <2>2. CASE Satisfies(OperationOf(a), state) /\ Succeed(a)
        BY <1>14, <2>2, SucceedKeeps DEF Recheck
    <2>3. CASE Fail(a)
        BY <1>14, <2>3, FailKeeps DEF Recheck
    <2>4. CASE RetryOrFail(a)
        BY <1>14, <2>4, RetryKeeps DEF Recheck
    <2>. QED
        BY <2>1, <2>2, <2>3, <2>4
<1>15. ASSUME DecideIdle PROVE IInv'
    BY <1>15 DEF DecideIdle
<1>16. ASSUME QueryBeforeStop PROVE IInv'
    BY <1>16 DEF QueryBeforeStop
<1>17. ASSUME QueryRaises PROVE IInv'
    BY <1>17 DEF QueryRaises
<1>18. ASSUME CloudProgress PROVE IInv'
    BY <1>18 DEF CloudProgress
<1>19. ASSUME IdleTimePasses PROVE IInv'
    BY <1>19 DEF IdleTimePasses
<1>20. ASSUME NEW action \in IdleActions, ApplyIdleAction(action) PROVE IInv'
    BY <1>20 DEF ApplyIdleAction
<1>21. ASSUME UNCHANGED vars PROVE IInv'
    BY <1>21 DEF vars
<1>. QED
    BY <1>1, <1>2, <1>3, <1>4, <1>5, <1>6, <1>7, <1>8, <1>9, <1>10, <1>11,
       <1>12, <1>13, <1>14, <1>15, <1>16, <1>17, <1>18, <1>19, <1>20, <1>21
    DEF Next, ClientStep, IdleStep, RoutineStep

\* IInv holds in every reachable state.
THEOREM Invariance == Spec => []IInv
BY InitIInv, StepIInv, PTL DEF Spec

\* Type correctness.
THEOREM Typing == Spec => []TypeOK
<1>1. IInv => TypeOK
    BY DEF IInv
<1>. QED
    BY <1>1, Invariance, PTL

\* Whoever polls, checks or runs the retry routine has _api_lock.
THEOREM OperationsExclude == Spec => []OneOperation
<1>1. IInv => OneOperation
    BY DEF IInv
<1>. QED
    BY <1>1, Invariance, PTL

\* A start reported as successful was carried out.
THEOREM StartsAreReal == Spec => []StartReportedIsStarted
<1>1. IInv => StartReportedIsStarted
    BY DEF IInv, StartInv, StartReportedIsStarted
<1>. QED
    BY <1>1, Invariance, PTL

----------------------------------------------------------------------------
(* Counting the handlers.                                                  *)

\* The handlers that _active_connections counts.
Counted == {c \in Clients : pc[c] \notin {"out", "releasing"}}

CountInv == IsFiniteSet(Counted) /\ active = Cardinality(Counted)

\* Nobody is counted at the start.
LEMMA InitCount == Init => CountInv
<1> SUFFICES ASSUME Init PROVE CountInv
    OBVIOUS
<1>1. Counted = {} /\ active = 0
    BY ActorsAssumption DEF Init, Counted
<1>. QED
    BY <1>1, FS_EmptySet DEF CountInv

\* A handler is counted in when it arrives and out when it leaves.
LEMMA StepCount == IInv /\ CountInv /\ [Next]_vars => CountInv'
<1> SUFFICES ASSUME IInv, CountInv, [Next]_vars PROVE CountInv'
    OBVIOUS
<1>1. Cardinality(Counted) \in Nat
    BY FS_CardinalityType DEF CountInv
<1>2. ASSUME NEW c \in Clients, Arrive(c) PROVE CountInv'
    <2>1. Counted' = Counted \cup {c} /\ c \notin Counted
        BY <1>2 DEF Arrive, Goto, Counted, IInv, TypeOK
    <2>2. active' = active + 1
        BY <1>2 DEF Arrive
    <2>. QED
        BY <1>1, <2>1, <2>2, FS_AddElement DEF CountInv
<1>3. ASSUME NEW c \in Clients, CountOut(c) PROVE CountInv'
    <2>1. Counted' = Counted \ {c} /\ c \in Counted
        BY <1>3 DEF CountOut, Goto, Counted, IInv, TypeOK
    <2>2. Cardinality(Counted') = Cardinality(Counted) - 1 /\ IsFiniteSet(Counted')
        BY <2>1, FS_RemoveElement DEF CountInv
    <2>3. Cardinality(Counted') \in Nat
        BY <2>2, FS_CardinalityType
    <2>4. active' = IF active = 0 THEN 0 ELSE active - 1
        BY <1>3 DEF CountOut
    <2>. QED
        BY <1>1, <2>2, <2>3, <2>4 DEF CountInv
<1>4. ASSUME Counted' = Counted, active' = active PROVE CountInv'
    BY <1>4 DEF CountInv
<1>5. \/ \E c \in Clients : Arrive(c) \/ CountOut(c)
      \/ Counted' = Counted /\ active' = active
    <2> USE ActorsAssumption DEF Counted, IInv, TypeOK, StageInv, Goto
    <2>1. ASSUME NEW c \in Clients,
                 TurnedAway(c) \/ TakeSlot(c) \/ StartupEnds(c) \/ SessionEnds(c)
                 \/ PollInstance(c) \/ Serve(c) \/ ReleaseSlot(c)
          PROVE  Counted' = Counted /\ active' = active
        BY <2>1 DEF TurnedAway, TakeSlot, StartupEnds, SessionEnds, PollInstance, Serve,
            ReleaseSlot
    <2>2. ASSUME NEW a \in Actors, TakeApiLock(a) \/ RoutineStep(a)
          PROVE  Counted' = Counted /\ active' = active
        BY <2>2 DEF TakeApiLock, RoutineStep, CheckState, CallSucceeds, CallRaises, Recheck,
            Succeed, Fail, RetryOrFail
    <2>3. ASSUME DecideIdle \/ QueryBeforeStop \/ QueryRaises \/ CloudProgress
                 \/ IdleTimePasses \/ (\E action \in IdleActions : ApplyIdleAction(action))
          PROVE  Counted' = Counted /\ active' = active
        BY <2>3 DEF DecideIdle, QueryBeforeStop, QueryRaises, CloudProgress, IdleTimePasses,
            ApplyIdleAction
    <2>4. ASSUME UNCHANGED vars PROVE Counted' = Counted /\ active' = active
        BY <2>4 DEF vars
    <2>. QED
        BY <2>1, <2>2, <2>3, <2>4 DEF Next, ClientStep, IdleStep
<1>. QED
    BY <1>2, <1>3, <1>4, <1>5

\* A handler that uses the instance is counted and has the slot.
THEOREM ServiceIsCounted == Spec => []ServedIsCounted
<1>1. IInv /\ CountInv => ServedIsCounted
    <2> SUFFICES ASSUME IInv, CountInv, NEW c \in Clients,
                        pc[c] \in {"wait_api", "poll", "starting", "ready", "serving"}
                 PROVE  active > 0 /\ slot = c
        BY DEF ServedIsCounted
    <2>1. c \in Counted
        BY DEF Counted
    <2>2. Cardinality(Counted) # 0 /\ Cardinality(Counted) \in Nat
        BY <2>1, FS_EmptySet, FS_CardinalityType DEF CountInv
    <2>. QED
        BY <2>2 DEF IInv, HolderInv, CountInv
<1>. QED
    BY <1>1, InitCount, StepCount, Invariance, PTL DEF Spec

----------------------------------------------------------------------------
(* Starting and stopping.                                                  *)

\* While a handler brings the instance up, nobody takes it down.
THEOREM StartupIsUndisturbed == Spec => NoStopDuringStartup
<1>1. ASSUME IInv, [Next]_vars,
             NEW c \in Clients, pc[c] \in {"poll", "starting"}, inst # "STOPPING"
      PROVE  inst' # "STOPPING"
    <2>1. apiLock = c /\ c # Idle
        BY <1>1, ActorsAssumption DEF IInv, OneOperation
    <2>2. ASSUME NEW a \in Actors, CallSucceeds(a) \/ CallRaises(a) PROVE inst' # "STOPPING"
        <3>1. apiLock = a
            BY <1>1, <2>2 DEF IInv, OneOperation, CallSucceeds, CallRaises
        <3>. QED
            BY <1>1, <2>1, <2>2, <3>1
            DEF CallSucceeds, CallRaises, Outcome, OperationOf
    <2>3. ASSUME ~\E a \in Actors : CallSucceeds(a) \/ CallRaises(a)
          PROVE  inst' = inst \/ CloudProgress
        BY <1>1, <2>3 DEF Next, ClientStep, IdleStep, RoutineStep, vars,
            Arrive, TurnedAway, TakeSlot, StartupEnds, SessionEnds, PollInstance, Serve,
            CountOut, ReleaseSlot, TakeApiLock, CheckState, Recheck, DecideIdle,
            QueryBeforeStop, QueryRaises, IdleTimePasses, ApplyIdleAction
    <2>. QED
        BY <1>1, <2>2, <2>3 DEF CloudProgress
<1>2. IInv /\ [Next]_vars => [\A c \in Clients :
         pc[c] \in {"poll", "starting"} /\ inst # "STOPPING" => inst' # "STOPPING"]_vars
    BY <1>1
<1>. QED
    BY <1>2, Invariance, PTL DEF Spec, NoStopDuringStartup
=============================================================================
