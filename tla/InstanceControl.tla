-------------------------- MODULE InstanceControl --------------------------
(***************************************************************************)
(* The cloud instance behind one TargetProxy: the handler that holds the   *)
(* forwarding slot starts it (_ensure_instance_running), the idle thread   *)
(* stops it (_idle_shutdown_loop), and both go through the retry routine   *)
(* _execute_cloud_action_with_retry under _api_lock.  The rest of a        *)
(* handler (module TargetProxy) is reduced to being counted in, taking the *)
(* slot, serving, being counted out and releasing the slot.                *)
(*                                                                         *)
(* Cloud control is enabled, the provider configured, nobody else operates *)
(* the instance and the proxy is not stopping.  Sleeps and poll intervals  *)
(* are not represented; a deadline that may have passed is a choice;       *)
(* idleLong says that idle_shutdown_minutes have passed since              *)
(* _last_disconnect_at.                                                    *)
(*                                                                         *)
(* An operator whose name ends in Fault is what a plausible mistake would  *)
(* make of the definition that follows it; no specification uses it.       *)
(***************************************************************************)
EXTENDS Naturals

CONSTANTS
    Clients,           \* handler threads (each may serve one client after another)
    Idle,              \* the idle thread
    Nobody,            \* a free lock
    MaxActionRetries,  \* _max_action_retries
    QueryMayRaise      \* whether get_instance_state raises on an API error
                       \* (aliyun_ecs) or answers UNKNOWN (tencent_cvm)

ASSUME ActorsAssumption == Idle \notin Clients /\ Nobody \notin Clients \cup {Idle}
ASSUME RetriesAssumption == MaxActionRetries \in Nat
ASSUME QueryAssumption == QueryMayRaise \in BOOLEAN

VARIABLES
    inst,        \* the true state of the instance, at the cloud
    apiLock,     \* holder of _api_lock
    slot,        \* holder of _single_session_lock
    active,      \* _active_connections
    idleAction,  \* _idle_action
    idleLong,    \* the idle time has passed since _last_disconnect_at
    pc,          \* where each handler and the idle thread are
    started,     \* local `started` of _ensure_instance_running
    step,        \* where each thread is in the retry routine
    retryIndex,  \* local retry_index of the routine
    error        \* the kind of exception the last call raised

routine == <<step, retryIndex, error>>
vars == <<inst, apiLock, slot, active, idleAction, idleLong, pc, started, routine>>

Actors == Clients \cup {Idle}
InstStates == {"STOPPED", "STARTING", "RUNNING", "STOPPING"}
IdleActions == {"keep_running", "shutdown_on_idle"}

\* What an API call may fail with: transport errors, a TLS handshake error
\* among them, errors that name bad credentials, errors that name a bad request.
ErrorKinds == {"network", "tls_handshake", "auth", "business"}

ClientStages == {"out", "arrived", "wait_api", "poll", "starting", "ready",
                 "serving", "leaving", "releasing"}
IdleStages == {"sleeping", "wait_api", "query", "stopping", "dead"}

Init ==
    /\ inst \in {"STOPPED", "RUNNING"}
    /\ apiLock = Nobody
    /\ slot = Nobody
    /\ active = 0
    /\ idleAction = "keep_running"
    /\ idleLong = FALSE
    /\ pc = [a \in Actors |-> IF a = Idle THEN "sleeping" ELSE "out"]
    /\ started = [c \in Clients |-> FALSE]
    /\ step = [a \in Actors |-> "none"]
    /\ retryIndex = [a \in Actors |-> 0]
    /\ error = [a \in Actors |-> "none"]

Goto(a, stage) == pc' = [pc EXCEPT ![a] = stage]

----------------------------------------------------------------------------
(* The cloud.                                                              *)

\* What get_instance_state may answer inside the routine, where a raised
\* exception is turned into UNKNOWN.
Observations == {inst, "UNKNOWN"}

\* An answer that tells nothing is taken for a success.
SatisfiesFault(operation, state) ==
    \/ operation = "start" /\ state \in {"RUNNING", "STARTING", "UNKNOWN"}
    \/ operation = "stop" /\ state \in {"STOPPED", "STOPPING", "UNKNOWN"}

Satisfies(operation, state) ==
    \/ operation = "start" /\ state \in {"RUNNING", "STARTING"}
    \/ operation = "stop" /\ state \in {"STOPPED", "STOPPING"}

Blocks(operation, state) ==
    \/ operation = "start" /\ state = "STOPPING"
    \/ operation = "stop" /\ state = "STARTING"

\* The cloud carries an operation out from the one state that admits it.
Admits(operation) == inst = IF operation = "start" THEN "STOPPED" ELSE "RUNNING"
Outcome(operation) == IF operation = "start" THEN "STARTING" ELSE "STOPPING"

\* Substring search over the lower-cased exception text: the keyword "ak" is
\* meant for access keys and is found in "handshake" as well.
NonRetryable(kind) == kind \in {"auth", "business", "tls_handshake"}

CloudProgress ==
    /\ \/ inst = "STARTING" /\ inst' = "RUNNING"
       \/ inst = "STOPPING" /\ inst' = "STOPPED"
    /\ UNCHANGED <<apiLock, slot, active, idleAction, idleLong, pc, started, routine>>

----------------------------------------------------------------------------
(* _execute_cloud_action_with_retry, run by the holder of _api_lock.       *)

OperationOf(a) == IF a = Idle THEN "stop" ELSE "start"

EnterRoutine(a) == step' = [step EXCEPT ![a] = "check"] /\ UNCHANGED <<retryIndex, error>>

LeaveRoutine(a) ==
    /\ step' = [step EXCEPT ![a] = "none"]
    /\ retryIndex' = [retryIndex EXCEPT ![a] = 0]
    /\ error' = [error EXCEPT ![a] = "none"]

\* The caller goes on: a handler polls again, the idle thread restarts its
\* idle time and lets go of _api_lock.
Succeed(a) ==
    /\ LeaveRoutine(a)
    /\ IF a = Idle
       THEN /\ Goto(a, "sleeping")
            /\ apiLock' = Nobody
            /\ idleLong' = FALSE
            /\ UNCHANGED started
       ELSE /\ Goto(a, "poll")
            /\ started' = [started EXCEPT ![a] = TRUE]
            /\ UNCHANGED <<apiLock, idleLong>>

\* The lock is given back on success only.
FailFault(a) ==
    /\ LeaveRoutine(a)
    /\ Goto(a, IF a = Idle THEN "sleeping" ELSE "leaving")
    /\ started' = IF a = Idle THEN started ELSE [started EXCEPT ![a] = FALSE]
    /\ UNCHANGED <<apiLock, idleLong>>

\* The caller gives up: the handler leaves, the idle thread tries again later.
Fail(a) ==
    /\ LeaveRoutine(a)
    /\ Goto(a, IF a = Idle THEN "sleeping" ELSE "leaving")
    /\ apiLock' = Nobody
    /\ started' = IF a = Idle THEN started ELSE [started EXCEPT ![a] = FALSE]
    /\ UNCHANGED idleLong

\* One retry too many.
RetryOrFailFault(a) ==
    \/ /\ retryIndex[a] <= MaxActionRetries
       /\ retryIndex' = [retryIndex EXCEPT ![a] = @ + 1]
       /\ step' = [step EXCEPT ![a] = "check"]
       /\ error' = [error EXCEPT ![a] = "none"]
       /\ UNCHANGED <<pc, apiLock, started, idleLong>>
    \/ retryIndex[a] > MaxActionRetries /\ Fail(a)

\* The next turn of the loop, after the backoff, unless this was the last try.
RetryOrFail(a) ==
    \/ /\ retryIndex[a] < MaxActionRetries
       /\ retryIndex' = [retryIndex EXCEPT ![a] = @ + 1]
       /\ step' = [step EXCEPT ![a] = "check"]
       /\ error' = [error EXCEPT ![a] = "none"]
       /\ UNCHANGED <<pc, apiLock, started, idleLong>>
    \/ retryIndex[a] = MaxActionRetries /\ Fail(a)

CheckState(a) ==
    /\ step[a] = "check"
    /\ \E state \in Observations :
          \/ Satisfies(OperationOf(a), state) /\ Succeed(a)
          \/ Blocks(OperationOf(a), state) /\ RetryOrFail(a)
          \/ /\ ~Satisfies(OperationOf(a), state) /\ ~Blocks(OperationOf(a), state)
             /\ step' = [step EXCEPT ![a] = "call"]
             /\ UNCHANGED <<retryIndex, error, pc, apiLock, started, idleLong>>
    /\ UNCHANGED <<inst, slot, active, idleAction>>

CallSucceeds(a) ==
    /\ step[a] = "call"
    /\ Admits(OperationOf(a))
    /\ inst' = Outcome(OperationOf(a))
    /\ Succeed(a)
    /\ UNCHANGED <<slot, active, idleAction>>

\* The call raises, before or after the cloud has carried it out.
CallRaises(a) ==
    /\ step[a] = "call"
    /\ \/ UNCHANGED inst
       \/ Admits(OperationOf(a)) /\ inst' = Outcome(OperationOf(a))
    /\ \E kind \in ErrorKinds : error' = [error EXCEPT ![a] = kind]
    /\ step' = [step EXCEPT ![a] = "recheck"]
    /\ UNCHANGED <<apiLock, slot, active, idleAction, idleLong, pc, started, retryIndex>>

Recheck(a) ==
    /\ step[a] = "recheck"
    /\ \E state \in Observations :
          \/ Satisfies(OperationOf(a), state) /\ Succeed(a)
          \/ /\ ~Satisfies(OperationOf(a), state)
             /\ IF NonRetryable(error[a]) THEN Fail(a) ELSE RetryOrFail(a)
    /\ UNCHANGED <<inst, slot, active, idleAction>>

----------------------------------------------------------------------------
(* A handler.                                                              *)

Arrive(c) ==
    /\ pc[c] = "out"
    /\ active' = active + 1
    /\ Goto(c, "arrived")
    /\ UNCHANGED <<inst, apiLock, slot, idleAction, idleLong, started, routine>>

\* Screened out, not verified, or timed out in the wait for the slot.
TurnedAway(c) ==
    /\ pc[c] = "arrived"
    /\ Goto(c, "leaving")
    /\ UNCHANGED <<inst, apiLock, slot, active, idleAction, idleLong, started, routine>>

TakeSlot(c) ==
    /\ pc[c] = "arrived"
    /\ slot = Nobody
    /\ slot' = c
    /\ Goto(c, "wait_api")
    /\ UNCHANGED <<inst, apiLock, active, idleAction, idleLong, started, routine>>

\* The lock is not waited for.
TakeApiLockFault(a) ==
    /\ pc[a] = "wait_api"
    /\ apiLock' = a
    /\ Goto(a, IF a = Idle THEN "query" ELSE "poll")
    /\ UNCHANGED <<inst, slot, active, idleAction, idleLong, started, routine>>

TakeApiLock(a) ==
    /\ pc[a] = "wait_api"
    /\ apiLock = Nobody
    /\ apiLock' = a
    /\ Goto(a, IF a = Idle THEN "query" ELSE "poll")
    /\ UNCHANGED <<inst, slot, active, idleAction, idleLong, started, routine>>

\* One turn of the startup loop, with the answer of get_instance_state.
PollInstance(c) ==
    /\ pc[c] = "poll"
    /\ \/ /\ inst = "RUNNING"
          /\ Goto(c, "ready")
          /\ apiLock' = Nobody
          /\ started' = [started EXCEPT ![c] = FALSE]
          /\ UNCHANGED routine
       \/ /\ inst = "STOPPED" /\ ~started[c]
          /\ Goto(c, "starting")
          /\ EnterRoutine(c)
          /\ UNCHANGED <<apiLock, started>>
    /\ UNCHANGED <<inst, slot, active, idleAction, idleLong>>

\* The deadline, set before _api_lock was waited for, has passed, or
\* get_instance_state raises.  Any other answer is waited out.
StartupEnds(c) ==
    /\ pc[c] = "poll"
    /\ Goto(c, "leaving")
    /\ apiLock' = Nobody
    /\ started' = [started EXCEPT ![c] = FALSE]
    /\ UNCHANGED <<inst, slot, active, idleAction, idleLong, routine>>

Serve(c) ==
    /\ pc[c] = "ready"
    /\ \E next \in {"serving", "leaving"} : Goto(c, next)
    /\ UNCHANGED <<inst, apiLock, slot, active, idleAction, idleLong, started, routine>>

SessionEnds(c) ==
    /\ pc[c] = "serving"
    /\ Goto(c, "leaving")
    /\ UNCHANGED <<inst, apiLock, slot, active, idleAction, idleLong, started, routine>>

CountOut(c) ==
    /\ pc[c] = "leaving"
    /\ active' = IF active = 0 THEN 0 ELSE active - 1
    /\ idleLong' = FALSE
    /\ Goto(c, IF slot = c THEN "releasing" ELSE "out")
    /\ UNCHANGED <<inst, apiLock, slot, idleAction, started, routine>>

ReleaseSlot(c) ==
    /\ pc[c] = "releasing"
    /\ slot' = Nobody
    /\ Goto(c, "out")
    /\ UNCHANGED <<inst, apiLock, active, idleAction, idleLong, started, routine>>

----------------------------------------------------------------------------
(* The idle thread.                                                        *)

\* The three values are read under the state lock, and judged after it.
DecideIdle ==
    /\ pc[Idle] = "sleeping"
    /\ idleAction = "shutdown_on_idle" /\ active = 0 /\ idleLong
    /\ Goto(Idle, "wait_api")
    /\ UNCHANGED <<inst, apiLock, slot, active, idleAction, idleLong, started, routine>>

\* get_instance_state is called outside the try block of the loop.
QueryBeforeStop ==
    /\ pc[Idle] = "query"
    /\ \/ /\ inst = "RUNNING"
          /\ Goto(Idle, "stopping")
          /\ EnterRoutine(Idle)
          /\ UNCHANGED apiLock
       \/ /\ \E state \in Observations : state # "RUNNING"
          /\ Goto(Idle, "sleeping")
          /\ apiLock' = Nobody
          /\ UNCHANGED routine
    /\ UNCHANGED <<inst, slot, active, idleAction, idleLong, started>>

\* The exception ends the thread; nothing starts another.
QueryRaises ==
    /\ QueryMayRaise
    /\ pc[Idle] = "query"
    /\ Goto(Idle, "dead")
    /\ apiLock' = Nobody
    /\ UNCHANGED <<inst, slot, active, idleAction, idleLong, started, routine>>

----------------------------------------------------------------------------
(* The people and the clock.                                               *)

\* apply_idle_action: a link of the disconnect notice is followed.
ApplyIdleAction(action) ==
    /\ idleAction # action
    /\ idleAction' = action
    /\ UNCHANGED <<inst, apiLock, slot, active, idleLong, pc, started, routine>>

IdleTimePasses ==
    /\ ~idleLong
    /\ idleLong' = TRUE
    /\ UNCHANGED <<inst, apiLock, slot, active, idleAction, pc, started, routine>>

----------------------------------------------------------------------------
RoutineStep(a) == CheckState(a) \/ CallSucceeds(a) \/ CallRaises(a) \/ Recheck(a)

ClientStep(c) ==
    \/ TakeApiLock(c) \/ PollInstance(c) \/ RoutineStep(c) \/ Serve(c)
    \/ CountOut(c) \/ ReleaseSlot(c)

IdleStep == DecideIdle \/ TakeApiLock(Idle) \/ QueryBeforeStop \/ QueryRaises \/ RoutineStep(Idle)

Next ==
    \/ \E c \in Clients :
          Arrive(c) \/ TurnedAway(c) \/ TakeSlot(c) \/ StartupEnds(c) \/ SessionEnds(c)
          \/ ClientStep(c)
    \/ IdleStep
    \/ CloudProgress
    \/ \E action \in IdleActions : ApplyIdleAction(action)
    \/ IdleTimePasses

Spec == Init /\ [][Next]_vars

\* Threads are scheduled and a thread that waits for _api_lock gets it when it
\* is free again and again; deadlines pass; the cloud finishes what it began,
\* and, asked again and again, tells the true state and carries out a stop.
Fairness ==
    /\ \A c \in Clients :
          WF_vars(ClientStep(c)) /\ SF_vars(TakeApiLock(c)) /\ WF_vars(StartupEnds(c))
    /\ WF_vars(IdleStep) /\ SF_vars(DecideIdle) /\ SF_vars(TakeApiLock(Idle))
    /\ SF_vars(QueryBeforeStop /\ pc'[Idle] = "stopping")
    /\ SF_vars(CheckState(Idle) /\ step'[Idle] = "call")
    /\ SF_vars(CallSucceeds(Idle))
    /\ WF_vars(CloudProgress) /\ WF_vars(IdleTimePasses)

FairSpec == Spec /\ Fairness

----------------------------------------------------------------------------
(* Safety.                                                                 *)

\* Every variable has its type.
TypeOK ==
    /\ inst \in InstStates
    /\ apiLock \in Actors \cup {Nobody}
    /\ slot \in Clients \cup {Nobody}
    /\ active \in Nat
    /\ idleAction \in IdleActions
    /\ idleLong \in BOOLEAN
    /\ pc \in [Actors -> ClientStages \cup IdleStages]
    /\ started \in [Clients -> BOOLEAN]
    /\ step \in [Actors -> {"none", "check", "call", "recheck"}]
    /\ retryIndex \in [Actors -> 0..MaxActionRetries]
    /\ error \in [Actors -> ErrorKinds \cup {"none"}]

\* Start and stop requests are never in the making at the same time: a thread
\* in the startup loop, in the idle check or in the retry routine has _api_lock.
OneOperation ==
    \A a \in Actors :
        pc[a] \in {"poll", "starting", "query", "stopping"} \/ step[a] # "none" => apiLock = a

\* A start that was reported as successful was carried out: until the handler
\* leaves the startup loop the instance is starting or running, whichever of
\* the errors and answers the cloud gave on the way.
StartReportedIsStarted ==
    \A c \in Clients : started[c] => inst \in {"STARTING", "RUNNING"}

\* The thread of a client that no longer is counted cannot be using the
\* instance: being ready or served implies being counted and owning the slot.
ServedIsCounted ==
    \A c \in Clients : pc[c] \in {"wait_api", "poll", "starting", "ready", "serving"} =>
        active > 0 /\ slot = c

----------------------------------------------------------------------------
(* Action properties.                                                      *)

\* While a handler brings the instance up, nobody takes it down.
NoStopDuringStartup ==
    [][\A c \in Clients :
         pc[c] \in {"poll", "starting"} /\ inst # "STOPPING" => inst' # "STOPPING"]_vars

----------------------------------------------------------------------------
(* Liveness, under FairSpec.                                               *)

\* A handler that waits for the instance is answered: it serves or gives up.
EnsureReturns ==
    \A c \in Clients : pc[c] = "wait_api" ~> pc[c] \notin {"wait_api", "poll", "starting"}

\* Once everybody has left for good and the choice is to shut down, the instance
\* is stopped, through any number of failed calls, unless the idle thread died.
IdleInstanceStops ==
    <>[](active = 0 /\ idleAction = "shutdown_on_idle" /\ pc[Idle] # "dead")
        => <>[](inst = "STOPPED")

----------------------------------------------------------------------------
(* What the documentation says and the code does not do.                   *)

\* README: the instance is shut down after an idle timeout.  The decision is
\* taken before _api_lock is waited for and not taken again after.
StopOnlyWhenIdle ==
    [][inst = "RUNNING" /\ inst' = "STOPPING" => \A c \in Clients : pc[c] # "serving"]_vars
=============================================================================
