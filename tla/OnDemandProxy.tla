---------------------------- MODULE OnDemandProxy ----------------------------
(***************************************************************************)
(* One published target as a whole: the handler threads of TargetProxy and *)
(* the instance of InstanceControl.  Where TargetProxy lets the stage      *)
(* ensure_instance_running end in either way, the handler here runs the    *)
(* startup loop and the retry routine, against the idle thread and the     *)
(* cloud; where InstanceControl lets a handler arrive, take the slot,      *)
(* serve and leave at will, it is here the handler of TargetProxy, that    *)
(* is screened, verified, taken over and cleaned up.                       *)
(*                                                                         *)
(* The lock _single_session_lock and the counter _active_connections are   *)
(* variables of both.  The idle thread's own look at the stop event is not *)
(* represented, as in InstanceControl: it may go on after stop().          *)
(*                                                                         *)
(* `late` is a history variable, written beside the steps and read by no   *)
(* guard: who was counted in since the idle thread made up its mind.       *)
(***************************************************************************)
EXTENDS TargetProxy

CONSTANTS
    Idle,              \* the idle thread
    MaxActionRetries,  \* _max_action_retries
    QueryMayRaise      \* whether get_instance_state raises on an API error

ASSUME SystemAssumption ==
    /\ Idle \notin Conns \cup {NoConn}
    /\ MaxActionRetries \in Nat
    /\ QueryMayRaise \in BOOLEAN

VARIABLES
    inst,        \* the true state of the instance, at the cloud
    apiLock,     \* holder of _api_lock
    idleAction,  \* _idle_action
    idleLong,    \* the idle time has passed since _last_disconnect_at
    stage,       \* where handlers and the idle thread are, for InstanceControl
    started,     \* local `started` of _ensure_instance_running
    step,        \* where each thread is in the retry routine
    retryIndex,  \* local retry_index of the routine
    error,       \* the kind of exception the last call raised
    late         \* handlers counted in after the idle thread's decision

Cloud == INSTANCE InstanceControl WITH
    Clients <- Conns,
    Nobody <- NoConn,
    active <- activeConnections,
    pc <- stage

instance == <<inst, apiLock, idleAction, idleLong, stage, started, step, retryIndex, error>>
systemVars == <<vars, instance, late>>

----------------------------------------------------------------------------
(* The two views of a handler.                                             *)

\* What InstanceControl sees of a handler that has just come to a place.
StageAt(place) ==
    CASE place \in {"listening", "accepted", "closed"} -> "out"
      [] place = "ensure_instance_running" -> "wait_api"
      [] place \in {"connect_upstream", "register_forwarding"} -> "ready"
      [] place = "forwarding" -> "serving"
      [] place \in {"finally", "count_out"} -> "leaving"
      [] place \in {"clear_forwarding", "release_slot"} -> "releasing"
      [] OTHER -> "arrived"

\* Where a handler goes on once _ensure_instance_running has returned or raised.
PlaceAfter(ending) == IF ending = "ready" THEN "connect_upstream" ELSE "finally"

SystemInit == Init /\ Cloud!Init /\ late = {}

----------------------------------------------------------------------------
(* The steps.                                                              *)

\* A step of a handler outside _ensure_instance_running.  Of the instance's
\* side it touches only what `finally` writes with the counter.
HandleConnection(c) ==
    /\ pc[c] # "ensure_instance_running"
    /\ HandlerStep(c) \/ Deadline(c) \/ Accept(c) \/ UpstreamEnds(c)
    /\ stage' = [stage EXCEPT ![c] = StageAt(pc'[c])]
    /\ idleLong' = IF pc[c] = "count_out" THEN FALSE ELSE idleLong
    /\ late' = IF pc[c] = "accepted" /\ stage[Idle] # "sleeping" THEN late \cup {c}
               ELSE IF pc[c] = "count_out" THEN late \ {c} ELSE late
    /\ UNCHANGED <<inst, apiLock, idleAction, started, step, retryIndex, error>>

\* A step of _ensure_instance_running, run by the holder of the slot.
EnsureRunning(c) ==
    /\ pc[c] = "ensure_instance_running"
    /\ \/ Cloud!TakeApiLock(c)
       \/ Cloud!PollInstance(c)
       \/ Cloud!RoutineStep(c)
       \/ Cloud!StartupEnds(c)
    /\ IF stage'[c] \in {"ready", "leaving"} THEN Goto(c, PlaceAfter(stage'[c]))
                                             ELSE UNCHANGED pc
    /\ UNCHANGED <<flags, victim, sockets, pool, windows, token, activeForwarding, stopRequested,
                   late>>

\* The idle thread, the cloud, and whoever follows a link of a notice.
InstanceStep ==
    /\ \/ Cloud!IdleStep
       \/ Cloud!CloudProgress
       \/ \E action \in Cloud!IdleActions : Cloud!ApplyIdleAction(action)
       \/ Cloud!IdleTimePasses
    /\ late' = IF stage'[Idle] = "sleeping" THEN {} ELSE late
    /\ UNCHANGED vars

\* The peers, the people with the link, the clock, stop().
WorldStep ==
    /\ \/ \E c \in Conns : PeerDisconnects(c) \/ ClickVerify(c) \/ TokenExpires(c)
       \/ \E ip \in IPs : ExpireApproval(ip) \/ ExpireReconnect(ip)
       \/ Stop
    /\ UNCHANGED <<instance, late>>

SystemNext ==
    \/ \E c \in Conns : HandleConnection(c) \/ EnsureRunning(c)
    \/ InstanceStep
    \/ WorldStep

SystemSpec == SystemInit /\ [][SystemNext]_systemVars

----------------------------------------------------------------------------
(* Properties of the two together.                                         *)

\* The handlers are clients as InstanceControl assumes them.
ImplementsInstanceControl == Cloud!Spec

\* With verification on and deny-on-timeout, a stopped instance is started, and
\* paid for, only by the holder of the slot, from an IP for which somebody
\* clicked a link, through whichever bypass and however the call ends.
StartNeedsClick ==
    [][SecurityEnabled /\ DenyIfTimeout /\ inst = "STOPPED" /\ inst' = "STARTING"
        => \E c \in Conns : slot = c /\ apiLock = c /\ Clicked(IpOf[c])]_systemVars

\* The idle thread decides on the count, waits for the lock, asks the cloud and
\* calls it, with retries, and does not look at the count again.  Still the stop
\* hits nobody who was counted when it decided: every handler that is under way
\* when the instance is taken down has been counted in since.  (A client that is
\* accepted but whose thread has not yet counted it in may always be hit.)
StopHitsLatecomersOnly ==
    [][inst # "STOPPING" /\ inst' = "STOPPING" => Running \subseteq late]_systemVars
=============================================================================
