---------------------------- MODULE TargetProxy ----------------------------
(***************************************************************************)
(* One TargetProxy: the accept loop and the handler thread that            *)
(* _handle_connection runs for every client of one published RDP target.   *)
(* A client is screened, verified by a click on a link (or let through by  *)
(* a recent approval or a recent disconnect of its IP), waits for the one  *)
(* forwarding slot, has the cloud instance started, and is forwarded.      *)
(*                                                                         *)
(* Each step below runs from one lock, blocking call or socket operation   *)
(* to the next, so TLC interleaves the handler threads where Python does.  *)
(* Time is not represented: a deadline that may pass is a step that may be *)
(* taken, a window that may lapse is an Expire action.                     *)
(*                                                                         *)
(* Peeking.  probe_rdp_hello only peeks the client's first packet, so it   *)
(* is still in the receive buffer in every later wait.  When the peer has  *)
(* gone, recv(1, MSG_PEEK) then returns a buffered byte (after a FIN, and  *)
(* after a reset on Linux) or raises (after a reset on Windows): for a     *)
(* peer that has gone a peek may or may not tell; a socket that another    *)
(* thread closed always raises.                                            *)
(*                                                                         *)
(* An operator whose name ends in Fault is what a plausible mistake would  *)
(* make of the definition that follows it; no specification uses it.       *)
(***************************************************************************)
EXTENDS Naturals, FiniteSets

CONSTANTS
    Conns,           \* connections, each named by its connection_id
    IPs,             \* client addresses
    IpOf,            \* the address each connection comes from
    NoConn,          \* the empty _active_forwarding_connection_id, a free lock
    SecurityEnabled, \* security.enabled
    DenyIfTimeout,   \* security.deny_if_verification_timeout
    ApprovedIpReuse, \* security.approved_ip_reuse_seconds > 0
    MaxPending,      \* security.max_pending_verification_connections
    MaxPendingPerIp, \* security.max_pending_verifications_per_ip
    MayStop          \* whether stop() may be called

ASSUME ConnsAssumption == IpOf \in [Conns -> IPs] /\ NoConn \notin Conns
ASSUME FlagsAssumption ==
    /\ SecurityEnabled \in BOOLEAN
    /\ DenyIfTimeout \in BOOLEAN
    /\ ApprovedIpReuse \in BOOLEAN
    /\ MayStop \in BOOLEAN
ASSUME PoolAssumption == MaxPending \in Nat \ {0} /\ MaxPendingPerIp \in Nat \ {0}

VARIABLES
    pc,                \* where each handler thread is
    flags,             \* which Boolean locals of each handler thread are True
    sock,              \* each client socket: none, up, peer_gone or closed (by us)
    upstream,          \* each connection's upstream socket: none, open or closed
    victim,            \* the connection whose sockets this handler captured to close
    pending,           \* keys of _pending_verifications
    age,               \* how many entered it after each of them (dict order), 0 outside
    recentApproved,    \* keys of _recent_approved_ips within their window
    recentDisconnects, \* keys of _recent_ip_disconnects within their window
    token,             \* the verification token of each connection
    slot,              \* holder of _single_session_lock
    activeForwarding,  \* _active_forwarding_connection_id
    activeConnections, \* _active_connections
    stopRequested      \* _stop_event

handlers == <<pc, flags, victim>>
sockets == <<sock, upstream>>
pool == <<pending, age>>
windows == <<recentApproved, recentDisconnects>>
session == <<slot, activeForwarding>>
counters == <<activeConnections, stopRequested>>
vars == <<handlers, sockets, pool, windows, token, session, counters>>

----------------------------------------------------------------------------
(* Stages, named after the handler's `stage` and its helpers, and locals.  *)

VerifyStages ==
    {"recent_approval_check", "notify_delay_window", "create_verification",
     "close_replaced", "reconnect_check", "reconnect_notification",
     "create_token", "send_verification", "wait_verification",
     "peek_verification", "cancel_token", "unregister_pending"}
SlotWaitStages == {"mark_approved", "wait_forwarding_slot", "takeover", "close_taken"}
HoldingStages ==
    {"ensure_instance_running", "connect_upstream", "register_forwarding", "forwarding"}
CleanupStages == {"finally", "count_out", "clear_forwarding", "release_slot"}
Stages == {"listening", "accepted", "screening", "closed"}
          \cup VerifyStages \cup SlotWaitStages \cup HoldingStages \cup CleanupStages

Locals == {"approved", "forwarding_started", "forwarding_slot_acquired",
           "reconnect_bypass_applied", "takeover_attempted"}

Init ==
    /\ pc = [c \in Conns |-> "listening"]
    /\ flags = [c \in Conns |-> {}]
    /\ sock = [c \in Conns |-> "none"]
    /\ upstream = [c \in Conns |-> "none"]
    /\ victim = [c \in Conns |-> NoConn]
    /\ pending = {}
    /\ age = [c \in Conns |-> 0]
    /\ recentApproved = {}
    /\ recentDisconnects = {}
    /\ token = [c \in Conns |-> "none"]
    /\ slot = NoConn
    /\ activeForwarding = NoConn
    /\ activeConnections = 0
    /\ stopRequested = FALSE

----------------------------------------------------------------------------
(* Small operators.                                                        *)

Goto(c, stage) == pc' = [pc EXCEPT ![c] = stage]
Raise(c, local) == flags' = [flags EXCEPT ![c] = @ \cup {local}]

\* The thread's locals end with the thread.
Finish(c) == Goto(c, "closed") /\ flags' = [flags EXCEPT ![c] = {}]

Approved(c) == "approved" \in flags[c]
Started(c) == "forwarding_started" \in flags[c]
Holds(c) == "forwarding_slot_acquired" \in flags[c]

\* A wait that looks at its client goes on with the next stage or gives up.
\* It may see that the client has gone only if it has, and may see a client
\* still there unless this process closed the socket.
Look(c, next) ==
    \/ sock[c] # "closed" /\ Goto(c, next)
    \/ sock[c] # "up" /\ Goto(c, "finally")

\* shutdown() and close() on a captured client or upstream socket
Close(socket, c) == [socket EXCEPT ![c] = IF @ = "none" THEN @ ELSE "closed"]

SameIpPending(c) == {d \in pending : IpOf[d] = IpOf[c]}

\* pop() of a key that may not be there
LeavePool(c) ==
    /\ pending' = pending \ {c}
    /\ age' = [age EXCEPT ![c] = 0]

----------------------------------------------------------------------------
(* Accepting and screening.                                                *)

\* The accept loop hands a new client to a thread.
Accept(c) ==
    /\ pc[c] = "listening"
    /\ ~stopRequested
    /\ Goto(c, "accepted")
    /\ sock' = [sock EXCEPT ![c] = "up"]
    /\ UNCHANGED <<flags, victim, upstream, pool, windows, token, session, counters>>

\* The thread does not count its client in.
CountInFault(c) ==
    /\ pc[c] = "accepted"
    /\ Goto(c, "screening")
    /\ UNCHANGED <<flags, victim, sockets, pool, windows, token, session, counters>>

\* The thread counts its client in when it comes to run.
CountIn(c) ==
    /\ pc[c] = "accepted"
    /\ Goto(c, "screening")
    /\ activeConnections' = activeConnections + 1
    /\ UNCHANGED <<flags, victim, sockets, pool, windows, token, session, stopRequested>>

\* The rate limit of the IP, the probe of the first packet and the whitelist,
\* in this order: the client passes all three, or one of them drops it.
Screen(c) ==
    /\ pc[c] = "screening"
    /\ \/ Goto(c, IF SecurityEnabled THEN "recent_approval_check" ELSE "wait_forwarding_slot")
       \/ Goto(c, "finally")
    /\ UNCHANGED <<flags, victim, sockets, pool, windows, token, session, counters>>

----------------------------------------------------------------------------
(* Verification.                                                           *)

\* A recently approved IP skips verification.
CheckRecentApproval(c) ==
    /\ pc[c] = "recent_approval_check"
    /\ \/ IpOf[c] \in recentApproved /\ Raise(c, "approved") /\ Goto(c, "mark_approved")
       \/ IpOf[c] \notin recentApproved /\ Goto(c, "notify_delay_window") /\ UNCHANGED flags
    /\ UNCHANGED <<victim, sockets, pool, windows, token, session, counters>>

\* The observation window before a link is sent.
PassNotifyWindow(c) ==
    /\ pc[c] = "notify_delay_window"
    /\ Look(c, "create_verification")
    /\ UNCHANGED <<flags, victim, sockets, pool, windows, token, session, counters>>

\* The replaced entry is not popped.
EnterPoolFault(c, evicted) ==
    /\ pending' = pending \cup {c}
    /\ age' = [d \in Conns |-> IF d \in pending THEN age[d] + 1 ELSE 0]

\* _register_pending_verification under the state lock: the pool is full, has
\* room, or has as many connections of this IP as allowed and gives up the one
\* that has waited longest.  The bound on the whole pool is tested first, even
\* when the replacement would make room.
EnterPool(c, evicted) ==
    /\ pending' = (pending \ evicted) \cup {c}
    /\ age' = [d \in Conns |-> IF d \in pending \ evicted THEN age[d] + 1 ELSE 0]

PoolFull(c) ==
    /\ pc[c] = "create_verification"
    /\ Cardinality(pending) >= MaxPending
    /\ Goto(c, "finally")
    /\ UNCHANGED <<flags, victim, sockets, pool, windows, token, session, counters>>

RegisterPending(c) ==
    /\ pc[c] = "create_verification"
    /\ Cardinality(pending) < MaxPending
    /\ Cardinality(SameIpPending(c)) < MaxPendingPerIp
    /\ EnterPool(c, {})
    /\ Goto(c, "reconnect_check")
    /\ UNCHANGED <<flags, victim, sockets, windows, token, session, counters>>

\* The list is sorted the other way round.
ReplacePendingFault(c) ==
    /\ pc[c] = "create_verification"
    /\ Cardinality(pending) < MaxPending
    /\ Cardinality(SameIpPending(c)) >= MaxPendingPerIp
    /\ \E old \in SameIpPending(c) :
          /\ \A d \in SameIpPending(c) : age[d] >= age[old]
          /\ EnterPool(c, {old})
          /\ victim' = [victim EXCEPT ![c] = old]
    /\ Goto(c, "close_replaced")
    /\ UNCHANGED <<flags, sockets, windows, token, session, counters>>

ReplacePending(c) ==
    /\ pc[c] = "create_verification"
    /\ Cardinality(pending) < MaxPending
    /\ Cardinality(SameIpPending(c)) >= MaxPendingPerIp
    /\ \E old \in SameIpPending(c) :
          /\ \A d \in SameIpPending(c) : age[d] <= age[old]
          /\ EnterPool(c, {old})
          /\ victim' = [victim EXCEPT ![c] = old]
    /\ Goto(c, "close_replaced")
    /\ UNCHANGED <<flags, sockets, windows, token, session, counters>>

\* The replaced client's socket is closed after the state lock is released.
CloseReplaced(c) ==
    /\ pc[c] = "close_replaced"
    /\ sock' = Close(sock, victim[c])
    /\ victim' = [victim EXCEPT ![c] = NoConn]
    /\ Goto(c, "reconnect_check")
    /\ UNCHANGED <<flags, upstream, pool, windows, token, session, counters>>

\* _should_send_reconnect_only_notification
CheckReconnect(c) ==
    /\ pc[c] = "reconnect_check"
    /\ Goto(c, IF IpOf[c] \in recentDisconnects THEN "reconnect_notification" ELSE "create_token")
    /\ UNCHANGED <<flags, victim, sockets, pool, windows, token, session, counters>>

\* The IP that disconnected a moment ago is let through with a message; any
\* exception of the notifier goes to the handler's `finally`.
NotifyReconnect(c) ==
    /\ pc[c] = "reconnect_notification"
    /\ \/ /\ LeavePool(c)
          /\ flags' = [flags EXCEPT ![c] = @ \cup {"approved", "reconnect_bypass_applied"}]
          /\ Goto(c, "mark_approved")
       \/ Goto(c, "finally") /\ UNCHANGED <<pool, flags>>
    /\ UNCHANGED <<victim, sockets, windows, token, session, counters>>

\* create_token makes the link valid before send_verification announces it;
\* when the announcement raises, the token stays valid.
CreateToken(c) ==
    /\ pc[c] = "create_token"
    /\ token' = [token EXCEPT ![c] = "pending"]
    /\ Goto(c, "send_verification")
    /\ UNCHANGED <<flags, victim, sockets, pool, windows, session, counters>>

SendVerification(c) ==
    /\ pc[c] = "send_verification"
    /\ \E next \in {"wait_verification", "finally"} : Goto(c, next)
    /\ UNCHANGED <<flags, victim, sockets, pool, windows, token, session, counters>>

\* event.wait(0.2) within the deadline: the click has come, or the client is
\* looked at before the next turn.
AwaitClick(c) ==
    /\ pc[c] = "wait_verification"
    /\ \/ token[c] = "approved" /\ Raise(c, "approved") /\ Goto(c, "unregister_pending")
       \/ token[c] # "approved" /\ Goto(c, "peek_verification") /\ UNCHANGED flags
    /\ UNCHANGED <<victim, sockets, pool, windows, token, session, counters>>

PeekVerification(c) ==
    /\ pc[c] = "peek_verification"
    /\ \/ sock[c] # "closed" /\ Goto(c, "wait_verification")
       \/ sock[c] # "up" /\ Goto(c, "cancel_token")
    /\ UNCHANGED <<flags, victim, sockets, pool, windows, token, session, counters>>

\* The deadline is looked at only once a click has come.
VerificationTimeoutFault(c) ==
    /\ pc[c] = "wait_verification"
    /\ token[c] = "approved"
    /\ Goto(c, "finally")
    /\ UNCHANGED <<flags, victim, sockets, pool, windows, token, session, counters>>

\* The setting is not looked at.
NeverDenyFault(c) ==
    /\ pc[c] = "wait_verification"
    /\ Goto(c, "unregister_pending")
    /\ UNCHANGED <<flags, victim, sockets, pool, windows, token, session, counters>>

\* The deadline passes at the head of the loop, even with the event just set.
VerificationTimeout(c) ==
    /\ pc[c] = "wait_verification"
    /\ Goto(c, IF DenyIfTimeout THEN "finally" ELSE "unregister_pending")
    /\ UNCHANGED <<flags, victim, sockets, pool, windows, token, session, counters>>

\* cancel_token drops the token and clears its `approved`, whether or not the
\* link was clicked meanwhile.  "revoked" remembers that it had been.
CancelToken(c) ==
    /\ pc[c] = "cancel_token"
    /\ token' = [token EXCEPT ![c] = IF @ = "approved" THEN "revoked" ELSE "dead"]
    /\ Goto(c, "finally")
    /\ UNCHANGED <<flags, victim, sockets, pool, windows, session, counters>>

UnregisterPending(c) ==
    /\ pc[c] = "unregister_pending"
    /\ LeavePool(c)
    /\ Goto(c, IF Approved(c) THEN "mark_approved" ELSE "wait_forwarding_slot")
    /\ UNCHANGED <<flags, victim, sockets, windows, token, session, counters>>

\* _mark_ip_approved: every admission renews the IP's window, bypasses too.
MarkApproved(c) ==
    /\ pc[c] = "mark_approved"
    /\ recentApproved' = IF ApprovedIpReuse THEN recentApproved \cup {IpOf[c]}
                                            ELSE recentApproved
    /\ Goto(c, "wait_forwarding_slot")
    /\ UNCHANGED <<flags, victim, sockets, pool, recentDisconnects, token, session, counters>>

----------------------------------------------------------------------------
(* The forwarding slot.                                                    *)

\* The lock is not tried, only taken note of.
AcquireSlotFault(c) ==
    /\ pc[c] = "wait_forwarding_slot"
    /\ slot' = c
    /\ Raise(c, "forwarding_slot_acquired")
    /\ Goto(c, "ensure_instance_running")
    /\ UNCHANGED <<victim, sockets, pool, windows, token, activeForwarding, counters>>

\* A non-blocking acquire of _single_session_lock.
AcquireSlot(c) ==
    /\ pc[c] = "wait_forwarding_slot"
    /\ slot = NoConn
    /\ slot' = c
    /\ Raise(c, "forwarding_slot_acquired")
    /\ Goto(c, "ensure_instance_running")
    /\ UNCHANGED <<victim, sockets, pool, windows, token, activeForwarding, counters>>

\* The lock is taken: a bypassed reconnect tries one takeover, the others look
\* at their client and come back.
SlotBusy(c) ==
    /\ pc[c] = "wait_forwarding_slot"
    /\ slot # NoConn
    /\ IF "reconnect_bypass_applied" \in flags[c] /\ "takeover_attempted" \notin flags[c]
       THEN Raise(c, "takeover_attempted") /\ Goto(c, "takeover")
       ELSE Look(c, "wait_forwarding_slot") /\ UNCHANGED flags
    /\ UNCHANGED <<victim, sockets, pool, windows, token, session, counters>>

\* _try_takeover_same_ip_forwarding_slot captures the sockets of the session
\* that is being forwarded, when there is one and it is of the same IP ...
TryTakeover(c) ==
    /\ pc[c] = "takeover"
    /\ IF /\ activeForwarding # NoConn
          /\ IpOf[activeForwarding] = IpOf[c]
          /\ activeForwarding # c
       THEN victim' = [victim EXCEPT ![c] = activeForwarding] /\ Goto(c, "close_taken")
       ELSE Look(c, "wait_forwarding_slot") /\ UNCHANGED victim
    /\ UNCHANGED <<flags, sockets, pool, windows, token, session, counters>>

\* The session to close is looked up again after the lock was released.
CloseTakenFault(c) ==
    /\ pc[c] = "close_taken"
    /\ sock' = [d \in Conns |-> IF d = activeForwarding THEN "closed" ELSE sock[d]]
    /\ upstream' = [d \in Conns |-> IF d = activeForwarding THEN "closed" ELSE upstream[d]]
    /\ victim' = [victim EXCEPT ![c] = NoConn]
    /\ Goto(c, "wait_forwarding_slot")
    /\ UNCHANGED <<flags, pool, windows, token, session, counters>>

\* ... and closes them once the state lock is released.
CloseTaken(c) ==
    /\ pc[c] = "close_taken"
    /\ sock' = Close(sock, victim[c])
    /\ upstream' = Close(upstream, victim[c])
    /\ victim' = [victim EXCEPT ![c] = NoConn]
    /\ Goto(c, "wait_forwarding_slot")
    /\ UNCHANGED <<flags, pool, windows, token, session, counters>>

SlotTimeout(c) ==
    /\ pc[c] = "wait_forwarding_slot"
    /\ Goto(c, "finally")
    /\ UNCHANGED <<flags, victim, sockets, pool, windows, token, session, counters>>

----------------------------------------------------------------------------
(* The session.                                                            *)

\* _ensure_instance_running returns True, returns False or raises.
EnsureInstanceRunning(c) ==
    /\ pc[c] = "ensure_instance_running"
    /\ \E next \in {"connect_upstream", "finally"} : Goto(c, next)
    /\ UNCHANGED <<flags, victim, sockets, pool, windows, token, session, counters>>

\* create_connection fails, or connects; client.settimeout then raises on a
\* client socket that another handler closed, with the upstream socket open.
ConnectUpstream(c) ==
    /\ pc[c] = "connect_upstream"
    /\ \/ Goto(c, "finally") /\ UNCHANGED upstream
       \/ /\ upstream' = [upstream EXCEPT ![c] = "open"]
          /\ Goto(c, IF sock[c] = "closed" THEN "finally" ELSE "register_forwarding")
    /\ UNCHANGED <<flags, victim, sock, pool, windows, token, session, counters>>

\* The address is stored where the id belongs.
RegisterForwardingFault(c) ==
    /\ pc[c] = "register_forwarding"
    /\ Raise(c, "forwarding_started")
    /\ activeForwarding' = IpOf[c]
    /\ Goto(c, "forwarding")
    /\ UNCHANGED <<victim, sockets, pool, windows, token, slot, counters>>

\* on_connection_established may raise; otherwise forwarding_started is set and
\* the session is published for takeover.
RegisterForwarding(c) ==
    /\ pc[c] = "register_forwarding"
    /\ \/ /\ Raise(c, "forwarding_started")
          /\ activeForwarding' = c
          /\ Goto(c, "forwarding")
       \/ Goto(c, "finally") /\ UNCHANGED <<flags, activeForwarding>>
    /\ UNCHANGED <<victim, sockets, pool, windows, token, slot, counters>>

\* _pipe_bidirectional ends: the upstream host hangs up or an error occurs ...
UpstreamEnds(c) ==
    /\ pc[c] = "forwarding"
    /\ Goto(c, "finally")
    /\ UNCHANGED <<flags, victim, sockets, pool, windows, token, session, counters>>

\* Only the upstream side ends the loop.
ForwardingCutFault(c) ==
    /\ pc[c] = "forwarding"
    /\ upstream[c] # "open"
    /\ Goto(c, "finally")
    /\ UNCHANGED <<flags, victim, sockets, pool, windows, token, session, counters>>

\* ... or it has to end: the client has gone, a takeover closed a socket, or
\* the proxy is stopping.
ForwardingCut(c) ==
    /\ pc[c] = "forwarding"
    /\ sock[c] # "up" \/ upstream[c] # "open" \/ stopRequested
    /\ Goto(c, "finally")
    /\ UNCHANGED <<flags, victim, sockets, pool, windows, token, session, counters>>

----------------------------------------------------------------------------
(* The `finally` block, in its order.                                      *)

\* The upstream socket is left to the garbage collector.
CloseSocketsFault(c) ==
    /\ pc[c] = "finally"
    /\ LeavePool(c)
    /\ sock' = Close(sock, c)
    /\ Goto(c, "count_out")
    /\ UNCHANGED <<flags, victim, upstream, windows, token, session, counters>>

\* Popping a key that is not there is a no-op, so the test of the local
\* `pending_registered` is not needed.
CloseSockets(c) ==
    /\ pc[c] = "finally"
    /\ LeavePool(c)
    /\ sock' = Close(sock, c)
    /\ upstream' = Close(upstream, c)
    /\ Goto(c, "count_out")
    /\ UNCHANGED <<flags, victim, windows, token, session, counters>>

\* Whatever ends enables the reconnect bypass.
BypassForAllFault(c) ==
    /\ pc[c] = "count_out"
    /\ activeConnections' = IF activeConnections = 0 THEN 0 ELSE activeConnections - 1
    /\ recentDisconnects' = recentDisconnects \cup {IpOf[c]}
    /\ IF Holds(c) THEN Goto(c, "clear_forwarding") /\ UNCHANGED flags ELSE Finish(c)
    /\ UNCHANGED <<victim, sockets, pool, recentApproved, token, session, stopRequested>>

\* Only sessions are counted out.
CountSessionsFault(c) ==
    /\ pc[c] = "count_out"
    /\ activeConnections' = IF ~Holds(c) THEN activeConnections ELSE activeConnections - 1
    /\ recentDisconnects' = IF Approved(c) /\ Started(c)
                            THEN recentDisconnects \cup {IpOf[c]} ELSE recentDisconnects
    /\ IF Holds(c) THEN Goto(c, "clear_forwarding") /\ UNCHANGED flags ELSE Finish(c)
    /\ UNCHANGED <<victim, sockets, pool, recentApproved, token, session, stopRequested>>

\* The connection is counted out and, when it was approved and forwarded, its
\* IP gets the reconnect bypass.  The two uses of the state lock are one step:
\* no handler reads _active_connections.
CountOut(c) ==
    /\ pc[c] = "count_out"
    /\ activeConnections' = IF activeConnections = 0 THEN 0 ELSE activeConnections - 1
    /\ recentDisconnects' = IF Approved(c) /\ Started(c)
                            THEN recentDisconnects \cup {IpOf[c]} ELSE recentDisconnects
    /\ IF Holds(c) THEN Goto(c, "clear_forwarding") /\ UNCHANGED flags ELSE Finish(c)
    /\ UNCHANGED <<victim, sockets, pool, recentApproved, token, session, stopRequested>>

\* _clear_active_forwarding compares ids first.
ClearForwarding(c) ==
    /\ pc[c] = "clear_forwarding"
    /\ activeForwarding' = IF activeForwarding = c THEN NoConn ELSE activeForwarding
    /\ Goto(c, "release_slot")
    /\ UNCHANGED <<flags, victim, sockets, pool, windows, token, slot, counters>>

ReleaseSlot(c) ==
    /\ pc[c] = "release_slot"
    /\ slot' = NoConn
    /\ Finish(c)
    /\ UNCHANGED <<victim, sockets, pool, windows, token, activeForwarding, counters>>

----------------------------------------------------------------------------
(* The environment: the peers, the people with the link, the clock, stop().*)

PeerDisconnects(c) ==
    /\ sock[c] = "up"
    /\ sock' = [sock EXCEPT ![c] = "peer_gone"]
    /\ UNCHANGED <<handlers, upstream, pool, windows, token, session, counters>>

\* GET /verify with a token that is known, unused and not expired.
ClickVerify(c) ==
    /\ token[c] = "pending"
    /\ token' = [token EXCEPT ![c] = "approved"]
    /\ UNCHANGED <<handlers, sockets, pool, windows, session, counters>>

\* token_ttl_seconds pass.
TokenExpires(c) ==
    /\ token[c] = "pending"
    /\ token' = [token EXCEPT ![c] = "dead"]
    /\ UNCHANGED <<handlers, sockets, pool, windows, session, counters>>

\* approved_ip_reuse_seconds, or the ten minutes of the reconnect bypass, pass.
ExpireApproval(ip) ==
    /\ ip \in recentApproved
    /\ recentApproved' = recentApproved \ {ip}
    /\ UNCHANGED <<handlers, sockets, pool, recentDisconnects, token, session, counters>>

ExpireReconnect(ip) ==
    /\ ip \in recentDisconnects
    /\ recentDisconnects' = recentDisconnects \ {ip}
    /\ UNCHANGED <<handlers, sockets, pool, recentApproved, token, session, counters>>

\* stop() sets the event and closes the listener.
Stop ==
    /\ MayStop /\ ~stopRequested
    /\ stopRequested' = TRUE
    /\ UNCHANGED <<handlers, sockets, pool, windows, token, session, activeConnections>>

----------------------------------------------------------------------------
(* What a handler thread does by itself, and what may happen to it.        *)

HandlerStep(c) ==
    \/ CountIn(c)
    \/ Screen(c) \/ CheckRecentApproval(c) \/ PassNotifyWindow(c)
    \/ PoolFull(c) \/ RegisterPending(c) \/ ReplacePending(c) \/ CloseReplaced(c)
    \/ CheckReconnect(c) \/ NotifyReconnect(c)
    \/ CreateToken(c) \/ SendVerification(c) \/ AwaitClick(c) \/ PeekVerification(c)
    \/ CancelToken(c) \/ UnregisterPending(c) \/ MarkApproved(c)
    \/ AcquireSlot(c) \/ SlotBusy(c) \/ TryTakeover(c) \/ CloseTaken(c)
    \/ EnsureInstanceRunning(c) \/ ConnectUpstream(c) \/ RegisterForwarding(c)
    \/ ForwardingCut(c)
    \/ CloseSockets(c) \/ CountOut(c) \/ ClearForwarding(c) \/ ReleaseSlot(c)

Deadline(c) == VerificationTimeout(c) \/ SlotTimeout(c)

Environment(c) ==
    \/ Accept(c) \/ UpstreamEnds(c) \/ PeerDisconnects(c)
    \/ ClickVerify(c) \/ TokenExpires(c)

Next ==
    \/ \E c \in Conns : HandlerStep(c) \/ Deadline(c) \/ Environment(c)
    \/ \E ip \in IPs : ExpireApproval(ip) \/ ExpireReconnect(ip)
    \/ Stop

Spec == Init /\ [][Next]_vars

\* Threads are scheduled.  A polling wait comes back to the head of its loop
\* for ever, where its deadline is compared with the clock: strong fairness.
\* Nothing is assumed of the peers, the people or stop().
Fairness ==
    \A c \in Conns :
        /\ WF_vars(HandlerStep(c))
        /\ SF_vars(VerificationTimeout(c))
        /\ SF_vars(SlotTimeout(c))

FairSpec == Spec /\ Fairness

----------------------------------------------------------------------------
(* Safety.                                                                 *)

Clicked(ip) == \E c \in Conns : IpOf[c] = ip /\ token[c] = "approved"

\* Every variable has its type.
TypeOK ==
    /\ pc \in [Conns -> Stages]
    /\ flags \in [Conns -> SUBSET Locals]
    /\ sock \in [Conns -> {"none", "up", "peer_gone", "closed"}]
    /\ upstream \in [Conns -> {"none", "open", "closed"}]
    /\ victim \in [Conns -> Conns \cup {NoConn}]
    /\ pending \in SUBSET Conns
    /\ age \in [Conns -> Nat]
    /\ recentApproved \in SUBSET IPs
    /\ recentDisconnects \in SUBSET IPs
    /\ token \in [Conns -> {"none", "pending", "approved", "revoked", "dead"}]
    /\ slot \in Conns \cup {NoConn}
    /\ activeForwarding \in Conns \cup {NoConn}
    /\ activeConnections \in Nat
    /\ stopRequested \in BOOLEAN

\* One session per target: only the holder of the session lock has an open
\* socket to the instance, through every failure, takeover and hand-over.
OneUpstream == \A c \in Conns : upstream[c] = "open" => slot = c

\* What a takeover finds published is the session that holds the lock, never
\* one that has ended or one that is still waiting.
PublishedHoldsSlot == activeForwarding # NoConn => slot = activeForwarding

\* Both bounds of the pool of waiting connections hold, whatever is replaced.
PoolBounded ==
    /\ Cardinality(pending) <= MaxPending
    /\ \A ip \in IPs : Cardinality({c \in pending : IpOf[c] = ip}) <= MaxPendingPerIp

\* A connection that is through with verification occupies no place in the
\* pool: on every exit (timeout, replacement, exception) its entry is dropped.
PoolHoldsWaiters == \A c \in pending : pc[c] \in VerifyStages \cup {"finally"}

\* A handler that has ended leaves nothing behind: not its sockets, the lock,
\* the published session or a place in the pool.
NothingLeaks ==
    \A c \in Conns :
        pc[c] = "closed" =>
            /\ sock[c] = "closed"
            /\ upstream[c] # "open"
            /\ slot # c /\ activeForwarding # c
            /\ c \notin pending

\* With verification on and deny-on-timeout, the instance is reached only from
\* an IP for which somebody clicked a link, through whichever bypass.
SessionNeedsClick ==
    SecurityEnabled /\ DenyIfTimeout =>
        \A c \in Conns : upstream[c] = "open" => Clicked(IpOf[c])

\* Neither bypass window ever opens for an IP nobody let in, even when a
\* verification timeout lets unverified clients through.
WindowsNeedClick ==
    \A ip \in recentApproved \cup recentDisconnects : Clicked(ip)

\* The handlers between their count-in and their count-out.
Running == {c \in Conns :
    pc[c] \notin {"listening", "accepted", "clear_forwarding", "release_slot", "closed"}}

\* _active_connections, which the idle shutdown and the disconnect notice rely
\* on, counts exactly the handlers that were counted in and not yet out: none
\* twice, however a handler ends.  A client that was accepted is counted only
\* once its thread runs.
ActiveCountExact == activeConnections = Cardinality(Running)

----------------------------------------------------------------------------
(* Action properties.                                                      *)

\* A socket is closed by its own handler's cleanup, or by a handler of another
\* connection of the same IP that replaces it or takes its session over, never
\* by one of another IP, although both close it after they released the lock
\* under which they chose it.
CutOnlySameIp ==
    [][\A c \in Conns :
         (sock'[c] # sock[c] /\ sock'[c] = "closed")
         \/ (upstream'[c] # upstream[c] /\ upstream'[c] = "closed")
         => \/ pc[c] = "finally"
            \/ \E d \in Conns \ {c} :
                  IpOf[d] = IpOf[c] /\ pc[d] \in {"close_replaced", "close_taken"}]_vars

\* A place in the pool is taken away only by a newer connection of the same IP,
\* and only from the one that has waited longest.
EvictsOldest ==
    [][\A c \in pending \ pending' :
         pc'[c] = pc[c] =>
            \E d \in pending' \ pending :
                /\ IpOf[d] = IpOf[c]
                /\ \A e \in pending \cap pending' : IpOf[e] = IpOf[c] => age[e] < age[c]]_vars

----------------------------------------------------------------------------
(* Liveness, under FairSpec.                                               *)

\* Every client that is accepted is in a session or gone in the end: no wait is
\* for ever, whatever the peers and the people do.
EveryClientSettles ==
    \A c \in Conns : pc[c] = "accepted" ~> pc[c] \in {"forwarding", "closed"}

\* The slot comes back when its client has left or was taken over, and when the
\* proxy is stopped, whatever the handler is doing.
SlotComesBack ==
    \A c \in Conns : (slot = c /\ (sock[c] # "up" \/ stopRequested)) ~> slot # c

----------------------------------------------------------------------------
(* What the documentation says and the code does not do.                   *)

\* The page that answers a click says that the RDP connection has been let
\* through.  The token outlives the handler that waits for it.
AcceptedClickReachesConnection ==
    [][\A c \in Conns :
         token[c] = "pending" /\ token'[c] = "approved" =>
            pc[c] \in {"send_verification", "wait_verification",
                       "peek_verification", "cancel_token"}]_vars

----------------------------------------------------------------------------
(* The single gated session that the proxy promises (module GatedSession). *)

Session == INSTANCE GatedSession WITH
    Clients <- Conns,
    Nobody <- NoConn,
    Gated <- SecurityEnabled /\ DenyIfTimeout,
    owner <- slot,
    phase <- IF slot = NoConn THEN "free" ELSE IF Started(slot) THEN "serving" ELSE "preparing",
    invited <- {IpOf[c] : c \in {d \in Conns : token[d] \in {"approved", "revoked"}}}

\* One client at a time is prepared for and served, only from an invited IP,
\* and what is being prepared is served or given up.
ImplementsGatedSession == Session!FairSpec
=============================================================================
