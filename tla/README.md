# Verification of the RDP on-demand proxy

TLA+ modules, TLC runs and TLAPS proofs for `rdp-on-demand-proxy-serv`: a Python
proxy that accepts RDP connections, lets a person approve each one by a link,
starts the cloud instance behind it on demand, forwards one session per target
and stops the instance when it is idle. Paths are those of the repository
(`rdp_proxy/proxy.py`, `README.md`); line numbers are in `PROJECT.json`.

## The system

One process. For every configured target there is one `TargetProxy` with an accept
thread, an idle thread and one handler thread per connection; the targets share a
`VerificationService` (an HTTP server with a thread per request), a `Notifier`
(with a polling thread for chat messages and timers that delete messages) and a
`WhitelistStore`. `RDPProxyApp` wires them by callbacks.

| part | state | operations | interacts by |
|---|---|---|---|
| connection handler (`proxy.py`, `_handle_connection` and helpers) | locals of the thread, client and upstream socket | screen, verify, wait for the slot, start the instance, connect, forward, clean up | `_state_lock`, `_single_session_lock`, `_api_lock`; token events; notifier calls |
| waiting pool and windows (`proxy.py`) | `_pending_verifications`, `_recent_approved_ips`, `_recent_ip_disconnects`, `_ip_rate_windows` | register, replace, unregister, mark approved, record disconnect, rate limit | under `_state_lock`; sockets of others are closed after it is released |
| forwarding slot (`proxy.py`) | `_single_session_lock`, the published session | acquire, publish, take over, clear, release | polling without a queue; a takeover closes the other handler's sockets |
| disconnect notice (`proxy.py`) | a generation counter, a thread per notice | filter, wait 30 s, send links | any connection's start or end raises the generation |
| instance control (`proxy.py`, `cloud/`) | `_active_connections`, `_idle_action`, `_last_disconnect_at`, the cloud's own state | ensure running, start and stop with retries, idle shutdown | `_api_lock` between handlers and the idle thread |
| verification service (`verification.py`) | three tables of tokens, one lock | create, click, cancel, expire; action links; control links | events to handlers; callbacks to proxies, whitelist, notifier |
| whitelist (`whitelist.py`) | entries of digests, cached file time, rejected list | contains, add, delete, ingest, refresh, persist | file or Kubernetes secret, which others may write |
| notifier (`notifications.py`) | ids of messages to delete | send, record, delete on a click, by age and for the next session, poll the chat | HTTP; timers; callbacks of the verification service and the handler |
| control center (`control_center.py`) | requests, records per source, white- and blacklist | register, approve, close, clean up | HTTP, events; nothing else imports it yet |
| start-up (`app.py`, `config.py`) | none | load and validate, self-check, start and stop all | - |

What is hard in this code: handler threads interleave at every lock, poll and
socket call; three bypasses of the verification feed each other's windows;
sockets of one handler are closed by another after the lock under which they
were chosen is gone; a click races the deadline, the cancellation and the
departure of the client; a cloud call may fail after it was carried out; the idle
decision is stale when it is acted on; messages are recorded after they were sent
and deleted by whichever of three threads comes first; the whitelist is changed in
memory, then written over whatever is stored; and every exit of a handler, from any
stage, has to give back all it took. `PROJECT.json` lists these under `hazards`,
each with its line and the properties that watch it. What makes each part correct:

* handler: one session per target; nothing kept after the end; every client settles;
* pool and windows: both bounds hold, the oldest is replaced, no window opens
  without a click;
* slot: published session = lock holder, only connections of one IP cut each other;
* instance control: no stop during a startup, a reported start is real, an
  abandoned instance is stopped;
* verification service: a link counts once, and not after it was cancelled or expired;
* whitelist: what was reported is what is stored, and copies agree in the end;
* notice and notifier: a notice only for the last session of a quiet period, and
  then an attempt to send it; messages of dead links do not stay, if their id came back;
* control center: who waits for the button is on the page, and is released only by a
  decision.

## Modules

| module | what it is |
|---|---|
| `GatedSession` | abstract: one session, granted to an invited address, prepared, served, ended |
| `TargetProxy` | the handler threads of one target; one action per stretch of code between two locks, blocking calls or socket operations |
| `MCTargetProxy` | instances for TLC |
| `TargetProxyProofs` | inductive invariant, safety theorems, refinement of `GatedSession` |
| `InstanceControl` | startup loop, retry routine and idle thread over one cloud instance |
| `MCInstanceControl` | instances for TLC |
| `InstanceControlProofs` | inductive invariant and safety theorems |
| `OnDemandProxy` | one target as a whole: the handlers of `TargetProxy` over the instance of `InstanceControl` |
| `MCOnDemandProxy` | an instance for TLC |
| `OnDemandProxyProofs` | refinement of both components, what carries over, what only the two together can say |
| `OneTimeLinks` | abstract: links that are issued, spent at most once while open, and take effect once |
| `VerificationService` | tables of tokens, clicks and callbacks, the waiting handler, the message of a token, one clock |
| `MCVerificationService` | an instance for TLC |
| `VerificationServiceProofs` | inductive invariant, safety theorems, refinement of `OneTimeLinks` |
| `DisconnectNotice` | generations, the sleeping threads, posting, recording and deleting notices |
| `MCDisconnectNotice` | an instance for TLC |
| `DisconnectNoticeProofs` | inductive invariant and safety theorems |
| `WhitelistStore` | copies in memory over a file or a secret, with failures and crashes |
| `MCWhitelistStore` | instances for TLC |
| `WhitelistStoreProofs` | inductive invariant and safety theorems |
| `RequestGate` | abstract: requests that are decided at most once, while they wait, and let go when granted |
| `ControlCenter` | requests, records, button, quick link, blacklist, clean-up |
| `MCControlCenter` | an instance for TLC |
| `ControlCenterProofs` | inductive invariant, safety theorems, refinement of `RequestGate` |

### TargetProxy

`pc[c]` is the handler's place, named after its variable `stage` where it has one.
`flags[c]` is the set of the Boolean locals that are true; `pending_registered` is
left out because popping an absent key does nothing. `sock` and `upstream` are the
two sockets, and tell a peer that has gone from a socket this process closed.
`pending` with `age` is the insertion-ordered `_pending_verifications`. The two
tables of times are sets of addresses still within their window. `token[c]` is the
token made for `c`; its fifth value, `revoked`, remembers for the refinement that a
token was clicked before it was cancelled. `slot` is the holder of
`_single_session_lock`, `activeForwarding` the published id.

A wait that peeks at its client is `Look`: it may give up only if the client has
gone and must if another thread closed the socket. It need not notice a departure,
because the first RDP packet was only peeked (`recv(12, MSG_PEEK)`) and stays in
the buffer, so that a later `recv(1, MSG_PEEK)` returns a byte after a FIN and, on
Linux, after a reset as well.

A client is accepted by one thread and counted in by another: `Accept` starts the
handler's thread, `CountIn` is the first thing that thread does, and anything may happen
in between. Merged steps: the rate limit, the probe and the whitelist (`Screen`), since none of
them touches state of this model; counting out and recording the disconnect
(`CountOut`), since no handler reads the counter; each is said at its action. Time
is absent: a deadline that may pass is an action that may be taken.

### InstanceControl

`inst` is the state of the instance at the cloud; `Observations` is what a query
inside the routine may answer (a raised error becomes `UNKNOWN` there). `step`,
`retryIndex` and `error` are the retry routine of whoever holds `_api_lock`.
Handlers are reduced to being counted in, taking the slot, asking for the instance,
serving, being counted out and releasing the slot. `QueryMayRaise` tells
the aliyun provider, whose query raises, from the tencent one, which answers
`UNKNOWN`. The model assumes that nobody else operates the instance, that cloud
control is configured, and that notifications of results do not raise (their
senders catch what the HTTP calls raise).

### OnDemandProxy

`TargetProxy` lets the stage `ensure_instance_running` end in either way, and
`InstanceControl` lets a handler arrive, take the slot, serve and leave at will. Here
neither is free: the handler is that of `TargetProxy`, and in that one stage it runs the
startup loop and the retry routine of `InstanceControl` (`EnsureRunning`), against the
idle thread and the cloud. The session lock and the counter are the same variables in
both. `stage[c]` is the second view of a handler's place (`StageAt`), which the
composition has to keep in step with `pc[c]`, and does (`ViewsAgree`). `finally` reaches
the instance's side through the counter and `_last_disconnect_at`; nothing else of the
handler does, nor the other way round. `late` is history: the handlers counted in since
the idle thread decided, for `StopHitsLatecomersOnly`. A client that was accepted and is
not yet counted is nobody to the idle thread, and the property does not protect it.

### VerificationService

`table` stands for the keys of the three dictionaries, since a token is in the one of
its kind; `Kept` is what `_cleanup_locked` leaves, and every creation and request
applies it. A request has two steps, because `on_verified` and `on_action` are called
after the lock was released: `Grant` marks the link used, `callback` says what is left
to do. `shown` is the chat, `recorded` the keys of `_telegram_verification_messages`;
`SendVerification` and `RecordMessage` are apart because the message can be clicked as
soon as it is in the chat. The id comes with the chat's answer: when the answer is lost,
has no id, or another channel raises after it (notifications.py:364, 424, 451), the
message may be in the chat and nobody has its id (`SendVerification`); such a message
stays, and `DeadLinksLeaveChat` speaks of those whose id came back. `cancel_token` is two steps for the same reason: it takes
the token out under the lock and marks it after. `latest` is history: the choice
followed last, or `contested` when a second link was followed before the first was
applied.

### DisconnectNotice

A connection starts, may become the session (`Establish`, whose guard is the session
lock), has the recorded notices deleted one by one, forwards and ends. `End` is the
`finally` block: it raises the generation and may start the thread of the notice. The
30 seconds are absent: the thread may decide at any time after. A notice may be in the chat without a known id (`Post`), and a deletion may raise what the
notifier does not catch (`DeletionRaises`): the handler goes to its `finally` block, and
the ids it took and has not come to are gone. `overlooked`, `lost` and `last`
are history: the notices that were on their way when a session took the ids, those whose
id nobody has, and the connection whose end was the last thing to happen. The whole of `finally` from
the counting to the start of the thread is one step, because only the counter and the
generation are read by others, both under the one lock.

### WhitelistStore

`mode` chooses file or secret. `memory[p]` is the copy of process `p`, `version` counts
what reached the storage and stands for the file's time stamp, `basis[p]` is the version
the copy was read from or written as. An operation under the lock is a step that
refreshes and changes the copy and one that writes; a write of a file is followed by
its stat. Each read and write may fail, the answer of the cluster may be lost, and the
process may crash in between. `promise` is what the last caller was told about an
address. `overwritten` and `misread` mark what the code cannot rule out, and every
property that is limited by them says so: a replica that patches the secret with a copy
older than what is stored (its copy may be three seconds old), and a file that could not
be read or was edited between a step on it and the stat that follows. Time stamps are
assumed to differ when the contents do (they are taken in nanoseconds).

### ControlCenter

`status[r]` is the request, `shown`, `active` and `lastAt` the record of its source;
`byId` and `byKey` are the keys of the two dictionaries, which forget by age
independently. The setting of an event after the lock is a step of its own
(`SetWaitEvent`). No other part of the program imports the module; it is modelled as it
would be called: a request is registered once and closed when its connection ends.
`RequestGate` is what the callers may rely on, without records, pages and retention; an
approval by the button is there a grant and a release, because the event is set after the
lock, when the request may already be over.

### Faults

Operators named `...Fault` stand before the definition they vary. They are the
mistakes against which the properties were tried: with the fault in the
definition's place, TLC finds the property violated.

## Runs

| run | bounds | shows |
|---|---|---|
| `proxy_safety` | 3 connections of 2 addresses after an earlier session, pool of 2, 1 per address, verification enforced | `TypeOK`, `OneUpstream`, `PoolBounded`, `NothingLeaks`, `SessionNeedsClick`, `ActiveCountExact`, `CutOnlySameIp` |
| `proxy_same_ip` | 3 connections of one address, pool of 3, 2 per address, no denial on timeout, approval reuse | `WindowsNeedClick`, `EvictsOldest` |
| `proxy_live` | 2 connections of one address after an earlier session, `stop()`, fair | `EveryClientSettles`, `SlotComesBack`, `ImplementsGatedSession` |
| `system_whole` | 2 connections of one address, pool of 1, approval reuse, 1 retry, queries may raise | `ImplementsInstanceControl`, `StartNeedsClick`, `StopHitsLatecomersOnly` |
| `cloud_all` | 2 handlers, 3 retries, queries may raise, fair | `TypeOK`, `StartReportedIsStarted`, `NoStopDuringStartup`, `EnsureReturns`, `IdleInstanceStops` |
| `verification_links` | 1 verification token, 1 pair of action links, 1 control link, life 1, clock to 2, fair | `TypeOK`, `DeletedOnce`, `LastChoiceWins`, `UsableLinksStay`, `ImplementsOneTimeLinks`, `DeadLinksLeaveChat` |
| `notice_notices` | 3 connections, fair | `TypeOK`, `SessionClearsNotices`, `NoNoticeForgotten`, `OnlyLastSessionAnnounced`, `LastSessionIsAnnounced` |
| `whitelist_whitelist` | 2 replicas or one process with its file, 2 addresses, 3 writes, 1 crash, fair | `TypeOK`, `AcknowledgedLast`, `TakesEffect`, `AloneLosesNothing`, `ReplicasConverge` |
| `center_center` | 3 requests of one source, requests forgotten after one tick, fair | `TypeOK`, `PendingIsOnPage`, `ReleasedWasDecided`, `ImplementsRequestGate` |

Why the bounds are enough. A connection is used once, so three connections are
three attempts of clients. Every hazard of the handler involves at most a session,
a second connection that competes with or replaces it and a third that profits
(the takeover of a session that ended meanwhile, while a third one began, is the
longest). In `proxy_safety` two connections compete for the one place of their
address, and with the third for the two places of the pool, so both bounds bite. A
takeover and the reconnect bypass need an earlier session of the address:
`proxy_safety` and `proxy_live` start from `AfterSession`, the state that connection
`c0` leaves when it is clicked, forwarded and gone, instead of spending the search
on it. In `proxy_same_ip` a newcomer finds two entries of its address, so there is an
older one to choose. Three retries are the code's number; two handlers let one be
served while another arrives, waits for the slot or is turned away.

`system_whole` starts with nothing done: the first connection needs a click, and the
second may pass on its approval or its recent disconnect, take the session over, and find
the instance starting, running, being stopped or stopped. One retry is enough for the
routine to fail, wait and try again; all three are in `cloud_all`. With a pool of 1 no waiting
connection is replaced here; one that is never comes near the instance, and `proxy_safety` has it.

Links of different kinds or connections meet only in the clean-up, which forgets each by
its own age, and in `idleAction`, for which a pair suffices; with a life of 1 and a
clock to 2 a link expires while others are made and used, and a used one is forgotten
while its message is still there. The three connections of `notice_notices` are a
session, one that comes while its notice is on the way, and the session that finds what
both left. Three writes let a write fail, be retried and be overtaken by the other
replica or by an edit. Three requests of one source let one supersede another that
superseded a third; that sources do not mix is proved only.

Symmetry is used in `proxy_safety` and `system_whole` (the two connections of one address)
and `proxy_same_ip` (all three), none of which checks liveness. The `proxy` and `system` runs turn the deadlock check off, as all
connections end; so do `verification_links` and `notice_notices`, where clock and
connections end, and the `whitelist` runs, where the bounds end changes and crashes. The
`cloud` and `center` runs keep it.

Runs that TLC is expected to find violated, each a disagreement with a document or
a message (details under `findings`):

| run | property | disagreement |
|---|---|---|
| `proxy_late_click` | `AcceptedClickReachesConnection` | the page says the connection was let through; it may have given up, on a timeout or a failed notification |
| `cloud_busy_stop` | `StopOnlyWhenIdle` | README.md:14: shutdown on idle; a session that just began may be stopped |
| `whitelist_retry` | `PresentIsStored` | README.md:194: the address is written; a retry after a failed write reports success and writes nothing |

Further disagreements that the model contains and that need no run to be seen:

* README.md:276 says that waiting connections of other addresses are cleared on an
  approval; `UnregisterPending` drops the handler's own entry only (proxy.py:660).
* README.md:185 says that short reconnects are verified too; `NotifyReconnect` lets
  them through for ten minutes, with a message (proxy.py:542).
* README.md:187 says that the token of a client that leaves is void at once; `Look` need
  not notice the departure, because the first packet is still buffered (proxy.py:926).
* README.md:188 says that messages are deleted once their link was used or has expired;
  one whose id did not come back (`SendVerification`) stays, and so do the links in the
  replies to chat commands, whose ids nobody keeps (proxy.py:1610).
* README.md:212 says that network errors are retried; the keyword "ak" is found in
  "handshake", so `NonRetryable` holds of a TLS handshake error (proxy.py:1267).
* README.md:14 promises automatic shutdown; with the `aliyun_ecs` provider one error of
  the query ends the idle thread (`QueryRaises`, proxy.py:1451). `IdleInstanceStops` is
  what is left of the promise: an abandoned instance is stopped as long as that thread
  lives, and if the choice is to shut down. README.md:68 reads as if that were the
  default, but `keep_running` is, until somebody follows a link.
* The chat says that the control link lives for an hour; `Life` is the lesser of an hour
  and `token_ttl_seconds` (proxy.py:1608, verification.py:124).
* The control center's page offers a button for a request of a source approved before;
  `ApproveRequest` refuses it, as the request waits for its quick link
  (control_center.py:289, 353). The quick link itself is answered with 404 before it
  is carried out (control_center.py:541).

## Fairness

`TargetProxy`: weak fairness of a handler's own steps (threads are scheduled, calls
with a timeout return); strong fairness of the two deadlines, because a polling
loop compares its deadline with the clock each time it comes to its head, which is
when the action is enabled. Nothing is assumed of clients, of people, of tokens or
of `stop()`; a session may last for ever. Two assumptions of weak fairness deserve a
name: the rate limiter, which has no queue, lets a client through or drops it
(`Screen`), and `sendall` to a peer that stops reading does not block for ever
(`ForwardingCut`), for instance because TCP gives up.

`InstanceControl`: threads are scheduled; a lock that is free again and again is
obtained (`_api_lock`); deadlines pass; the cloud finishes what it began; and, asked
for ever, it at some time tells the true state and carries out a stop. Without the
last one no program could stop the instance.

`VerificationService`: time passes, threads are scheduled and calls to the chat return.
Nobody has to follow a link, and a handler's wait may be endless. `DisconnectNotice`: the
same, and clients need neither come nor leave. Both rest on the timeouts of the HTTP
calls. `WhitelistStore`: processes are restarted, the refresh interval passes, threads
run on; and clients keep connecting, so that the copy is looked at again and again, and a
storage asked again and again answers once in a while (strong fairness of a lookup that
reads). Without the last, a replica that can never read has no way to agree.
`ControlCenter`: a thread that approves goes on to set the event.
`OnDemandProxy` claims no liveness.

## Proofs

`TargetProxyProofs` proves, for any set of connections and addresses, any pool
bounds and all settings of the flags, every safety property of the `proxy` runs, and that the pool holds only connections in
verification (`PoolHoldsWaiters`).
The properties are not inductive: that only the lock's holder has an
upstream socket needs to know where the holder is, that it remembers being the
holder, and what is published. `IInv` adds this:

* `SlotInv`: lock, `forwarding_slot_acquired`, stage, upstream socket and published
  session agree;
* `PoolInv`: entries belong to connections in verification, and sockets of
  finished handlers are closed;
* `VictimInv`: sockets captured under the lock and not yet closed are of the same
  address, however long ago that was;
* `TokenInv`: which tokens exist at which stage;
* `ClickInv`: every window and every approved handler goes back to a click that
  can no longer be cancelled (`Admitted`). A click as such is not stable: its
  handler may cancel the token.

Pool bounds and the counter need cardinalities and have invariants of their own
(`PoolCount`, `ActiveCount`) on top of `IInv`. So has the order of the pool: the
oldest is older than the others, and not just as old, because no two entries have
the same age (`AgesDiffer`). `Refinement` proves that every step is
a step of `GatedSession` or invisible there.

`GatedSession` lets the invited addresses be any at the start, so that what a run from
`AfterSession` shows is a behaviour of it as well.

`InstanceControlProofs` proves the safety properties of `cloud_all` for any number of
handlers and retries, and `OneOperation`, on which they rest. `IInv` there says that a thread is in the retry routine exactly
when its caller waits for it, that a reported start lasts while its handler polls,
and who has the slot; lemma `Alone` draws the consequence the routine needs: nobody
else is near the instance. `CountInv` adds the counter.

`OnDemandProxyProofs` puts the two together, for any connections, addresses, bounds, flags
and retries. `SystemInv` is `IInv` of the handlers with `ViewsAgree`. Every step is one of
`TargetProxy` or invisible to it (`ProxyRefinement`), and one of `InstanceControl` or
invisible to it (`InstanceRefinement`): the first needs no invariant, because a stage that
does more may only end as before; the second needs to know where each handler is, and that
`forwarding_slot_acquired` says who holds the lock (`SlotInv`), because `finally` releases
by the flag and `InstanceControl` by the lock. Hence every theorem of either module holds
of the whole; `WholeIsGated`, `InstanceIsSafe` and `StartupStaysUndisturbed` say so of the
main ones. Two theorems need both: a start is made
by a handler in the routine, which by the one invariant holds `_api_lock` and by the other
the slot and a click (`StartsAreEarned`); and the stop hits latecomers only
(`StopsHitLatecomers`). For the latter, `LateInv` says that while the idle thread is busy
whoever is under way is in `late`. It holds at the decision because the counter is by the
one what is decided by and by the other the number of handlers under way, so that there
are none; it is kept because a handler comes to be under way only by `CountIn`
(`HandleRunning`); and it is enough because nobody but the idle thread, busy with its
routine, takes the instance down (`WhoStops`). That a latecomer may be hit is the run
`cloud_busy_stop`.

`VerificationServiceProofs` proves the safety properties of `verification_links` for any
links, lives and clock. `LinkInv` ties a request to its used link and an event without
a request to a cancelled handler; `MessageInv` says that whoever has a message's id has
it alone, and that nobody has it before it was recorded, which is what `DeletedOnce`
lacks to be inductive; `TimeInv` bounds a timer from below by the life of its token, for
`UsableLinksStay`; `ChoiceInv` says that an uncontested choice is the only one still to
be applied. `Refinement` shows every step to be one of `OneTimeLinks` or invisible.

`DisconnectNoticeProofs`: `GenerationInv` says that only the connection whose end was
the last event has the present generation, which makes the comparison of numbers a
statement about history; `SessionInv` that one connection at a time is established, and
that all that can come to the chat meanwhile was on its way before, or has no known id.

`WhitelistStoreProofs`: the properties speak of reports and storage, and their steps
go through copies and stamps. `WriterIsCurrent` and `CopyAgrees` carry a report from the
copy to the storage, `StampIsTrue` says that a copy whose stamp is that of the file is
the file, and `FileIsCopy` covers the moment between the replacement and the stat.

`ControlCenterProofs`: `KnownByStatus` and `OneKind` keep requests for the button and
requests for the link apart by what the source was when they came, without which a
request of the second kind could displace one of the first, or an approved one be superseded; `Decided` says that an
event is only for a decided request. `Refinement` maps each step to one of `RequestGate`;
that a takeover ends only requests that still waited is where `KnownByStatus` is needed
again. `ActiveIsOpen`, that a record is always about an open request, is proved on the way.

The proofs assume `ConnsAssumption`, `FlagsAssumption`, `PoolAssumption` (the
constructor clamps both bounds to at least 1), `ActorsAssumption`,
`RetriesAssumption` and `QueryAssumption`, which for the whole follow from
`ConnsAssumption` and `SystemAssumption` (`CloudAssumptions`); `KindsAssumption` (tokens are random and the
kinds are in tables of their own) and `TimesAssumption`; `ConnsFinite` and
`NoneAssumption`; `BoundsAssumption` and `NamesAssumption`; `SourceAssumption` and
`TimeAssumption`. TLC evaluates them in every run. Not
proved: the liveness properties (`EveryClientSettles`, `SlotComesBack`, `EnsureReturns`,
`IdleInstanceStops`, `DeadLinksLeaveChat`, `LastSessionIsAnnounced`, `ReplicasConverge`) and
the fairness part of the refinements, which are out of the prover's reach and
model-checked. The proofs start from `Init`; the runs
that start from `AfterSession` look at a later part of the same behaviours.

## Plan

Done: the handler, the instance, the links, the notice, the whitelist, the control
center, and the handler composed with the instance. What is left, in order:

1. `AdmissionWindows`: the rate limiter, the two windows and the waits with a clock
   and the real comparisons (`<=`, `<`, a wait of 0). Bounds on what one address gets
   per window; the growth of the tables.
2. A clock in `InstanceControl`: the startup deadline that is set before `_api_lock` is
   waited for (proxy.py:1210).
3. Compositions: `TargetProxy` with `VerificationService` (the token of the handler is
   the token of the service) and with `DisconnectNotice` (its
   `Connect` and `End` are `CountIn` and `CountOut`).
4. The polling of chat commands: the offset is raised before a command is carried out,
   so that a command is carried out at most once.
5. Proofs: the bounds per window, and the compositions' refinements.

## Not modelled

Beyond the plan: formatting, masking and geolocation of messages, HTTP wire formats,
SDK requests, configuration parsing, logs and audit files, the GeoIP update script
and the build. They keep no state that another part reads. Of the whitelist, the list of
rejected addresses, the encryption of entries and the upgrade of entries in the old
format are left out, except for the writes they cause. Requests of the control
center that wait for a quick link, not for the button, may drop off its page;
`PendingIsOnPage` does not speak of them. A cloud call that raises takes effect at once
or never: one that is carried out after its timeout is not modelled. That a full pool
turns away a reconnect which would only replace its own entry (proxy.py:179) is modelled,
as nothing in the repository promises otherwise. Of the control center, counters,
history, pages and its own action links, which repeat those of the verification service. Errors of the bytes
forwarded are not modelled either: the pipe is a stage that ends.
