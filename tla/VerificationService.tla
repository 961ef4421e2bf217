------------------------ MODULE VerificationService ------------------------
(***************************************************************************)
(* The links of rdp_proxy/verification.py: verification tokens, the two    *)
(* action links of a notice and the links to the control page, in tables   *)
(* under one lock and against one clock; the handler that made a           *)
(* verification token; and the chat message that carries it, which         *)
(* rdp_proxy/notifications.py deletes after a click or after the token's   *)
(* life.  An HTTP request is two steps: what it does under the lock, and   *)
(* the callback it makes after it has released the lock.                   *)
(***************************************************************************)
EXTENDS Integers

CONSTANTS Verifications, \* one verification token per waiting connection
          Notices,       \* each with a link that keeps and one that shuts down
          Controls,      \* links to the control page
          Ttl,           \* token_ttl_seconds
          ControlCap,    \* the hour that caps the life of a control link
          Retention,     \* how long a used token is remembered (3600 s)
          Horizon        \* bound of the clock

ASSUME KindsAssumption ==
    /\ Verifications \cap Controls = {}
    /\ (Verifications \cup Controls)
         \cap (Notices \X {"keep_running", "shutdown_on_idle"}) = {}
ASSUME TimesAssumption == {Ttl, ControlCap, Retention, Horizon} \subseteq Nat

IdleActions == {"keep_running", "shutdown_on_idle"}
ActionLinks == Notices \X IdleActions
Links == Verifications \cup Controls \cup ActionLinks

VARIABLES
    now,        \* time.time()
    table,      \* the keys of _tokens, _action_tokens and _control_auth_tokens
    issued,     \* links that were ever created
    created,    \* created_at
    used,       \* links whose field used is set
    event,      \* verification tokens whose event is set
    callback,   \* what the request that was granted has still to do
    pc,         \* the handler that waits for a verification token
    shown,      \* tokens whose message is in the chat
    recorded,   \* the keys of _telegram_verification_messages
    timer,      \* the thread that deletes the message after its life
    due,        \* when that thread wakes
    asked,      \* how often the chat was asked to delete the message
    idleAction, \* _idle_action of the target
    latest      \* the choice followed last, "contested" when two overlapped

tables   == <<table, issued, created, used>>
chat     == <<shown, recorded, timer, due, asked>>
choices  == <<idleAction, latest>>
vars     == <<now, tables, event, callback, pc, chat, choices>>

Callbacks == {"none", "due", "deleting", "done"}
Stages    == {"absent", "notify", "record", "wait", "cancel", "approved", "gone"}
Timers    == {"none", "asleep", "deleting", "done"}

Init ==
    /\ now = 0
    /\ table = {} /\ issued = {} /\ used = {} /\ event = {}
    /\ created = [l \in Links |-> 0]
    /\ callback = [l \in Links |-> "none"]
    /\ pc = [v \in Verifications |-> "absent"]
    /\ shown = {} /\ recorded = {}
    /\ timer = [v \in Verifications |-> "none"]
    /\ due = [v \in Verifications |-> 0]
    /\ asked = [v \in Verifications |-> 0]
    /\ idleAction = "keep_running"
    /\ latest = "keep_running"

-----------------------------------------------------------------------------
Lesser(a, b) == IF a <= b THEN a ELSE b

(* expires_at - created_at. *)
Life(l) == IF l \in Controls THEN Lesser(ControlCap, Ttl) ELSE Ttl

Expired(l) == created[l] + Life(l) < now

(* _cleanup_locked, which every request and every creation begins with. *)
Kept == {l \in table : ~Expired(l) /\ (l \in used => now - created[l] <= Retention)}

(* The three creations: clean up, insert. *)
Insert(S) ==
    /\ S \cap issued = {}
    /\ now + Ttl <= Horizon
    /\ table' = Kept \cup S
    /\ issued' = issued \cup S
    /\ created' = [l \in Links |-> IF l \in S THEN now ELSE created[l]]
    /\ UNCHANGED used

CreateToken(v) ==
    /\ pc[v] = "absent"
    /\ Insert({v})
    /\ pc' = [pc EXCEPT ![v] = "notify"]
    /\ UNCHANGED <<now, event, callback, chat, choices>>

CreateActionLinks(n) ==
    /\ Insert({n} \X IdleActions)
    /\ UNCHANGED <<now, event, callback, pc, chat, choices>>

CreateControlAuth(l) ==
    /\ Insert({l})
    /\ UNCHANGED <<now, event, callback, pc, chat, choices>>

(* /quick_approve: the newest tokens that are neither used nor expired. *)
ListPendingLinks ==
    /\ table # Kept /\ table' = Kept
    /\ UNCHANGED <<now, issued, created, used, event, callback, pc, chat, choices>>

(* A link that is not in the table (410) or was used (409) changes nothing *)
(* but what the clean-up takes.                                            *)
RefuseLink(l) ==
    /\ l \in issued
    /\ l \notin Kept \/ l \in used
    /\ table # Kept /\ table' = Kept
    /\ UNCHANGED <<now, issued, created, used, event, callback, pc, chat, choices>>

GrantFault(l) ==
    /\ l \in Kept
    /\ table' = Kept
    /\ used' = used \cup {l}
    /\ UNCHANGED <<now, issued, created, pc, chat>>

Grant(l) ==
    /\ l \in Kept /\ l \notin used
    /\ table' = Kept
    /\ used' = used \cup {l}
    /\ UNCHANGED <<now, issued, created, pc, chat>>

ClickVerify(v) ==
    /\ Grant(v)
    /\ event' = event \cup {v}
    /\ callback' = [callback EXCEPT ![v] = "due"]
    /\ UNCHANGED choices

(* The choices that were answered or will be, and are not yet applied. *)
Unapplied == {l \in ActionLinks : callback[l] = "due"}

ClickAction(l) ==
    /\ Grant(l)
    /\ callback' = [callback EXCEPT ![l] = "due"]
    /\ latest' = IF Unapplied = {} THEN l[2] ELSE "contested"
    /\ UNCHANGED <<event, idleAction>>

(* is_control_auth_valid; the page is made after it. *)
OpenControlPage(l) ==
    /\ Grant(l)
    /\ callback' = [callback EXCEPT ![l] = "due"]
    /\ UNCHANGED <<event, choices>>

-----------------------------------------------------------------------------
(* After the lock: _on_action. *)
ApplyActionFault(l) ==
    /\ callback[l] = "due"
    /\ callback' = [callback EXCEPT ![l] = "done"]
    /\ idleAction' = IF l[2] = "shutdown_on_idle" THEN l[2] ELSE idleAction
    /\ UNCHANGED <<now, tables, event, pc, chat, latest>>

ApplyAction(l) ==
    /\ callback[l] = "due"
    /\ callback' = [callback EXCEPT ![l] = "done"]
    /\ idleAction' = l[2]
    /\ UNCHANGED <<now, tables, event, pc, chat, latest>>

RenderControlPage(l) ==
    /\ callback[l] = "due"
    /\ callback' = [callback EXCEPT ![l] = "done"]
    /\ UNCHANGED <<now, tables, event, pc, chat, choices>>

(* After the lock: on_verification_approved takes the message's id, if it  *)
(* was recorded by now, and asks the chat to delete it.                    *)
PopMessageFault(v) ==
    /\ callback[v] = "due"
    /\ callback' = [callback EXCEPT ![v] = IF v \in recorded THEN "deleting" ELSE "done"]
    /\ UNCHANGED <<now, tables, event, pc, shown, recorded, timer, due, asked, choices>>

PopMessage(v) ==
    /\ callback[v] = "due"
    /\ callback' = [callback EXCEPT ![v] = IF v \in recorded THEN "deleting" ELSE "done"]
    /\ recorded' = recorded \ {v}
    /\ UNCHANGED <<now, tables, event, pc, shown, timer, due, asked, choices>>

(* The chat may refuse, or not be reached; nobody tries again. *)
AskDelete(v) ==
    /\ asked' = [asked EXCEPT ![v] = @ + 1]
    /\ shown' \in {shown, shown \ {v}}

DeleteAfterClick(v) ==
    /\ callback[v] = "deleting"
    /\ callback' = [callback EXCEPT ![v] = "done"]
    /\ AskDelete(v)
    /\ UNCHANGED <<now, tables, event, pc, recorded, timer, due, choices>>

-----------------------------------------------------------------------------
(* The handler: send, record, wait.  The id is known only when the chat's  *)
(* answer comes and has it, and no other channel raises after it; without  *)
(* it the message may be in the chat or not.                               *)
SendVerification(v) ==
    /\ pc[v] = "notify"
    /\ \/ pc' = [pc EXCEPT ![v] = "record"] /\ shown' = shown \cup {v}
       \/ /\ pc' \in {[pc EXCEPT ![v] = s] : s \in {"wait", "gone"}}
          /\ shown' \in {shown, shown \cup {v}}
    /\ UNCHANGED <<now, tables, event, callback, recorded, timer, due, asked, choices>>

RecordMessageFault(v) ==
    /\ pc[v] = "record"
    /\ pc' = [pc EXCEPT ![v] = "wait"]
    /\ IF callback[v] = "none"
         THEN /\ recorded' = recorded \cup {v}
              /\ timer' = [timer EXCEPT ![v] = "asleep"]
              /\ due' = [due EXCEPT ![v] = now + Ttl]
         ELSE UNCHANGED <<recorded, timer, due>>
    /\ UNCHANGED <<now, tables, event, callback, shown, asked, choices>>

RecordEarlyFault(v) ==
    /\ pc[v] = "record"
    /\ pc' = [pc EXCEPT ![v] = "wait"]
    /\ recorded' = recorded \cup {v}
    /\ timer' = [timer EXCEPT ![v] = "asleep"]
    /\ due' = [due EXCEPT ![v] = now + Ttl - 1]
    /\ UNCHANGED <<now, tables, event, callback, shown, asked, choices>>

RecordMessage(v) ==
    /\ pc[v] = "record"
    /\ pc' = [pc EXCEPT ![v] = "wait"]
    /\ recorded' = recorded \cup {v}
    /\ timer' = [timer EXCEPT ![v] = "asleep"]
    /\ due' = [due EXCEPT ![v] = now + Ttl]
    /\ UNCHANGED <<now, tables, event, callback, shown, asked, choices>>

(* The wait may end by its deadline even though the event was just set. *)
Approved(v) ==
    /\ pc[v] = "wait" /\ v \in event
    /\ pc' = [pc EXCEPT ![v] = "approved"]
    /\ UNCHANGED <<now, tables, event, callback, chat, choices>>

WaitEnds(v) ==
    /\ pc[v] = "wait"
    /\ pc' = [pc EXCEPT ![v] = "gone"]
    /\ UNCHANGED <<now, tables, event, callback, chat, choices>>

(* cancel_token takes the token out under the lock; the fields are set     *)
(* after it.  A token the clean-up took before is left as it is.           *)
CancelToken(v) ==
    /\ pc[v] = "wait"
    /\ pc' = [pc EXCEPT ![v] = IF v \in table THEN "cancel" ELSE "gone"]
    /\ table' = table \ {v}
    /\ UNCHANGED <<now, issued, created, used, event, callback, chat, choices>>

FinishCancel(v) ==
    /\ pc[v] = "cancel"
    /\ pc' = [pc EXCEPT ![v] = "gone"]
    /\ used' = used \cup {v}
    /\ event' = event \cup {v}
    /\ UNCHANGED <<now, table, issued, created, callback, chat, choices>>

(* _delete_verification_message_after_ttl: only a message that is still    *)
(* recorded is deleted.                                                    *)
TimerWakesFault(v) ==
    /\ timer[v] = "asleep" /\ now >= due[v]
    /\ timer' = [timer EXCEPT ![v] = "deleting"]
    /\ recorded' = recorded \ {v}
    /\ UNCHANGED <<now, tables, event, callback, pc, shown, due, asked, choices>>

TimerWakes(v) ==
    /\ timer[v] = "asleep" /\ now >= due[v]
    /\ timer' = [timer EXCEPT ![v] = IF v \in recorded THEN "deleting" ELSE "done"]
    /\ recorded' = recorded \ {v}
    /\ UNCHANGED <<now, tables, event, callback, pc, shown, due, asked, choices>>

DeleteAfterLife(v) ==
    /\ timer[v] = "deleting"
    /\ timer' = [timer EXCEPT ![v] = "done"]
    /\ AskDelete(v)
    /\ UNCHANGED <<now, tables, event, callback, pc, recorded, due, choices>>

(* The clock ends at Horizon, and waits for a message that is being sent,  *)
(* so that every timer wakes before the end.                               *)
Tick ==
    /\ now < IF \E v \in Verifications : pc[v] \in {"notify", "record"}
               THEN Horizon - Ttl ELSE Horizon
    /\ now' = now + 1
    /\ UNCHANGED <<tables, event, callback, pc, chat, choices>>

-----------------------------------------------------------------------------
Handler(v) == \/ CreateToken(v) \/ SendVerification(v) \/ RecordMessage(v)
              \/ Approved(v) \/ WaitEnds(v) \/ CancelToken(v) \/ FinishCancel(v)
Deletion(v) == \/ PopMessage(v) \/ DeleteAfterClick(v)
               \/ TimerWakes(v) \/ DeleteAfterLife(v)

Next ==
    \/ Tick
    \/ ListPendingLinks
    \/ \E v \in Verifications : Handler(v) \/ Deletion(v) \/ ClickVerify(v)
    \/ \E n \in Notices : CreateActionLinks(n)
    \/ \E l \in ActionLinks : ClickAction(l) \/ ApplyAction(l)
    \/ \E l \in Controls : CreateControlAuth(l) \/ OpenControlPage(l)
                           \/ RenderControlPage(l)
    \/ \E l \in Links : RefuseLink(l)

Spec == Init /\ [][Next]_vars

(* Time passes, threads are scheduled and calls to the chat return.        *)
(* Nobody has to follow a link, and a wait may be endless.                 *)
FairSpec ==
    /\ Spec
    /\ WF_vars(Tick)
    /\ \A v \in Verifications :
         /\ WF_vars(SendVerification(v)) /\ WF_vars(RecordMessage(v))
         /\ WF_vars(Deletion(v))
    /\ \A l \in ActionLinks : WF_vars(ApplyAction(l))
    /\ \A l \in Controls : WF_vars(RenderControlPage(l))

-----------------------------------------------------------------------------
(* Every variable has its type; a table holds only links that were issued, *)
(* and the chat is asked at most once to delete a message.                 *)
TypeOK ==
    /\ now \in 0..Horizon
    /\ table \subseteq issued /\ used \subseteq issued /\ issued \subseteq Links
    /\ created \in [Links -> 0..Horizon]
    /\ event \subseteq Verifications
    /\ callback \in [Links -> Callbacks]
    /\ pc \in [Verifications -> Stages]
    /\ shown \subseteq Verifications /\ recorded \subseteq Verifications
    /\ timer \in [Verifications -> Timers]
    /\ due \in [Verifications -> 0..Horizon]
    /\ asked \in [Verifications -> 0..1]
    /\ idleAction \in IdleActions
    /\ latest \in IdleActions \cup {"contested"}

(* Three tables, a clean-up that forgets used tokens, a cancellation in    *)
(* two steps and callbacks after the lock implement links that are spent   *)
(* at most once, never after they lapsed, and admit or take effect only    *)
(* when they were spent.                                                   *)
Status(l) == IF l \notin issued THEN "unissued"
             ELSE IF callback[l] # "none" THEN "spent"
             ELSE IF l \in table \ used /\ ~Expired(l) THEN "open" ELSE "void"

Promise == INSTANCE OneTimeLinks WITH
             Links <- Links,
             status <- [l \in Links |-> Status(l)],
             effective <- {l \in Links : callback[l] \in {"deleting", "done"}},
             admitted <- {v \in Verifications : pc[v] = "approved"}

ImplementsOneTimeLinks == Promise!Spec

(* The click's callback and the thread that waits for the token's end both *)
(* go for the message; the table lets only one of them have it.            *)
DeletedOnce ==
    \A v \in Verifications :
      /\ ~(callback[v] = "deleting" /\ timer[v] = "deleting")
      /\ "deleting" \in {callback[v], timer[v]} => asked[v] = 0

(* A message does not leave the chat while its link can still be used. *)
UsableLinksStay ==
    [][\A v \in shown \ shown' : v \in used \/ now >= created[v] + Ttl]_vars

(* The choice followed last is in force once it was applied, unless two    *)
(* requests overlapped: each is marked used before it is applied, and then *)
(* they may be applied in the other order.                                 *)
LastChoiceWins == Unapplied = {} /\ latest # "contested" => idleAction = latest

(* A message whose id came back is taken out of the chat once its link was *)
(* used or has expired, unless the chat refuses: a click that comes before *)
(* the id is recorded finds nothing to delete, and leaves it to the thread.*)
(* A message whose id is not known stays, with its dead link.              *)
DeadLinksLeaveChat ==
    \A v \in Verifications : pc[v] = "record" ~> v \notin shown \/ asked[v] = 1

=============================================================================
